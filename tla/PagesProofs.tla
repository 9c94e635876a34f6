---------------------------- MODULE PagesProofs -----------------------------
(***************************************************************************)
(* What the dashboard's pages promise, for every value of their constants. *)
(* The inbox's ledger of its history entries is true of the browser's      *)
(* history.  A typed text stays with its conversation and its operator on  *)
(* its way from the composer to the server.  The bot behaviour card shows  *)
(* what is stored.  The forms send once what they show.  The panel and the *)
(* scroll of an open thread are honest.  Each needs more than itself: what *)
(* every request in flight still carries, and what its answer will leave.  *)
(***************************************************************************)
EXTENDS MCPages, SequenceTheorems, FiniteSetTheorems, TLAPS

-----------------------------------------------------------------------------
(* The history of the inbox page. *)

HEntries == [c : Threads \cup {NoThread}, sbDepth : Unstamped .. MaxEntries]

\* A stamped entry has as many entries of the page before it as it says.
StampsBelow == \A i \in 1 .. Len(entries) : entries[i].sbDepth < i

HInv == HistoryInv /\ StampsBelow

\* What an entry of the page looks like.
LEMMA EntryAt ==
    ASSUME HInv, NEW to \in 1 .. Len(entries)
    PROVE  /\ entries[to].c \in Threads \cup {NoThread}
           /\ entries[to].sbDepth \in Unstamped .. MaxEntries
           /\ entries[to].sbDepth < to
<1>1. entries \in Seq(HEntries)
  BY DEF HInv, HistoryInv, HistoryTypeOK, HEntries
<1>2. entries[to] \in HEntries
  BY <1>1, ElementOfSeq, Zenon
<1>3. entries[to].sbDepth < to
  BY DEF HInv, StampsBelow
<1> QED BY <1>2, <1>3 DEF HEntries

\* popstate finds a depth below the place it arrives at, if the ledger was
\* no deeper than that place.
LEMMA DepthAtBelow ==
    ASSUME HInv, NEW to \in 1 .. Len(entries), depth =< to
    PROVE  DepthAt(entries[to]) \in Nat /\ DepthAt(entries[to]) < to
<1>1. depth \in Nat
  BY DEF HInv, HistoryInv, HistoryTypeOK
<1>2. CASE entries[to].sbDepth # Unstamped
  <2>1. MaxEntries \in Nat
    BY HistoryAssumption
  <2> QED BY <1>2, <2>1, EntryAt DEF DepthAt, Unstamped
<1>3. CASE entries[to].sbDepth = Unstamped
  BY <1>1, <1>3 DEF DepthAt
<1> QED BY <1>2, <1>3

LEMMA HInvInit == HistoryInit => HInv
<1> SUFFICES ASSUME HistoryInit PROVE HInv
  OBVIOUS
<1>1. PICK id \in Threads \cup {NoThread} :
        /\ entries = <<Entry(id, Unstamped)>> /\ cursor = 1
        /\ shownId = id /\ depth = 0 /\ going = 0
  BY DEF HistoryInit
<1>2. Entry(id, Unstamped) \in HEntries
  BY HistoryAssumption DEF Entry, HEntries, Unstamped
<1>3. /\ entries \in Seq(HEntries) /\ Len(entries) = 1
      /\ entries[1].c = id /\ entries[1].sbDepth = -1
  BY <1>1, <1>2 DEF Entry, Unstamped
<1>4. HistoryTypeOK
  BY <1>1, <1>3 DEF HistoryTypeOK, HEntries
<1> QED BY <1>1, <1>3, <1>4
        DEF HInv, HistoryInv, StampsBelow, BackRowStaysInPage, UrlMatchesView

\* A traversal that ends at an entry no lower than the ledger.
LEMMA HInvPop ==
    ASSUME HInv, NEW to \in 1 .. Len(entries), depth =< to,
           OnPopState(to), going' = 0, UNCHANGED entries
    PROVE  HInv'
<1>1. DepthAt(entries[to]) \in Nat /\ DepthAt(entries[to]) < to
  BY DepthAtBelow
<1>2. entries[to].c \in Threads \cup {NoThread}
  BY EntryAt
<1>3. HistoryTypeOK'
  BY <1>1, <1>2 DEF HInv, HistoryInv, HistoryTypeOK, OnPopState
<1>4. StampsBelow'
  BY DEF HInv, StampsBelow
<1>5. BackRowStaysInPage'
  BY <1>1 DEF BackRowStaysInPage, OnPopState
<1>6. UrlMatchesView'
  BY DEF UrlMatchesView, OnPopState
<1> QED BY <1>3, <1>4, <1>5, <1>6 DEF HInv, HistoryInv

LEMMA HInvOpen == ASSUME HInv, NEW id \in Threads, OpenConversation(id) PROVE HInv'
<1> DEFINE kept == SubSeq(entries, 1, cursor)
           e == Entry(id, depth + 1)
<1>1. /\ cursor \in 1 .. Len(entries) /\ Len(entries) \in Nat
      /\ depth \in Nat /\ going \in Nat /\ depth + going < cursor
      /\ cursor < MaxEntries /\ MaxEntries \in Nat
  BY HistoryAssumption
  DEF HInv, HistoryInv, HistoryTypeOK, BackRowStaysInPage, OpenConversation
<1>2. entries \in Seq(HEntries)
  BY DEF HInv, HistoryInv, HistoryTypeOK, HEntries
<1>3. /\ kept \in Seq(HEntries) /\ Len(kept) = cursor
      /\ \A i \in 1 .. cursor : kept[i] = entries[i]
  BY <1>1, <1>2, SubSeqProperties
<1>4. e \in HEntries /\ e.sbDepth = depth + 1 /\ e.c = id
  BY <1>1 DEF Entry, HEntries, Unstamped
<1>5. /\ entries' = Append(kept, e) /\ cursor' = cursor + 1
      /\ depth' = depth + 1 /\ shownId' = id /\ going' = going
  BY DEF OpenConversation
<1> HIDE DEF kept, e
<1>6. /\ entries' \in Seq(HEntries)
      /\ Len(entries') = cursor + 1
      /\ \A i \in 1 .. cursor : entries'[i] = entries[i]
      /\ entries'[cursor + 1] = e
  BY <1>1, <1>3, <1>4, <1>5, AppendProperties
<1>7. HistoryTypeOK'
  BY <1>1, <1>5, <1>6 DEF HistoryTypeOK, HEntries
<1>8. StampsBelow'
  <2> SUFFICES ASSUME NEW i \in 1 .. cursor + 1 PROVE entries'[i].sbDepth < i
    BY <1>6 DEF StampsBelow
  <2>1. CASE i = cursor + 1
    BY <2>1, <1>1, <1>4, <1>6
  <2>2. CASE i # cursor + 1
    <3>1. i \in 1 .. cursor /\ i \in 1 .. Len(entries)
      BY <2>2, <1>1
    <3> QED BY <3>1, <1>6 DEF HInv, StampsBelow
  <2> QED BY <2>1, <2>2
<1>9. BackRowStaysInPage'
  BY <1>1, <1>5 DEF BackRowStaysInPage
<1>10. UrlMatchesView'
  BY <1>4, <1>5, <1>6 DEF UrlMatchesView
<1> QED BY <1>7, <1>8, <1>9, <1>10 DEF HInv, HistoryInv

LEMMA HInvClose == ASSUME HInv, CloseThread PROVE HInv'
<1>1. /\ cursor' = cursor /\ shownId' = NoThread /\ depth' = 0 /\ going = 0
      /\ cursor \in 1 .. Len(entries) /\ depth \in Nat /\ depth < cursor
  BY DEF CloseThread, LedgerAfterClose, HInv, HistoryInv, HistoryTypeOK, BackRowStaysInPage
<1>2. CASE depth > 0 /\ going' = depth /\ UNCHANGED entries
  BY <1>1, <1>2
  DEF HInv, HistoryInv, HistoryTypeOK, StampsBelow, BackRowStaysInPage, UrlMatchesView
<1>3. CASE depth = 0 /\ entries' = [entries EXCEPT ![cursor] = Entry(NoThread, Unstamped)]
           /\ UNCHANGED going
  <2> DEFINE e == Entry(NoThread, Unstamped)
  <2>1. e \in HEntries /\ e.c = NoThread /\ e.sbDepth = -1
    BY HistoryAssumption DEF Entry, HEntries, Unstamped
  <2>2. entries \in Seq(HEntries)
    BY DEF HInv, HistoryInv, HistoryTypeOK, HEntries
  <2>3. entries' = [entries EXCEPT ![cursor] = e]
    BY <1>3
  <2> HIDE DEF e
  <2>4. /\ entries' \in Seq(HEntries) /\ Len(entries') = Len(entries)
        /\ entries'[cursor] = e
        /\ \A i \in 1 .. Len(entries) : i # cursor => entries'[i] = entries[i]
    BY <2>1, <2>2, <2>3, <1>1, ExceptSeq
  <2>5. HistoryTypeOK'
    BY <1>1, <1>3, <2>4 DEF HistoryTypeOK, HEntries
  <2>6. StampsBelow'
    BY <1>1, <2>1, <2>4 DEF HInv, StampsBelow
  <2>7. BackRowStaysInPage'
    BY <1>1, <1>3 DEF BackRowStaysInPage
  <2>8. UrlMatchesView'
    BY <1>1, <2>1, <2>4 DEF UrlMatchesView
  <2> QED BY <2>5, <2>6, <2>7, <2>8 DEF HInv, HistoryInv
<1> QED BY <1>2, <1>3 DEF CloseThread

LEMMA HInvNext == HInv /\ [HistoryNext]_historyVars => HInv'
<1> SUFFICES ASSUME HInv, [HistoryNext]_historyVars PROVE HInv'
  OBVIOUS
<1>1. /\ cursor \in 1 .. Len(entries) /\ Len(entries) \in Nat
      /\ depth \in Nat /\ going \in Nat /\ depth + going < cursor
  BY DEF HInv, HistoryInv, HistoryTypeOK, BackRowStaysInPage
<1>2. ASSUME NEW id \in Threads, OpenConversation(id) PROVE HInv'
  BY <1>2, HInvOpen
<1>3. CASE CloseThread
  BY <1>3, HInvClose
<1>4. CASE Traverse
  <2>1. cursor - going \in 1 .. Len(entries) /\ depth =< cursor - going
    BY <1>1
  <2> QED BY <1>4, <2>1, HInvPop DEF Traverse
<1>5. ASSUME NEW to \in 1 .. MaxEntries, BrowserMove(to) PROVE HInv'
  <2>1. /\ to \in 1 .. Len(entries) /\ depth =< to
        /\ OnPopState(to) /\ going' = 0 /\ UNCHANGED entries
    BY <1>1, <1>5 DEF BrowserMove
  <2> QED BY <2>1, HInvPop
<1>6. CASE Refresh
  <2>1. /\ going' = 0 /\ depth' = 0 /\ cursor' = cursor
        /\ entries' = entries /\ shownId' = entries[cursor].c
    BY <1>6 DEF Refresh
  <2>2. entries[cursor].c \in Threads \cup {NoThread}
    BY <1>1, EntryAt
  <2> QED BY <1>1, <2>1, <2>2
          DEF HInv, HistoryInv, HistoryTypeOK, StampsBelow, BackRowStaysInPage, UrlMatchesView
<1>7. CASE UNCHANGED historyVars
  BY <1>7 DEF historyVars, HInv, HistoryInv, HistoryTypeOK, StampsBelow,
              BackRowStaysInPage, UrlMatchesView
<1> QED BY <1>2, <1>3, <1>4, <1>5, <1>6, <1>7 DEF HistoryNext

\* Whatever mix of pushes, back, forward, refresh and close led here: address
\* and view agree once the browser has carried out what it was asked, and the
\* back row of a thread stays within the page's own entries (closeThread and
\* onPopState of the inbox page).
THEOREM LedgerIsTrue == HistorySpec => []HistoryInv
<1>1. HInv => HistoryInv
  BY DEF HInv
<1> QED BY <1>1, HInvInit, HInvNext, PTL DEF HistorySpec

-----------------------------------------------------------------------------
(* The drafts of the inbox page. *)

Written == Convs \X Operators

\* A text that operator u may see in conversation c: it was written by u,
\* and if a human wrote it, for c.
Backed(t, c, u) ==
    /\ writtenFor[t] \in Written
    /\ writtenFor[t][2] = u
    /\ t \in Human => writtenFor[t][1] = c

Reply == [id : Convs, text : Texts, mount : Nat,
          at : {"posted", "stored", "refused"}]

DTypes ==
    /\ DraftsTypeOK
    /\ sends \subseteq Reply
    /\ log \in [Convs -> SUBSET Texts]

ComposerBacked ==
    /\ \A c \in Convs : drafts[c] \in Texts => Backed(drafts[c], c, me)
    /\ \A p \in pending : p[2] \in Texts => Backed(p[2], p[1], me)

StorageBacked ==
    \A u \in Operators, c \in Convs :
        stored[u][c] \in Texts => Backed(stored[u][c], c, u)

SendsBacked == \A s \in sends : Backed(s.text, s.id, me)

LogBacked ==
    \A c \in Convs, t \in Human :
        t \in log[c] => writtenFor[t] \in Written /\ writtenFor[t][1] = c

DInv == DTypes /\ ComposerBacked /\ StorageBacked /\ SendsBacked /\ LogBacked

LEMMA DInvImplies == DInv => DraftsInv
  BY DEF DInv, DTypes, ComposerBacked, LogBacked, Backed, DraftsInv,
         TypedReplyReachesItsThread, DraftsStayWithTheirOperator

-----------------------------------------------------------------------------

LEMMA WrittenIsAPair == ASSUME NEW x \in Written PROVE x # <<>>
<1>1. PICK c \in Convs, u \in Operators : x = <<c, u>>
  BY DEF Written
<1>2. Len(x) = 2 /\ Len(<<>>) = 0
  BY <1>1
<1> QED BY <1>2

\* What was written keeps what it was written for: a text is written once.
LEMMA BackedKept ==
    ASSUME DTypes, NEW t0 \in Texts, writtenFor[t0] = <<>>,
           NEW x \in Written, writtenFor' = [writtenFor EXCEPT ![t0] = x],
           NEW t \in Texts, writtenFor[t] \in Written
    PROVE  writtenFor'[t] = writtenFor[t]
<1>1. writtenFor[t] # <<>>
  BY WrittenIsAPair
<1>2. t # t0
  BY <1>1
<1> QED BY <1>2 DEF DTypes, DraftsTypeOK

LEMMA PendingIs ==
    ASSUME DTypes, NEW p \in pending
    PROVE  /\ pending = {p} /\ p[1] \in Convs /\ p[2] \in Texts \cup {None}
  BY DEF DTypes, DraftsTypeOK

\* The debounced text lands under the key it was typed for.
LEMMA FlushedIsBacked ==
    ASSUME DInv
    PROVE  /\ Flushed \in [Operators -> [Convs -> Texts \cup {None}]]
           /\ \A u \in Operators, c \in Convs :
                Flushed[u][c] \in Texts => Backed(Flushed[u][c], c, u)
<1>1. stored \in [Operators -> [Convs -> Texts \cup {None}]] /\ me \in Operators
  BY DEF DInv, DTypes, DraftsTypeOK
<1>2. CASE pending = {}
  BY <1>1, <1>2 DEF Flushed, DInv, StorageBacked
<1>3. CASE pending # {}
  <2>1. PICK p \in pending : TRUE
    BY <1>3
  <2>2. pending = {p} /\ p[1] \in Convs /\ p[2] \in Texts \cup {None}
    BY <2>1, PendingIs DEF DInv
  <2>3. (CHOOSE q \in pending : TRUE) = p
    BY <2>2
  <2>4. Flushed = [stored EXCEPT ![me][p[1]] = p[2]]
    BY <1>3, <2>3 DEF Flushed, PersistDraft
  <2>5. Flushed \in [Operators -> [Convs -> Texts \cup {None}]]
    BY <1>1, <2>2, <2>4
  <2>6. ASSUME NEW u \in Operators, NEW c \in Convs, Flushed[u][c] \in Texts
        PROVE  Backed(Flushed[u][c], c, u)
    <3>1. CASE u = me /\ c = p[1]
      <4>1. Flushed[u][c] = p[2]
        BY <1>1, <2>2, <2>4, <3>1
      <4> QED BY <2>1, <2>6, <3>1, <4>1 DEF DInv, ComposerBacked
    <3>2. CASE ~(u = me /\ c = p[1])
      <4>1. Flushed[u][c] = stored[u][c]
        BY <1>1, <2>2, <2>4, <3>2
      <4> QED BY <2>6, <4>1 DEF DInv, StorageBacked
    <3> QED BY <3>1, <3>2
  <2> QED BY <2>5, <2>6
<1> QED BY <1>2, <1>3

LEMMA DInvInit == DraftsInit => DInv
<1> SUFFICES ASSUME DraftsInit PROVE DInv
  OBVIOUS
<1>1. None \notin Texts /\ Unset \notin Texts
  BY DraftsAssumption DEF Texts
<1>2. DTypes
  BY DraftsAssumption DEF DraftsInit, DTypes, DraftsTypeOK
<1>3. ComposerBacked /\ StorageBacked /\ SendsBacked /\ LogBacked
  BY <1>1 DEF DraftsInit, ComposerBacked, StorageBacked, SendsBacked, LogBacked
<1> QED BY <1>2, <1>3 DEF DInv
-----------------------------------------------------------------------------

\* The composer's draft and its debounced copy become t, which is backed.
LEMMA DInvUpdate ==
    ASSUME DInv, NEW t \in Texts \cup {None}, sel \in Convs, UpdateDraft(t),
           UNCHANGED <<loaded, sends, log>>, ai' \subseteq ai,
           writtenFor' \in [Texts -> Written \cup {<<>>}],
           \A x \in Texts : writtenFor[x] \in Written => writtenFor'[x] = writtenFor[x],
           t \in Texts => Backed(t, sel, me)'
    PROVE  DInv'
<1>1. /\ drafts' = [drafts EXCEPT ![sel] = t] /\ pending' = {<<sel, t>>}
      /\ UNCHANGED <<me, mount, sel, lastShown, stored>>
  BY DEF UpdateDraft, DraftKey
<1>2. DTypes'
  BY <1>1 DEF DInv, DTypes, DraftsTypeOK, Written
<1>3. ASSUME NEW x \in Texts, NEW c, NEW u, Backed(x, c, u)
      PROVE  Backed(x, c, u)'
  BY <1>3 DEF Backed
<1>4. ComposerBacked'
  <2>1. ASSUME NEW c \in Convs
        PROVE  (drafts[c] \in Texts => Backed(drafts[c], c, me))'
    <3>1. CASE c = sel
      <4>1. drafts'[c] = t
        BY <1>1, <3>1 DEF DInv, DTypes, DraftsTypeOK
      <4> QED BY <1>1, <3>1, <4>1 DEF Backed
    <3>2. CASE c # sel
      <4>1. drafts'[c] = drafts[c]
        BY <1>1, <3>2 DEF DInv, DTypes, DraftsTypeOK
      <4>2. drafts[c] \in Texts => Backed(drafts[c], c, me)
        BY DEF DInv, ComposerBacked
      <4> QED BY <1>1, <4>1, <4>2 DEF Backed
    <3> QED BY <3>1, <3>2
  <2>2. ASSUME NEW p \in pending'
        PROVE  (p[2] \in Texts => Backed(p[2], p[1], me))'
    <3>1. p = <<sel, t>>
      BY <1>1
    <3>2. p[1] = sel /\ p[2] = t
      BY <3>1
    <3> QED BY <1>1, <3>2 DEF Backed
  <2> QED BY <2>1, <2>2 DEF ComposerBacked
<1>5. StorageBacked'
  BY <1>1, <1>3 DEF DInv, StorageBacked, Backed
<1>6. SendsBacked'
  <2>1. ASSUME NEW s \in sends PROVE (Backed(s.text, s.id, me))'
    <3>1. s.text \in Texts
      BY DEF DInv, DTypes, Reply
    <3>2. Backed(s.text, s.id, me)
      BY DEF DInv, SendsBacked
    <3> QED BY <1>1, <3>1, <3>2 DEF Backed
  <2> QED BY <2>1 DEF SendsBacked
<1>7. LogBacked'
  <2>1. ASSUME NEW c \in Convs, NEW x \in Human, x \in log[c]
        PROVE  writtenFor'[x] \in Written /\ writtenFor'[x][1] = c
    BY <2>1 DEF DInv, LogBacked, Texts
  <2> QED BY <2>1 DEF LogBacked
<1> QED BY <1>2, <1>4, <1>5, <1>6, <1>7 DEF DInv

LEMMA DInvType ==
    ASSUME DInv, NEW t \in Human, TypeDraft(t)
    PROVE  DInv'
<1>1. t \in Texts /\ sel \in Convs /\ me \in Operators
  BY DEF TypeDraft, Texts, DInv, DTypes, DraftsTypeOK
<1>2. /\ writtenFor[t] = <<>> /\ UpdateDraft(t)
      /\ writtenFor' = [writtenFor EXCEPT ![t] = <<sel, me>>]
      /\ UNCHANGED <<loaded, sends, ai, log>> /\ me' = me /\ sel' = sel
  BY DEF TypeDraft, UpdateDraft
<1>3. <<sel, me>> \in Written
  BY <1>1 DEF Written
<1>4. \A x \in Texts : writtenFor[x] \in Written => writtenFor'[x] = writtenFor[x]
  BY <1>1, <1>2, <1>3, BackedKept DEF DInv
<1>5. writtenFor' \in [Texts -> Written \cup {<<>>}] /\ writtenFor'[t] = <<sel, me>>
  BY <1>1, <1>2, <1>3 DEF DInv, DTypes, DraftsTypeOK, Written
<1>6. Backed(t, sel, me)'
  BY <1>2, <1>3, <1>5 DEF Backed
<1> QED BY <1>1, <1>2, <1>4, <1>5, <1>6, DInvUpdate

LEMMA DInvAnswer ==
    ASSUME DInv, NEW t \in Suggested, AssistantAnswers(t)
    PROVE  DInv'
<1>1. /\ ai # {} /\ writtenFor[t] = <<>> /\ ai' = {}
      /\ UNCHANGED <<loaded, sends, log>>
  BY DEF AssistantAnswers
<1>2. CASE sel = None
  <2>1. UNCHANGED <<me, mount, sel, lastShown, stored, drafts, pending, writtenFor>>
    BY <1>2 DEF AssistantAnswers
  <2>2. DTypes'
    BY <1>1, <2>1 DEF DInv, DTypes, DraftsTypeOK
  <2>3. ComposerBacked' /\ StorageBacked' /\ SendsBacked' /\ LogBacked'
    BY <1>1, <2>1 DEF DInv, ComposerBacked, StorageBacked, SendsBacked, LogBacked, Backed
  <2> QED BY <2>2, <2>3 DEF DInv
<1>3. CASE sel # None
  <2>1. t \in Texts /\ t \notin Human /\ sel \in Convs /\ me \in Operators
    BY <1>3, DraftsAssumption DEF Texts, DInv, DTypes, DraftsTypeOK
  <2>2. UpdateDraft(t)
    BY <1>3 DEF AssistantAnswers
  <2>3. PICK a \in ai : writtenFor' = [writtenFor EXCEPT ![t] = <<a.about, me>>]
    BY <1>3 DEF AssistantAnswers
  <2>4. a.about \in Convs
    BY <2>3 DEF DInv, DTypes, DraftsTypeOK
  <2>5. <<a.about, me>> \in Written
    BY <2>1, <2>4 DEF Written
  <2>6. \A x \in Texts : writtenFor[x] \in Written => writtenFor'[x] = writtenFor[x]
    BY <1>1, <2>1, <2>3, <2>5, BackedKept DEF DInv
  <2>7. /\ writtenFor' \in [Texts -> Written \cup {<<>>}]
        /\ writtenFor'[t] = <<a.about, me>>
    BY <2>1, <2>3, <2>5 DEF DInv, DTypes, DraftsTypeOK, Written
  <2>8. Backed(t, sel, me)'
    BY <2>1, <2>2, <2>5, <2>7 DEF Backed, UpdateDraft
  <2> QED BY <1>1, <2>1, <2>2, <2>6, <2>7, <2>8, DInvUpdate
<1> QED BY <1>2, <1>3
-----------------------------------------------------------------------------
\* The other operations write no text: they move one, forget one, or end.

LEMMA DInvFlush == ASSUME DInv, FlushDraft PROVE DInv'
<1>1. /\ stored' = Flushed /\ pending' = {}
      /\ UNCHANGED <<me, mount, sel, lastShown, drafts,
                     loaded, sends, ai, log, writtenFor>>
  BY DEF FlushDraft
<1>2. DTypes'
  BY <1>1, FlushedIsBacked DEF DInv, DTypes, DraftsTypeOK
<1>3. StorageBacked'
  BY <1>1, FlushedIsBacked DEF StorageBacked, Backed
<1>4. ComposerBacked' /\ SendsBacked' /\ LogBacked'
  BY <1>1 DEF DInv, ComposerBacked, SendsBacked, LogBacked, Backed
<1> QED BY <1>2, <1>3, <1>4 DEF DInv

LEMMA DInvSelect ==
    ASSUME DInv, NEW c \in Convs \cup {None}, SelectThread(c)
    PROVE  DInv'
<1>1. /\ sel' = c /\ drafts' = HydrateDraft(c, drafts)
      /\ lastShown' = IF c \in loaded THEN c ELSE lastShown
      /\ UNCHANGED <<me, mount, pending, stored, loaded, sends, ai, log, writtenFor>>
  BY DEF SelectThread
<1>2. HydrateDraft(c, drafts) \in [Convs -> Texts \cup {None, Unset}]
  BY DEF DInv, DTypes, DraftsTypeOK, HydrateDraft, StoredDraft
<1>3. DTypes'
  BY <1>1, <1>2 DEF DInv, DTypes, DraftsTypeOK
<1>4. ASSUME NEW d \in Convs
      PROVE  (drafts[d] \in Texts => Backed(drafts[d], d, me))'
  <2>1. drafts'[d] = drafts[d] \/ drafts'[d] = stored[me][d]
    BY <1>1 DEF DInv, DTypes, DraftsTypeOK, HydrateDraft, StoredDraft
  <2>2. drafts[d] \in Texts => Backed(drafts[d], d, me)
    BY DEF DInv, ComposerBacked
  <2>3. stored[me][d] \in Texts => Backed(stored[me][d], d, me)
    BY DEF DInv, DTypes, DraftsTypeOK, StorageBacked
  <2> QED BY <1>1, <2>1, <2>2, <2>3 DEF Backed
<1>5. ComposerBacked'
  BY <1>1, <1>4 DEF DInv, ComposerBacked, Backed
<1>6. StorageBacked' /\ SendsBacked' /\ LogBacked'
  BY <1>1 DEF DInv, StorageBacked, SendsBacked, LogBacked, Backed
<1> QED BY <1>3, <1>5, <1>6 DEF DInv

LEMMA DInvErase == ASSUME DInv, EraseDraft PROVE DInv'
<1>1. sel \in Convs
  BY DEF EraseDraft, DInv, DTypes, DraftsTypeOK
<1>2. UpdateDraft(None) /\ UNCHANGED <<loaded, sends, ai, log, writtenFor>>
  BY DEF EraseDraft
<1>3. None \notin Texts
  BY DraftsAssumption DEF Texts
<1>4. writtenFor \in [Texts -> Written \cup {<<>>}]
  BY DEF DInv, DTypes, DraftsTypeOK, Written
<1> QED BY <1>1, <1>2, <1>3, <1>4, DInvUpdate

LEMMA DInvSend == ASSUME DInv, Send PROVE DInv'
<1> DEFINE r == [id |-> sel, text |-> drafts[sel], mount |-> mount, at |-> "posted"]
<1>1. /\ sel \in Convs /\ drafts[sel] \in Texts /\ mount \in Nat
  BY DEF Send, DInv, DTypes, DraftsTypeOK
<1>2. /\ sends' = sends \cup {r} /\ loaded' = loaded \cup {sel} /\ lastShown' = sel
      /\ UNCHANGED <<me, mount, sel, drafts, pending, stored, ai, log, writtenFor>>
  BY DEF Send
<1>3. r \in Reply /\ r.id = sel /\ r.text = drafts[sel]
  BY <1>1 DEF Reply
<1> HIDE DEF r
<1>4. DTypes'
  BY <1>1, <1>2, <1>3 DEF DInv, DTypes, DraftsTypeOK, Reply
<1>5. SendsBacked'
  <2>1. Backed(drafts[sel], sel, me)
    BY <1>1 DEF DInv, ComposerBacked
  <2> QED BY <1>2, <1>3, <2>1 DEF DInv, SendsBacked, Backed
<1>6. ComposerBacked' /\ StorageBacked' /\ LogBacked'
  BY <1>2 DEF DInv, ComposerBacked, StorageBacked, LogBacked, Backed
<1> QED BY <1>4, <1>5, <1>6 DEF DInv

LEMMA DInvServe ==
    ASSUME DInv, NEW s \in sends, NEW v \in {"stored", "refused"}, ServeReply(s, v)
    PROVE  DInv'
<1> DEFINE r == [s EXCEPT !.at = v]
<1>1. s \in Reply /\ s.id \in Convs /\ s.text \in Texts
  BY DEF DInv, DTypes, Reply
<1>2. r \in Reply /\ r.id = s.id /\ r.text = s.text
  BY <1>1 DEF Reply
<1>3. /\ sends' = (sends \ {s}) \cup {r}
      /\ log' = IF v = "stored" THEN [log EXCEPT ![s.id] = @ \cup {s.text}] ELSE log
      /\ UNCHANGED <<me, mount, sel, lastShown, drafts, pending, stored,
                     loaded, ai, writtenFor>>
  BY DEF ServeReply, client
<1> HIDE DEF r
<1>4. log' \in [Convs -> SUBSET Texts]
  <2>1. log \in [Convs -> SUBSET Texts]
    BY DEF DInv, DTypes
  <2>2. log[s.id] \cup {s.text} \in SUBSET Texts
    BY <1>1, <2>1
  <2>3. log' = log \/ log' = [log EXCEPT ![s.id] = log[s.id] \cup {s.text}]
    BY <1>3
  <2> QED BY <1>1, <2>1, <2>2, <2>3, Zenon
<1>5. DTypes'
  BY <1>2, <1>3, <1>4 DEF DInv, DTypes, DraftsTypeOK, Reply
<1>6. Backed(s.text, s.id, me)
  BY DEF DInv, SendsBacked
<1>7. SendsBacked'
  BY <1>2, <1>3, <1>6 DEF DInv, SendsBacked, Backed
<1>8. LogBacked'
  <2>1. ASSUME NEW c \in Convs, NEW t \in Human, t \in log'[c]
        PROVE  writtenFor[t] \in Written /\ writtenFor[t][1] = c
    <3>1. t \in log[c] \/ (c = s.id /\ t = s.text)
      BY <1>1, <1>3, <2>1 DEF DInv, DTypes
    <3> QED BY <1>6, <3>1 DEF DInv, LogBacked, Backed
  <2> QED BY <1>3, <2>1 DEF LogBacked
<1>9. ComposerBacked' /\ StorageBacked'
  BY <1>3 DEF DInv, ComposerBacked, StorageBacked, Backed
<1> QED BY <1>5, <1>7, <1>8, <1>9 DEF DInv

LEMMA DInvSucceeds == ASSUME DInv, NEW s \in sends, SendSucceeds(s) PROVE DInv'
<1>1. s.id \in Convs /\ me \in Operators
  BY DEF DInv, DTypes, DraftsTypeOK, Reply
<1>2. None \notin Texts
  BY DraftsAssumption DEF Texts
<1>3. /\ sends' = sends \ {s} /\ pending' \subseteq pending
      /\ stored' = [stored EXCEPT ![me][s.id] = None]
      /\ drafts' = drafts \/ drafts' = [drafts EXCEPT ![s.id] = None]
      /\ UNCHANGED <<me, mount, sel, lastShown, loaded, ai, log, writtenFor>>
  BY DEF SendSucceeds
<1>4. pending' = {} \/ pending' = pending
  <2>1. CASE pending = {}
    BY <1>3, <2>1
  <2>2. CASE pending # {}
    <3>1. PICK p \in pending : pending = {p}
      BY <2>2, PendingIs DEF DInv
    <3> QED BY <1>3, <3>1
  <2> QED BY <2>1, <2>2
<1>5. /\ drafts' \in [Convs -> Texts \cup {None, Unset}]
      /\ stored' \in [Operators -> [Convs -> Texts \cup {None}]]
  BY <1>1, <1>3 DEF DInv, DTypes, DraftsTypeOK
<1>6. DTypes'
  BY <1>3, <1>4, <1>5 DEF DInv, DTypes, DraftsTypeOK
<1>7. \A c \in Convs : drafts'[c] \in Texts => drafts'[c] = drafts[c]
  BY <1>1, <1>2, <1>3 DEF DInv, DTypes, DraftsTypeOK
<1>8. \A u \in Operators, c \in Convs :
        stored'[u][c] \in Texts => stored'[u][c] = stored[u][c]
  BY <1>1, <1>2, <1>3 DEF DInv, DTypes, DraftsTypeOK
<1>9. ComposerBacked'
  BY <1>3, <1>7 DEF DInv, ComposerBacked, Backed
<1>10. StorageBacked'
  BY <1>3, <1>8 DEF DInv, StorageBacked, Backed
<1>11. SendsBacked' /\ LogBacked'
  BY <1>3 DEF DInv, SendsBacked, LogBacked, Backed
<1> QED BY <1>6, <1>9, <1>10, <1>11 DEF DInv

\* A failed send, a thread that arrives, a suggestion asked for or refused.
LEMMA DInvQuiet ==
    ASSUME DInv, sends' \subseteq sends, loaded' \subseteq Convs,
           lastShown' \in Convs \cup {None}, ai' \subseteq [about : Convs],
           UNCHANGED <<me, mount, sel, drafts, pending, stored, log, writtenFor>>
    PROVE  DInv'
<1>1. DTypes'
  BY DEF DInv, DTypes, DraftsTypeOK
<1>2. ComposerBacked' /\ StorageBacked' /\ SendsBacked' /\ LogBacked'
  BY DEF DInv, ComposerBacked, StorageBacked, SendsBacked, LogBacked, Backed
<1> QED BY <1>1, <1>2 DEF DInv

LEMMA DInvRemount ==
    ASSUME DInv, NEW c \in Convs \cup {None}, Remount(c)
    PROVE  DInv'
<1>1. /\ mount < MaxMounts /\ mount' = mount + 1 /\ stored' = Flushed
      /\ pending' = {} /\ sel' = c
      /\ drafts' = [d \in Convs |-> IF d = c THEN Flushed[me][d] ELSE Unset]
      /\ lastShown' = IF c \in loaded THEN c ELSE None
      /\ UNCHANGED <<me, loaded, sends, ai, log, writtenFor>>
  BY DEF Remount
<1>2. /\ mount \in 1 .. MaxMounts /\ MaxMounts \in Nat /\ me \in Operators
      /\ Unset \notin Texts
  BY DraftsAssumption DEF DInv, DTypes, DraftsTypeOK, Texts
<1>3. drafts' \in [Convs -> Texts \cup {None, Unset}]
  BY <1>1, <1>2, FlushedIsBacked
<1>4. mount' \in 1 .. MaxMounts
  BY <1>1, <1>2
<1>5. DTypes'
  BY <1>1, <1>3, <1>4, FlushedIsBacked DEF DInv, DTypes, DraftsTypeOK
<1>6. ComposerBacked'
  BY <1>1, <1>2, FlushedIsBacked DEF ComposerBacked, Backed
<1>7. StorageBacked'
  BY <1>1, FlushedIsBacked DEF StorageBacked, Backed
<1>8. SendsBacked' /\ LogBacked'
  BY <1>1 DEF DInv, SendsBacked, LogBacked, Backed
<1> QED BY <1>5, <1>6, <1>7, <1>8 DEF DInv

\* What survives a reload stands under its operator's key.
LEMMA DInvReload == ASSUME DInv, NEW u \in Operators, Reload(u) PROVE DInv'
<1>1. /\ mount < MaxMounts /\ mount' = mount + 1 /\ me' = u
      /\ sel' = None /\ lastShown' = None
      /\ drafts' = [c \in Convs |-> Unset] /\ pending' = {}
      /\ loaded' = {} /\ sends' = {} /\ ai' = {}
      /\ UNCHANGED <<stored, log, writtenFor>>
  BY DEF Reload
<1>2. mount' \in 1 .. MaxMounts /\ Unset \notin Texts
  BY <1>1, DraftsAssumption DEF DInv, DTypes, DraftsTypeOK, Texts
<1>3. DTypes'
  BY <1>1, <1>2 DEF DInv, DTypes, DraftsTypeOK
<1>4. ComposerBacked' /\ SendsBacked'
  BY <1>1, <1>2 DEF ComposerBacked, SendsBacked
<1>5. StorageBacked' /\ LogBacked'
  BY <1>1 DEF DInv, StorageBacked, LogBacked, Backed
<1> QED BY <1>3, <1>4, <1>5 DEF DInv

LEMMA DInvNext == DInv /\ [DraftsNext]_draftsVars => DInv'
<1> SUFFICES ASSUME DInv, [DraftsNext]_draftsVars PROVE DInv'
  OBVIOUS
<1>1. /\ loaded \subseteq Convs /\ lastShown \in Convs \cup {None}
      /\ sel \in Convs \cup {None} /\ ai \subseteq [about : Convs]
  BY DEF DInv, DTypes, DraftsTypeOK
<1>2. CASE FlushDraft
  BY <1>2, DInvFlush
<1>3. CASE Send
  BY <1>3, DInvSend
<1>4. CASE LoadThread
  BY <1>1, <1>4, DInvQuiet DEF LoadThread
<1>5. CASE AskAssistant
  <2>1. Shown \in Convs
    BY <1>1, <1>5 DEF AskAssistant
  <2> QED BY <1>1, <1>5, <2>1, DInvQuiet DEF AskAssistant, client
<1>6. CASE AssistantFails
  BY <1>1, <1>6, DInvQuiet DEF AssistantFails, client
<1>7. ASSUME NEW c \in Convs \cup {None}, SelectThread(c) PROVE DInv'
  BY <1>7, DInvSelect
<1>8. ASSUME NEW c \in Convs \cup {None}, Remount(c) PROVE DInv'
  BY <1>8, DInvRemount
<1>9. CASE EraseDraft
  BY <1>9, DInvErase
<1>10. ASSUME NEW t \in Human, TypeDraft(t) PROVE DInv'
  BY <1>10, DInvType
<1>11. ASSUME NEW s \in sends, SendSucceeds(s) PROVE DInv'
  BY <1>11, DInvSucceeds
<1>12. ASSUME NEW s \in sends, SendFails(s) PROVE DInv'
  BY <1>1, <1>12, DInvQuiet DEF SendFails, client
<1>13. ASSUME NEW s \in sends, NEW v \in {"stored", "refused"}, ServeReply(s, v)
       PROVE  DInv'
  BY <1>13, DInvServe
<1>14. ASSUME NEW t \in Suggested, AssistantAnswers(t) PROVE DInv'
  BY <1>14, DInvAnswer
<1>15. ASSUME NEW u \in Operators, Reload(u) PROVE DInv'
  BY <1>15, DInvReload
<1>16. CASE UNCHANGED draftsVars
  BY <1>1, <1>16, DInvQuiet DEF draftsVars
<1> QED BY <1>2, <1>3, <1>4, <1>5, <1>6, <1>7, <1>8, <1>9, <1>10, <1>11, <1>12,
           <1>13, <1>14, <1>15, <1>16 DEF DraftsNext

\* What an operator types is delivered to the conversation it was typed in
\* and shown to no other operator of the device (updateDraft, persistDraft
\* and the reply mutation of the inbox page), for any number of conversations,
\* operators, texts and mounts.
THEOREM TypedWordsStay == DraftsSpec => []DraftsInv
<1> QED BY DInvInit, DInvNext, DInvImplies, PTL DEF DraftsSpec

-----------------------------------------------------------------------------
(* The bot behaviour card. *)

\* The value a setting may take.
Fits(field, value) == IF field = "tone" THEN value \in Tones ELSE value \in {0, 1}

Saves == [n : Nat, visit : Nat, field : BehaviorFields, value : Tones \cup {0, 1}, prev : Records,
          answer : {"waits", "stored", "refused"}, record : Records, doubt : SUBSET BehaviorFields]

BTypes ==
    /\ held \in Records /\ card \in Records
    /\ typed \in Tones /\ due \in Tones \cup {NoTone}
    /\ behaviorSaves \subseteq Saves
    /\ \A p \in behaviorSaves : Fits(p.field, p.value)
    /\ reading = {} \/ \E r \in [record : Records, doubt : SUBSET BehaviorFields] : reading = {r}
    /\ adriftSaves \subseteq [field : BehaviorFields, value : Tones \cup {0, 1}]
    /\ \A a \in adriftSaves : Fits(a.field, a.value)
    /\ doubtful \subseteq BehaviorFields
    /\ puts \in Nat /\ visits \in Nat /\ crossed \in BOOLEAN

\* A tone the cache does not have is the one the debounce will save.
DueIsTyped == typed # card["tone"] => due = typed

\* A record tells what the server holds of every setting beyond those in doubt,
\* and so it will whatever a save given up on still does.
Tells(record, doubt) ==
    /\ Drifting \subseteq doubt
    /\ \A f \in BehaviorFields : f \in doubt \/ record[f] = held[f]

\* Without an overlap there is one save at most, and whichever way it ends
\* the card will tell what the server holds.
OneSave ==
    ~crossed =>
        /\ Drifting \subseteq doubtful
        /\ \/ /\ behaviorSaves = {} /\ Tells(card, doubtful)
              /\ \A r \in reading : Tells(r.record, r.doubt)
           \/ \E p \in behaviorSaves :
                 /\ behaviorSaves = {p} /\ reading = {}
                 /\ Tells(p.prev, doubtful \cup {p.field})
                 /\ IF p.answer = "stored" THEN Tells(p.record, p.doubt) ELSE Tells(p.prev, doubtful)

BInv == BTypes /\ DueIsTyped /\ OneSave

USE BehaviorBounds

LEMMA BInvImplies == BInv => BehaviorInv
<1> SUFFICES ASSUME BInv PROVE BehaviorInv
  OBVIOUS
<1>1. (\A r \in reading : r.record \in Records /\ r.doubt \subseteq BehaviorFields) /\ Cardinality(reading) <= 1
  <2>1. CASE reading = {}
    BY <2>1, FS_EmptySet
  <2>2. CASE reading # {}
    <3>1. PICK r \in [record : Records, doubt : SUBSET BehaviorFields] : reading = {r}
      BY <2>2 DEF BInv, BTypes
    <3>2. Cardinality({r}) = 1
      BY FS_Singleton
    <3> QED BY <3>1, <3>2
  <2> QED BY <2>1, <2>2
<1>2. BehaviorTypeOK
  BY <1>1 DEF BInv, BTypes, BehaviorTypeOK, Saves, Drifting
<1>3. CardIsTrueWithoutOverlap
  BY DEF BInv, OneSave, Tells, CardIsTrueWithoutOverlap
<1>4. TypedToneIsDue
  BY DEF BInv, BTypes, DueIsTyped, TypedToneIsDue
<1> QED BY <1>2, <1>3, <1>4 DEF BehaviorInv

LEMMA ToneOfRecord == ASSUME NEW r \in Records PROVE r["tone"] \in Tones
  BY DEF Records

\* A patch is a record again.
LEMMA PatchFits ==
    ASSUME NEW r \in Records, NEW field \in BehaviorFields, NEW value, Fits(field, value)
    PROVE  [r EXCEPT ![field] = value] \in Records
  BY DEF Records, Fits, BehaviorFields

\* The field and the cache change together.
LEMMA FollowsCache ==
    ASSUME BTypes, DueIsTyped, NEW r \in Records, Cache(r)
    PROVE  /\ card' = r /\ typed' \in Tones
           /\ typed' # r["tone"] => typed' = typed /\ due = typed /\ typed # card["tone"]
  BY ToneOfRecord DEF Cache, Follow, BTypes, DueIsTyped

LEMMA BInvInit == BehaviorInit => BInv
<1> SUFFICES ASSUME BehaviorInit PROVE BInv
  OBVIOUS
<1>1. BTypes
  BY ToneOfRecord DEF BehaviorInit, BTypes
<1>2. DueIsTyped /\ OneSave
  BY DEF BehaviorInit, DueIsTyped, OneSave, Tells, Drifting
<1> QED BY <1>1, <1>2 DEF BInv
-----------------------------------------------------------------------------

\* A save starts; the field was the cache's tone or the save is of it.
LEMMA MutateBInv ==
    ASSUME BInv, NEW field \in BehaviorFields, NEW value, Fits(field, value),
           value \in Tones \cup {0, 1},
           Mutate(field, value), due' \in {due, NoTone},
           UNCHANGED <<held, adriftSaves, doubtful, visits>>,
           due' = NoTone /\ typed # card["tone"] => field = "tone" /\ value = typed
    PROVE  BInv'
<1> DEFINE m == [n |-> puts, visit |-> visits, field |-> field, value |-> value, prev |-> card,
                 answer |-> "waits", record |-> card, doubt |-> {}]
           newCard == [card EXCEPT ![field] = value]
<1>1. /\ puts' = puts + 1 /\ behaviorSaves' = behaviorSaves \cup {m} /\ reading' = {}
      /\ Cache(newCard) /\ crossed' = (crossed \/ behaviorSaves # {})
  BY DEF Mutate
<1>2. newCard \in Records
  BY PatchFits DEF BInv, BTypes
<1>3. PICK p \in Saves : /\ p = m /\ p.field = field /\ p.value = value
                         /\ p.answer = "waits" /\ p.prev = card /\ p.doubt = {}
  <2>1. m \in Saves
    BY DEF BInv, BTypes, Saves
  <2>2. m.field = field /\ m.value = value /\ m.answer = "waits" /\ m.prev = card /\ m.doubt = {}
    OBVIOUS
  <2> HIDE DEF m
  <2> QED BY <2>1, <2>2
<1>4. field = "tone" => newCard["tone"] = value
  BY DEF BInv, BTypes, Records
<1> HIDE DEF m, newCard
<1>5. /\ card' = newCard /\ typed' \in Tones
      /\ typed' # newCard["tone"] => typed' = typed /\ due = typed /\ typed # card["tone"]
  BY <1>1, <1>2, FollowsCache DEF BInv
<1>6. BTypes'
  BY <1>1, <1>2, <1>3, <1>5 DEF BInv, BTypes
<1>7. DueIsTyped'
  <2>1. CASE due' = due
    BY <1>5, <2>1 DEF DueIsTyped
  <2>2. CASE due' = NoTone
    BY <1>4, <1>5, <2>2 DEF DueIsTyped
  <2> QED BY <2>1, <2>2
<1>8. OneSave'
  <2> SUFFICES ASSUME ~crossed' PROVE OneSave'
    BY DEF OneSave
  <2>1. ~crossed /\ behaviorSaves = {}
    BY <1>1
  <2>2. Tells(card, doubtful) /\ behaviorSaves' = {p}
    BY <1>1, <1>3, <2>1 DEF BInv, OneSave
  <2>3. Drifting' = Drifting /\ doubtful' = doubtful
    BY DEF Drifting
  <2>4. Tells(p.prev, doubtful \cup {p.field})' /\ Tells(p.prev, doubtful)'
    BY <1>3, <2>2, <2>3 DEF Tells
  <2>5. Drifting' \subseteq doubtful'
    BY <2>2, <2>3 DEF Tells
  <2> QED BY <1>1, <1>3, <2>2, <2>4, <2>5 DEF OneSave
<1> QED BY <1>6, <1>7, <1>8 DEF BInv

\* What leaves the record, the cache and the requests alone disturbs nothing.
LEMMA QuietOneSave ==
    ASSUME OneSave, UNCHANGED <<held, card, behaviorSaves, reading, adriftSaves, doubtful, crossed>>
    PROVE  OneSave'
  BY DEF OneSave, Tells, Drifting

LEMMA ToggleBInv == ASSUME BInv, NEW s \in Switches, Toggle(s) PROVE BInv'
<1>1. s \in BehaviorFields /\ s # "tone" /\ card[s] \in {0, 1}
  BY DEF BehaviorFields, BInv, BTypes, Records
<1>2. 1 - card[s] \in {0, 1}
  BY <1>1
<1>3. Fits(s, 1 - card[s])
  BY <1>1, <1>2 DEF Fits
<1>4. Mutate(s, 1 - card[s]) /\ due' = due /\ UNCHANGED <<held, adriftSaves, doubtful, visits>>
  BY DEF Toggle
<1>5. due = NoTone => typed = card["tone"]
  BY DEF BInv, BTypes, DueIsTyped
<1> QED BY <1>1, <1>2, <1>3, <1>4, <1>5, MutateBInv

LEMMA SaveToneBInv ==
    ASSUME BInv, NEW text \in Tones, SaveTone(text), due' = NoTone,
           typed # card["tone"] => text = typed,
           UNCHANGED <<held, adriftSaves, doubtful, gets, visits>>
    PROVE  BInv'
<1>1. "tone" \in BehaviorFields /\ Fits("tone", text)
  BY DEF BehaviorFields, Fits
<1>2. CASE text = card["tone"]
  <2>1. UNCHANGED <<held, card, typed, behaviorSaves, reading, adriftSaves, doubtful, puts, visits, crossed>>
    BY <1>2 DEF SaveTone
  <2>2. typed = card["tone"]
    BY <1>2
  <2>3. OneSave'
    BY <2>1, QuietOneSave DEF BInv
  <2> QED BY <2>1, <2>2, <2>3 DEF BInv, BTypes, DueIsTyped
<1>3. CASE text # card["tone"]
  <2>1. Mutate("tone", text)
    BY <1>3 DEF SaveTone
  <2> QED BY <1>1, <2>1, MutateBInv
<1> QED BY <1>2, <1>3

LEMMA TypeBInv == ASSUME BInv, NEW t \in Tones, Type(t) PROVE BInv'
<1>1. OneSave'
  BY QuietOneSave DEF Type, BInv
<1> QED BY <1>1 DEF Type, BInv, BTypes, DueIsTyped

\* The server's answer to a save.
LEMMA ServeBInv == ASSUME BInv, NEW p \in behaviorSaves, Serve(p) PROVE BInv'
<1>1. /\ p \in Saves /\ p.answer = "waits" /\ Fits(p.field, p.value)
      /\ UNCHANGED <<card, typed, due, reading, adriftSaves, doubtful, puts, visits, crossed>>
  BY DEF Serve, BInv, BTypes
<1>2. Drifting \subseteq BehaviorFields
  BY DEF Drifting, BInv, BTypes
<1>3. PICK q \in Saves :
        /\ behaviorSaves' = (behaviorSaves \ {p}) \cup {q}
        /\ q.field = p.field /\ q.value = p.value /\ q.prev = p.prev
        /\ held' \in Records /\ \A f \in BehaviorFields \ {p.field} : held'[f] = held[f]
        /\ q.answer = "stored" => q.record = held' /\ q.doubt = Drifting
        /\ q.answer = "refused" => held' = held
        /\ q.answer \in {"stored", "refused"}
  <2>1. CASE /\ held' = [held EXCEPT ![p.field] = p.value]
             /\ behaviorSaves' = (behaviorSaves \ {p}) \cup
                    {[p EXCEPT !.answer = "stored", !.record = held', !.doubt = Drifting]}
    <3> DEFINE q == [p EXCEPT !.answer = "stored", !.record = held', !.doubt = Drifting]
    <3>1. held' \in Records /\ \A f \in BehaviorFields \ {p.field} : held'[f] = held[f]
      <4>1. held' \in Records
        BY <1>1, <2>1, PatchFits DEF BInv, BTypes, Saves
      <4>2. \A f \in BehaviorFields \ {p.field} : held'[f] = held[f]
        BY <2>1 DEF BInv, BTypes, Records
      <4> QED BY <4>1, <4>2
    <3>2. q \in Saves /\ q.answer = "stored" /\ q.record = held' /\ q.doubt = Drifting
      BY <1>1, <1>2, <3>1 DEF Saves
    <3>3. q.field = p.field /\ q.value = p.value /\ q.prev = p.prev
      BY <1>1 DEF Saves
    <3>4. behaviorSaves' = (behaviorSaves \ {p}) \cup {q}
      BY <2>1
    <3> HIDE DEF q
    <3> QED BY <3>1, <3>2, <3>3, <3>4
  <2>2. CASE /\ behaviorSaves' = (behaviorSaves \ {p}) \cup {[p EXCEPT !.answer = "refused"]}
             /\ held' = held
    <3> DEFINE q == [p EXCEPT !.answer = "refused"]
    <3>1. q \in Saves /\ q.answer = "refused"
      BY <1>1 DEF Saves
    <3>2. q.field = p.field /\ q.value = p.value /\ q.prev = p.prev
      BY <1>1 DEF Saves
    <3>3. behaviorSaves' = (behaviorSaves \ {p}) \cup {q}
      BY <2>2
    <3>4. held \in Records
      BY DEF BInv, BTypes
    <3> HIDE DEF q
    <3> QED BY <2>2, <3>1, <3>2, <3>3, <3>4
  <2> QED BY <2>1, <2>2 DEF Serve
<1>4. BTypes'
  BY <1>1, <1>3 DEF BInv, BTypes
<1>5. DueIsTyped'
  BY <1>1 DEF BInv, DueIsTyped
<1>6. OneSave'
  <2> SUFFICES ASSUME ~crossed' PROVE OneSave'
    BY DEF OneSave
  <2>1. /\ behaviorSaves = {p} /\ reading = {} /\ Drifting \subseteq doubtful
        /\ Tells(p.prev, doubtful)
    BY <1>1 DEF BInv, OneSave
  <2>2. behaviorSaves' = {q} /\ reading' = {} /\ Drifting' = Drifting /\ doubtful' = doubtful
    BY <1>1, <1>3, <2>1 DEF Drifting
  <2>3. Tells(q.prev, doubtful \cup {q.field})'
    BY <1>3, <2>1, <2>2 DEF Tells
  <2>4. CASE q.answer = "stored"
    <3>1. Tells(q.record, q.doubt)'
      BY <1>3, <2>2, <2>4 DEF Tells
    <3> QED BY <2>1, <2>2, <2>3, <2>4, <3>1 DEF OneSave
  <2>5. CASE q.answer = "refused"
    <3>1. Tells(q.prev, doubtful)'
      BY <1>3, <2>1, <2>2, <2>5 DEF Tells
    <3> QED BY <2>1, <2>2, <2>3, <2>5, <3>1 DEF OneSave
  <2> QED BY <1>3, <2>4, <2>5
<1> QED BY <1>4, <1>5, <1>6 DEF BInv

\* The answer reaches the card.
LEMMA LandSaveBInv == ASSUME BInv, NEW p \in behaviorSaves, LandSave(p) PROVE BInv'
<1>1. /\ p.answer # "waits" /\ Cache(Outcome(p)) /\ behaviorSaves' = behaviorSaves \ {p}
      /\ doubtful' = IF p.answer = "stored" THEN p.doubt ELSE doubtful
      /\ UNCHANGED <<held, due, reading, adriftSaves, puts, visits, crossed>>
  BY DEF LandSave
<1>2. Outcome(p) \in Records /\ p.doubt \subseteq BehaviorFields
  BY DEF Outcome, BInv, BTypes, Saves
<1>3. /\ card' = Outcome(p) /\ typed' \in Tones
      /\ typed' # Outcome(p)["tone"] => typed' = typed /\ due = typed
  BY <1>1, <1>2, FollowsCache DEF BInv
<1>4. BTypes'
  BY <1>1, <1>2, <1>3 DEF BInv, BTypes
<1>5. DueIsTyped'
  BY <1>1, <1>3 DEF DueIsTyped
<1>6. OneSave'
  <2> SUFFICES ASSUME ~crossed' PROVE OneSave'
    BY DEF OneSave
  <2>1. /\ behaviorSaves = {p} /\ reading = {}
        /\ IF p.answer = "stored" THEN Tells(p.record, p.doubt) ELSE Tells(p.prev, doubtful)
    BY <1>1 DEF BInv, OneSave
  <2>2. Tells(card', doubtful')
    BY <1>1, <1>3, <2>1 DEF Outcome
  <2>3. Tells(card, doubtful)' /\ Drifting' \subseteq doubtful'
    BY <1>1, <2>2 DEF Tells, Drifting
  <2>4. behaviorSaves' = {} /\ reading' = {}
    BY <1>1, <2>1
  <2> QED BY <2>3, <2>4 DEF OneSave
<1> QED BY <1>4, <1>5, <1>6 DEF BInv

\* No answer reaches the card, which goes back; the setting is in doubt.
LEMMA GiveUpBInv == ASSUME BInv, NEW p \in behaviorSaves, GiveUp(p) PROVE BInv'
<1>1. /\ p \in Saves /\ Fits(p.field, p.value)
      /\ Cache(p.prev) /\ behaviorSaves' = behaviorSaves \ {p} /\ doubtful' = doubtful \cup {p.field}
      /\ adriftSaves' = adriftSaves \cup
             IF p.answer = "waits" THEN {[field |-> p.field, value |-> p.value]} ELSE {}
      /\ UNCHANGED <<held, due, reading, puts, visits, crossed>>
  BY DEF GiveUp, BInv, BTypes
<1>2. p.prev \in Records /\ p.field \in BehaviorFields /\ p.value \in Tones \cup {0, 1}
  BY <1>1 DEF Saves
<1>3. /\ card' = p.prev /\ typed' \in Tones
      /\ typed' # p.prev["tone"] => typed' = typed /\ due = typed
  BY <1>1, <1>2, FollowsCache DEF BInv
<1>4. Drifting' \subseteq Drifting \cup {p.field}
  BY <1>1 DEF Drifting
<1>5. BTypes'
  <2>1. /\ adriftSaves' \subseteq [field : BehaviorFields, value : Tones \cup {0, 1}]
        /\ \A a \in adriftSaves' : Fits(a.field, a.value)
    BY <1>1, <1>2 DEF BInv, BTypes
  <2> QED BY <1>1, <1>2, <1>3, <2>1 DEF BInv, BTypes
<1>6. DueIsTyped'
  BY <1>1, <1>3 DEF DueIsTyped
<1>7. OneSave'
  <2> SUFFICES ASSUME ~crossed' PROVE OneSave'
    BY DEF OneSave
  <2>1. /\ behaviorSaves = {p} /\ reading = {} /\ Drifting \subseteq doubtful
        /\ Tells(p.prev, doubtful \cup {p.field})
    BY <1>1 DEF BInv, OneSave
  <2>2. Tells(card, doubtful)' /\ Drifting' \subseteq doubtful'
    BY <1>1, <1>3, <1>4, <2>1 DEF Tells
  <2>3. behaviorSaves' = {} /\ reading' = {}
    BY <1>1, <2>1
  <2> QED BY <2>2, <2>3 DEF OneSave
<1> QED BY <1>5, <1>6, <1>7 DEF BInv

\* A save given up on is carried out.
LEMMA ServeLateBInv == ASSUME BInv, NEW a \in adriftSaves, ServeLate(a) PROVE BInv'
<1>1. /\ a.field \in BehaviorFields /\ Fits(a.field, a.value) /\ a.field \in Drifting
      /\ held' = [held EXCEPT ![a.field] = a.value] /\ adriftSaves' = adriftSaves \ {a}
      /\ UNCHANGED <<card, typed, due, behaviorSaves, reading, doubtful, puts, visits, crossed>>
  BY DEF ServeLate, BInv, BTypes, Drifting
<1>2. held' \in Records /\ \A f \in BehaviorFields \ {a.field} : held'[f] = held[f]
  <2>1. held' \in Records
    BY <1>1, PatchFits DEF BInv, BTypes
  <2>2. \A f \in BehaviorFields \ {a.field} : held'[f] = held[f]
    BY <1>1 DEF BInv, BTypes, Records
  <2> QED BY <2>1, <2>2
<1>3. Drifting' \subseteq Drifting
  BY <1>1 DEF Drifting
<1>4. ASSUME NEW record, NEW doubt, Tells(record, doubt)
      PROVE  Drifting' \subseteq doubt /\ \A f \in BehaviorFields : f \in doubt \/ record[f] = held'[f]
  BY <1>1, <1>2, <1>3, <1>4 DEF Tells
<1>5. BTypes'
  BY <1>1, <1>2 DEF BInv, BTypes
<1>6. DueIsTyped'
  BY <1>1 DEF BInv, DueIsTyped
<1>7. OneSave'
  <2> SUFFICES ASSUME ~crossed' PROVE OneSave'
    BY DEF OneSave
  <2>1. OneSave /\ ~crossed
    BY <1>1 DEF BInv
  <2>2. CASE behaviorSaves = {} /\ Tells(card, doubtful) /\ \A r \in reading : Tells(r.record, r.doubt)
    <3>1. Tells(card, doubtful)' /\ \A r \in reading' : Tells(r.record, r.doubt)'
      BY <1>1, <1>4, <2>2 DEF Tells
    <3> QED BY <1>1, <1>3, <2>1, <2>2, <3>1 DEF OneSave
  <2>3. ASSUME NEW p \in behaviorSaves, behaviorSaves = {p}, reading = {},
               Tells(p.prev, doubtful \cup {p.field}),
               IF p.answer = "stored" THEN Tells(p.record, p.doubt) ELSE Tells(p.prev, doubtful)
        PROVE  OneSave'
    <3>1. Tells(p.prev, doubtful \cup {p.field})'
      BY <1>1, <1>4, <2>3 DEF Tells
    <3>2. IF p.answer = "stored" THEN Tells(p.record, p.doubt)' ELSE Tells(p.prev, doubtful)'
      BY <1>1, <1>4, <2>3 DEF Tells
    <3> QED BY <1>1, <1>3, <2>1, <2>3, <3>1, <3>2 DEF OneSave
  <2> QED BY <2>1, <2>2, <2>3 DEF OneSave
<1> QED BY <1>5, <1>6, <1>7 DEF BInv

LEMMA ReadBInv == ASSUME BInv, Read PROVE BInv'
<1> DEFINE r == [record |-> held, doubt |-> Drifting]
<1>1. /\ reading = {} /\ behaviorSaves = {} /\ reading' = {r} /\ held \in Records
      /\ UNCHANGED <<held, card, typed, due, behaviorSaves, adriftSaves, doubtful, puts, visits, crossed>>
  BY DEF Read, BInv, BTypes
<1>2. /\ r \in [record : Records, doubt : SUBSET BehaviorFields]
      /\ r.record = held /\ r.doubt = Drifting
  BY <1>1 DEF Drifting, BInv, BTypes
<1> HIDE DEF r
<1>3. BTypes'
  BY <1>1, <1>2 DEF BInv, BTypes
<1>4. DueIsTyped'
  BY <1>1 DEF BInv, DueIsTyped
<1>5. OneSave'
  BY <1>1, <1>2 DEF BInv, OneSave, Tells, Drifting
<1> QED BY <1>3, <1>4, <1>5 DEF BInv

LEMMA LandReadBInv == ASSUME BInv, LandRead PROVE BInv'
<1>1. PICK r \in reading : Cache(r.record) /\ doubtful' = r.doubt
  BY DEF LandRead
<1>2. /\ reading' = {} /\ UNCHANGED <<held, due, behaviorSaves, adriftSaves, puts, visits, crossed>>
      /\ r.record \in Records /\ r.doubt \subseteq BehaviorFields
  BY DEF LandRead, BInv, BTypes
<1>3. /\ card' = r.record /\ typed' \in Tones
      /\ typed' # r.record["tone"] => typed' = typed /\ due = typed
  BY <1>1, <1>2, FollowsCache DEF BInv
<1>4. BTypes'
  BY <1>1, <1>2, <1>3 DEF BInv, BTypes
<1>5. DueIsTyped'
  BY <1>2, <1>3 DEF DueIsTyped
<1>6. OneSave'
  <2> SUFFICES ASSUME ~crossed' PROVE OneSave'
    BY DEF OneSave
  <2>1. behaviorSaves = {} /\ Tells(r.record, r.doubt)
    BY <1>1, <1>2 DEF BInv, OneSave
  <2>2. Tells(card, doubtful)' /\ Drifting' \subseteq doubtful'
    BY <1>1, <1>2, <1>3, <2>1 DEF Tells, Drifting
  <2> QED BY <1>2, <2>1, <2>2 DEF OneSave
<1> QED BY <1>4, <1>5, <1>6 DEF BInv

LEMMA RevisitBInv == ASSUME BInv, Revisit PROVE BInv'
<1>1. /\ due' = NoTone /\ typed' = card["tone"] /\ card["tone"] \in Tones /\ visits' = visits + 1
      /\ UNCHANGED <<held, card, behaviorSaves, reading, adriftSaves, doubtful, puts, crossed>>
  BY ToneOfRecord DEF Revisit, BInv, BTypes
<1>2. OneSave'
  BY <1>1, QuietOneSave DEF BInv
<1> QED BY <1>1, <1>2 DEF BInv, BTypes, DueIsTyped

LEMMA BInvNext == BInv /\ [BehaviorNext]_behaviorVars => BInv'
<1> SUFFICES ASSUME BInv, [BehaviorNext]_behaviorVars PROVE BInv'
  OBVIOUS
<1>1. ASSUME NEW s \in Switches, Toggle(s) PROVE BInv'
  BY <1>1, ToggleBInv
<1>2. ASSUME NEW t \in Tones, Type(t) PROVE BInv'
  BY <1>2, TypeBInv
<1>3. CASE Pause
  <2>1. due \in Tones /\ (typed # card["tone"] => due = typed)
    BY <1>3 DEF Pause, BInv, BTypes, DueIsTyped
  <2> QED BY <1>3, <2>1, SaveToneBInv DEF Pause
<1>4. CASE Blur
  <2>1. typed \in Tones
    BY DEF BInv, BTypes
  <2> QED BY <1>4, <2>1, SaveToneBInv DEF Blur
<1>5. ASSUME NEW p \in behaviorSaves, Serve(p) \/ LandSave(p) \/ GiveUp(p) PROVE BInv'
  BY <1>5, ServeBInv, LandSaveBInv, GiveUpBInv
<1>6. CASE Read \/ LandRead \/ Revisit
  BY <1>6, ReadBInv, LandReadBInv, RevisitBInv
<1>7. ASSUME NEW a \in adriftSaves, ServeLate(a) PROVE BInv'
  BY <1>7, ServeLateBInv
<1>8. CASE UNCHANGED behaviorVars
  <2>1. OneSave'
    BY <1>8, QuietOneSave DEF behaviorVars, BInv
  <2> QED BY <1>8, <2>1 DEF behaviorVars, BInv, BTypes, DueIsTyped
<1> QED BY <1>1, <1>2, <1>3, <1>4, <1>5, <1>6, <1>7, <1>8 DEF BehaviorNext

\* Once nothing is in flight and if no two saves overlapped, the card tells what
\* the bot does, lost answers and late writes included: a save that was given up
\* on leaves its own setting in doubt, and only until the next answer.  No typed
\* tone is forgotten (the mutation and the debounce of the bot behaviour card).
THEOREM CardIsTrue == BehaviorSpec => []BehaviorInv
<1> QED BY BInvInit, BInvNext, BInvImplies, PTL DEF BehaviorSpec

-----------------------------------------------------------------------------
(* Sets of one element at most. *)

LEMMA CountsOne == ASSUME NEW q, q = {} \/ \E x : q = {x} PROVE Cardinality(q) <= 1
<1>1. CASE q = {}
  BY <1>1, FS_EmptySet
<1>2. ASSUME NEW x, q = {x} PROVE Cardinality(q) <= 1
  <2>1. Cardinality({x}) = 1
    BY FS_Singleton
  <2> QED
    BY <1>2, <2>1
<1> QED
  BY <1>1, <1>2

-----------------------------------------------------------------------------
(* The upgrade dialog.                                                     *)

UTypes == UpgradeTypeOK /\ {upgradeSent, pendingShown} \subseteq BOOLEAN

\* One request at most, and while there is one the ref or the rendered button
\* says so: a dialog opened again forgets the ref, but not before the button
\* has been rendered as pending.
OneUpgrade == upgrading = {} \/ \E r : upgrading = {r}
UpgradeGuarded == upgrading # {} => upgradeSent \/ pendingShown

UInv == UTypes /\ OneUpgrade /\ UpgradeGuarded

LEMMA UpgradeInductive == UpgradeSpec => []UInv
<1>1. UpgradeInit => UInv
  <2> SUFFICES ASSUME UpgradeInit PROVE UInv
    OBVIOUS
  <2>1. 0 \in 0 .. MaxPosts
    BY UpgradeAssumption
  <2> QED
    BY <2>1 DEF UpgradeInit, UInv, UTypes, UpgradeTypeOK, Providers, OneUpgrade, UpgradeGuarded
<1>2. UInv /\ [UpgradeNext]_upgradeVars => UInv'
  <2> SUFFICES ASSUME UInv, [UpgradeNext]_upgradeVars PROVE UInv'
    OBVIOUS
  <2> USE DEF UInv
  <2>1. CASE OpenUpgrade
    BY <2>1, UpgradeAssumption DEF OpenUpgrade, UTypes, UpgradeTypeOK, Providers, OneUpgrade,
       UpgradeGuarded, Rendered
  <2>2. CASE CloseUpgrade
    BY <2>2, UpgradeAssumption DEF CloseUpgrade, UTypes, UpgradeTypeOK, Providers, OneUpgrade,
       UpgradeGuarded, Rendered
  <2>3. ASSUME NEW p \in {"belowCap", "aboveCap"}, ChoosePlan(p) PROVE UInv'
    BY <2>3, UpgradeAssumption DEF ChoosePlan, UTypes, UpgradeTypeOK, Providers, OneUpgrade,
       UpgradeGuarded
  <2>4. ASSUME NEW w \in Providers, ChooseProvider(w) PROVE UInv'
    BY <2>4, UpgradeAssumption DEF ChooseProvider, UTypes, UpgradeTypeOK, Providers, OneUpgrade,
       UpgradeGuarded
  <2>5. CASE FillFields
    BY <2>5, UpgradeAssumption DEF FillFields, UTypes, UpgradeTypeOK, Providers, OneUpgrade,
       UpgradeGuarded
  <2>6. CASE SubmitUpgrade
    <3>1. upgrading = {} /\ upgrading' = {<<posts', provider>>} /\ upgradeSent'
      BY <2>6 DEF SubmitUpgrade, MayUpgrade, UpgradeGuarded
    <3>2. posts' \in 0 .. MaxPosts
      BY <2>6, UpgradeAssumption DEF SubmitUpgrade, UTypes, UpgradeTypeOK
    <3>3. UTypes'
      BY <2>6, <3>2 DEF SubmitUpgrade, UTypes, UpgradeTypeOK
    <3> QED
      BY <3>1, <3>3 DEF OneUpgrade, UpgradeGuarded
  <2>7. CASE ShowPendingUpgrade
    BY <2>7, UpgradeAssumption DEF ShowPendingUpgrade, UTypes, UpgradeTypeOK, Providers, OneUpgrade,
       UpgradeGuarded, Rendered
  <2>8. ASSUME NEW r \in upgrading, UpgradeSucceeds(r) PROVE UInv'
    BY <2>8, UpgradeAssumption DEF UpgradeSucceeds, UTypes, UpgradeTypeOK, Providers, OneUpgrade,
       UpgradeGuarded
  <2>9. ASSUME NEW r \in upgrading, UpgradeFails(r) PROVE UInv'
    BY <2>9, UpgradeAssumption DEF UpgradeFails, UTypes, UpgradeTypeOK, Providers, OneUpgrade,
       UpgradeGuarded
  <2>10. CASE UNCHANGED upgradeVars
    BY <2>10 DEF upgradeVars, UTypes, UpgradeTypeOK, Providers, OneUpgrade, UpgradeGuarded
  <2> QED
    BY <2>1, <2>2, <2>3, <2>4, <2>5, <2>6, <2>7, <2>8, <2>9, <2>10 DEF UpgradeNext
<1> QED
  BY <1>1, <1>2, PTL DEF UpgradeSpec
-----------------------------------------------------------------------------
(* The form of the payment dialog.                                         *)

PTypes ==
    /\ FormTypeOK /\ {capLoaded, formOpen, phoneTyped, namesTyped, uploadShown, strayReceipt, leftover} \subseteq BOOLEAN
    /\ formOpen => forms \in 1 .. MaxForms

\* A free plan is not met by the bank's way, a high one by no other.
WayFits == NoWalletAboveCap /\ (price = 0 /\ ~leftover => payWay # "bank")

\* One upload at most, which the button shows; a form that is closed has no
\* receipt, unless an upload ended late.
OneUpload == (uploads = {} \/ \E n : uploads = {n}) /\ (uploads # {} => uploadShown)
ReceiptFits == ~strayReceipt => receipt = 0 \/ (formOpen /\ receipt = forms)

PInv == PTypes /\ WayFits /\ OneUpload /\ ReceiptFits

\* After the effect, a price above the cap is paid at the bank; a free plan
\* keeps the way there was.
LEMMA SwitchFits ==
    ASSUME NEW p \in Prices, NEW cap \in Caps, NEW way \in Ways
    PROVE  /\ Switched(p, cap, way) \in Ways
           /\ NeedsBank(p, cap) => Switched(p, cap, way) = "bank"
           /\ p = 0 => Switched(p, cap, way) = way
<1>1. p = 0 => ~NeedsBank(p, cap)
  BY DEF NeedsBank, Prices, Caps
<1> QED
  BY <1>1 DEF Switched, Ways

LEMMA FormInductive == FormSpec => []PInv
<1>1. FormInit => PInv
  <2> SUFFICES ASSUME FormInit PROVE PInv
    OBVIOUS
  <2>1. 0 \in 0 .. MaxForms
    BY PaymentFormAssumption
  <2>2. price \in Prices /\ walletCap \in Caps /\ walletCap = BuiltInCap /\ "liyana" \in Ways
    BY DEF FormInit, Caps, BuiltInCap, Ways
  <2>3. payWay = Switched(price, walletCap, "liyana")
    BY <2>2 DEF FormInit
  <2>4. payWay \in Ways /\ WayFits
    BY <2>2, <2>3, SwitchFits DEF WayFits, NoWalletAboveCap
  <2> QED
    BY <2>1, <2>2, <2>4 DEF FormInit, PInv, PTypes, FormTypeOK, OneUpload, ReceiptFits
<1>2. PInv /\ [FormNext]_paymentFormVars => PInv'
  <2> SUFFICES ASSUME PInv, [FormNext]_paymentFormVars PROVE PInv'
    OBVIOUS
  <2> USE DEF PInv
  <2>1. CASE LoadCap
    <3>1. price' \in Prices /\ walletCap' \in Caps /\ payWay \in Ways /\ leftover' = leftover /\ price' = price
      BY <2>1 DEF LoadCap, PTypes, FormTypeOK
    <3>2. payWay' = Switched(price', walletCap', payWay)
      BY <2>1 DEF LoadCap
    <3>3. payWay' \in Ways /\ WayFits'
      BY <3>1, <3>2, SwitchFits DEF WayFits, NoWalletAboveCap
    <3> QED
      BY <2>1, <3>1, <3>3 DEF LoadCap, PTypes, FormTypeOK, OneUpload, ReceiptFits
  <2>2. CASE OpenForm
    <3>1. forms' \in 1 .. MaxForms /\ forms' \in 0 .. MaxForms
      BY <2>2, PaymentFormAssumption DEF OpenForm, PTypes, FormTypeOK
    <3>2. WayFits' /\ OneUpload'
      BY <2>2 DEF OpenForm, WayFits, NoWalletAboveCap, OneUpload
    <3> QED
      BY <2>2, <3>1, <3>2 DEF OpenForm, PTypes, FormTypeOK, ReceiptFits
  <2>3. CASE CloseForm
    <3>1. PTypes'
      <4>1. 0 \in 0 .. MaxForms
        BY PaymentFormAssumption
      <4> QED
        BY <2>3, <4>1 DEF CloseForm, PTypes, FormTypeOK
    <3>2. WayFits'
      BY <2>3, PaymentFormAssumption DEF CloseForm, PTypes, FormTypeOK, Ways, WayFits,
         NoWalletAboveCap, OneUpload, ReceiptFits
    <3>3. OneUpload'
      BY <2>3, PaymentFormAssumption DEF CloseForm, PTypes, FormTypeOK, Ways, WayFits,
         NoWalletAboveCap, OneUpload, ReceiptFits
    <3>4. ReceiptFits'
      BY <2>3, PaymentFormAssumption DEF CloseForm, PTypes, FormTypeOK, Ways, WayFits,
         NoWalletAboveCap, OneUpload, ReceiptFits
    <3> QED
      BY <3>1, <3>2, <3>3, <3>4
  <2>4. CASE TypePhone
    BY <2>4, PaymentFormAssumption DEF TypePhone, PTypes, FormTypeOK, Ways, WayFits, NoWalletAboveCap,
       OneUpload, ReceiptFits
  <2>5. CASE TypeNames
    BY <2>5, PaymentFormAssumption DEF TypeNames, PTypes, FormTypeOK, Ways, WayFits, NoWalletAboveCap,
       OneUpload, ReceiptFits
  <2>6. CASE PickReceipt
    BY <2>6, PaymentFormAssumption DEF PickReceipt, PTypes, FormTypeOK, Ways, WayFits,
       NoWalletAboveCap, OneUpload, ReceiptFits, MayPick
  <2>7. CASE DropReceipt
    BY <2>7, PaymentFormAssumption DEF DropReceipt, PTypes, FormTypeOK, Ways, WayFits,
       NoWalletAboveCap, OneUpload, ReceiptFits
  <2>8. ASSUME NEW p \in Prices, ChangePlan(p) PROVE PInv'
    <3>1. price' = p /\ walletCap' = walletCap /\ walletCap \in Caps /\ payWay \in Ways
      BY <2>8 DEF ChangePlan, PTypes, FormTypeOK
    <3>2. payWay' = Switched(p, walletCap, payWay) /\ (leftover' <=> p = 0 /\ payWay = "bank")
      BY <2>8 DEF ChangePlan
    <3>3. payWay' \in Ways /\ WayFits'
      BY <3>1, <3>2, SwitchFits DEF WayFits, NoWalletAboveCap
    <3> QED
      BY <2>8, <3>1, <3>3 DEF ChangePlan, PTypes, FormTypeOK, OneUpload, ReceiptFits
  <2>9. ASSUME NEW w \in Ways, PickWay(w) PROVE PInv'
    BY <2>9, PaymentFormAssumption DEF PickWay, PTypes, FormTypeOK, Ways, WayFits, NoWalletAboveCap,
       OneUpload, ReceiptFits
  <2>10. ASSUME NEW n \in uploads, ReceiptUploaded(n) PROVE PInv'
    <3>1. PTypes'
      <4>1. uploads \subseteq 1 .. MaxForms
        BY DEF PTypes, FormTypeOK
      <4>2. n \in 1 .. MaxForms /\ n \in 0 .. MaxForms
        BY <4>1, PaymentFormAssumption
      <4>3. {capLoaded, formOpen, phoneTyped, namesTyped, uploadShown, strayReceipt, leftover}' \subseteq BOOLEAN
        BY <2>10 DEF ReceiptUploaded, PTypes
      <4> QED
        BY <2>10, <4>2, <4>3 DEF ReceiptUploaded, PTypes, FormTypeOK
    <3>2. WayFits'
      BY <2>10, PaymentFormAssumption DEF ReceiptUploaded, PTypes, FormTypeOK, Ways, WayFits,
         NoWalletAboveCap, OneUpload, ReceiptFits
    <3>3. OneUpload'
      BY <2>10, PaymentFormAssumption DEF ReceiptUploaded, PTypes, FormTypeOK, Ways, WayFits,
         NoWalletAboveCap, OneUpload, ReceiptFits
    <3>4. ReceiptFits'
      BY <2>10, PaymentFormAssumption DEF ReceiptUploaded, PTypes, FormTypeOK, Ways, WayFits,
         NoWalletAboveCap, OneUpload, ReceiptFits
    <3> QED
      BY <3>1, <3>2, <3>3, <3>4
  <2>11. ASSUME NEW n \in uploads, UploadFails(n) PROVE PInv'
    BY <2>11, PaymentFormAssumption DEF UploadFails, PTypes, FormTypeOK, Ways, WayFits,
       NoWalletAboveCap, OneUpload, ReceiptFits
  <2>12. CASE UNCHANGED paymentFormVars
    BY <2>12 DEF paymentFormVars, PTypes, FormTypeOK, Ways, WayFits, NoWalletAboveCap, OneUpload, ReceiptFits
  <2> QED
    BY <2>1, <2>2, <2>3, <2>4, <2>5, <2>6, <2>7, <2>8, <2>9, <2>10, <2>11, <2>12 DEF FormNext
<1> QED
  BY <1>1, <1>2, PTL DEF FormSpec
-----------------------------------------------------------------------------
(* The onboarding wizard.                                                  *)

\* The steps are earned, save by save, and so is the one a rule was sent from.
HasBeen(what) == \E a \in Accounts : what \in saved[a] \cup passed[a]
EarnedSteps ==
    /\ \A s \in {at, key} : (s > Connect => HasBeen("page")) /\ (s > FirstRule => HasBeen("rule"))
    /\ saving = "rule" => HasBeen("page")

\* A save in flight has been left behind by "Back" only, and only the saves of
\* a page or a rule are said to have failed.
SavesBehind ==
    /\ failure # "done"
    /\ wizard = "open" => (saving = "page" => at <= Connect) /\ (saving = "rule" => at <= FirstRule)
    /\ wizard = "away" => saving = "none" /\ failure = "none"
    /\ failure # "none" => saving = "none" /\ at <= FirstRule

NInv == OnboardingTypeOK /\ EarnedSteps /\ ExitIsRecordedOrSaid /\ SavesBehind

LEMMA EarnedStep == ASSUME OnboardingTypeOK, EarnedSteps PROVE StepsAreEarned
<1> USE DEF Welcome, Connect, FirstRule, Plans, Done, WizardSteps
<1>1. ASSUME NEW s \in WizardSteps
      PROVE Before(s) = (IF s > 1 THEN {"page"} ELSE {}) \cup (IF s > 2 THEN {"rule"} ELSE {})
  BY <1>1 DEF Before, SaveOf
<1>2. ASSUME NEW w PROVE HasBeen(w) <=> w \in UNION {Earned(a) : a \in Accounts}
  BY DEF HasBeen, Earned
<1>3. ASSUME NEW s \in WizardSteps
      PROVE Before(s) \subseteq UNION {Earned(a) : a \in Accounts}
            <=> (s > 1 => HasBeen("page")) /\ (s > 2 => HasBeen("rule"))
  BY <1>1, <1>2
<1>4. {at, key} \subseteq WizardSteps
  BY DEF OnboardingTypeOK
<1> QED
  BY <1>3, <1>4 DEF EarnedSteps, StepsAreEarned

LEMMA StoredGrows ==
    ASSUME OnboardingTypeOK, NEW w \in SUBSET {"page", "rule", "done"},
           saved' = [saved EXCEPT ![account] = @ \cup w]
    PROVE  /\ saved' \in [Accounts -> SUBSET {"page", "rule", "done"}]
           /\ \A a \in Accounts : saved[a] \subseteq saved'[a]
           /\ w \subseteq saved'[account] /\ account \in Accounts
  BY DEF OnboardingTypeOK

LEMMA HandledGrows ==
    ASSUME OnboardingTypeOK, NEW w \in {"page", "rule", "done"}, Handled(w) \/ Stored(w)
    PROVE  /\ saved' \in [Accounts -> SUBSET {"page", "rule", "done"}]
           /\ \A a \in Accounts : saved[a] \subseteq saved'[a]
           /\ Stored(w) => w \in saved'[account] /\ account \in Accounts
  BY StoredGrows DEF Handled, Stored, OnboardingTypeOK

LEMMA GrowthKeeps ==
    ASSUME OnboardingTypeOK, \A a \in Accounts : saved[a] \subseteq saved'[a], passed' = passed
    PROVE  \A w : HasBeen(w) => \E a \in Accounts : w \in saved'[a] \cup passed'[a]
  BY DEF HasBeen

LEMMA OnboardingInductive == OnboardingSpec => []NInv
<1> USE DEF Welcome, Connect, FirstRule, Plans, Done, WizardSteps
<1>1. OnboardingInit => NInv
  <2> SUFFICES ASSUME OnboardingInit PROVE NInv
    OBVIOUS
  <2>1. saved \in [Accounts -> SUBSET {"page", "rule", "done"}] /\ passed \in [Accounts -> SUBSET {"page", "rule"}]
    BY DEF OnboardingInit
  <2>2. OnboardingTypeOK
    <3>1. {at, key} \subseteq WizardSteps /\ {saving, failure} \subseteq {"page", "rule", "done", "none"}
      BY DEF OnboardingInit
    <3>2. {suggesting, skipping, warned} \subseteq BOOLEAN
      BY DEF OnboardingInit
    <3>3. mounts \in 0 .. MaxWizardMounts
      BY OnboardingBounds DEF OnboardingInit
    <3> QED
      BY <2>1, <3>1, <3>2, <3>3 DEF OnboardingInit, OnboardingTypeOK
  <2>3. EarnedSteps
    BY DEF OnboardingInit, EarnedSteps
  <2> QED
    BY <2>2, <2>3 DEF OnboardingInit, NInv, ExitIsRecordedOrSaid, SavesBehind
<1>2. NInv /\ [OnboardingNext]_wizardVars => NInv'
  <2> SUFFICES ASSUME NInv, [OnboardingNext]_wizardVars PROVE NInv'
    OBVIOUS
  <2> USE DEF NInv
  <2>1. CASE Advance
    BY <2>1 DEF Advance, OnboardingTypeOK, EarnedSteps, HasBeen, ExitIsRecordedOrSaid, SavesBehind,
       inputVars, exitVars, placeVars, SaveOf, MoveTo, Usable
  <2>2. CASE Save
    BY <2>2 DEF Save, OnboardingTypeOK, EarnedSteps, HasBeen, ExitIsRecordedOrSaid, SavesBehind,
       inputVars, exitVars, placeVars, SaveOf, Usable
  <2>3. CASE SaveLands
    <3>1. OnboardingTypeOK /\ passed' = passed /\ saving \in {"page", "rule", "done"} /\ (Handled(saving) \/ Stored(saving))
      BY <2>3 DEF SaveLands, OnboardingTypeOK
    <3>2. /\ saved' \in [Accounts -> SUBSET {"page", "rule", "done"}]
          /\ \A a \in Accounts : saved[a] \subseteq saved'[a]
          /\ Stored(saving) => saving \in saved'[account] /\ account \in Accounts
      BY <3>1, HandledGrows
    <3>3. \A w : HasBeen(w) => \E a \in Accounts : w \in saved'[a] \cup passed'[a]
      BY <3>1, <3>2, GrowthKeeps
    <3>4. /\ at' = at + 1 /\ at \in 0 .. 2 /\ key' = key /\ key \in WizardSteps
          /\ failure' \in {"page", "rule", "done", "none"} /\ saving' = "none"
      BY <2>3 DEF SaveLands, OnboardingTypeOK, SavesBehind, MoveTo
    <3>5. OnboardingTypeOK'
      BY <2>3, <3>2, <3>4 DEF SaveLands, OnboardingTypeOK, inputVars, exitVars, placeVars
    <3>6. \A w \in {"page", "rule", "done"} : HasBeen(w) \/ w = saving => HasBeen(w)'
      BY <2>3, <3>2, <3>3 DEF SaveLands, HasBeen
    <3>7. at' > Connect => HasBeen("page")'
      BY <2>3, <3>4, <3>6 DEF SaveLands, EarnedSteps
    <3>8. at' > FirstRule => HasBeen("rule")'
      BY <2>3, <3>4, <3>6 DEF SaveLands, SavesBehind
    <3>9. (key > Connect => HasBeen("page")') /\ (key > FirstRule => HasBeen("rule")')
      BY <3>6 DEF EarnedSteps
    <3>10. EarnedSteps'
      BY <3>4, <3>7, <3>8, <3>9 DEF EarnedSteps
    <3>11. ExitIsRecordedOrSaid'
      BY <2>3, <3>2 DEF SaveLands, OnboardingTypeOK, ExitIsRecordedOrSaid, inputVars, exitVars, placeVars, MoveTo
    <3>12. SavesBehind'
      BY <2>3 DEF SaveLands, OnboardingTypeOK, SavesBehind, inputVars, exitVars, placeVars, MoveTo
    <3> QED
      BY <3>5, <3>10, <3>11, <3>12
  <2>4. CASE SaveFails
    <3>1. OnboardingTypeOK /\ passed' = passed /\ saving \in {"page", "rule", "done"} /\ (Handled(saving) \/ Stored(saving))
      BY <2>4 DEF SaveFails, OnboardingTypeOK
    <3>2. /\ saved' \in [Accounts -> SUBSET {"page", "rule", "done"}]
          /\ \A a \in Accounts : saved[a] \subseteq saved'[a]
          /\ Stored(saving) => saving \in saved'[account] /\ account \in Accounts
      BY <3>1, HandledGrows
    <3>3. \A w : HasBeen(w) => \E a \in Accounts : w \in saved'[a] \cup passed'[a]
      BY <3>1, <3>2, GrowthKeeps
    <3>4. OnboardingTypeOK'
      BY <2>4, <3>2 DEF SaveFails, OnboardingTypeOK, inputVars, exitVars, placeVars
    <3>5. EarnedSteps'
      BY <2>4, <3>2, <3>3 DEF SaveFails, OnboardingTypeOK, EarnedSteps, HasBeen, SavesBehind,
         inputVars, exitVars, placeVars
    <3>6. ExitIsRecordedOrSaid'
      BY <2>4, <3>2 DEF SaveFails, OnboardingTypeOK, ExitIsRecordedOrSaid, inputVars, exitVars, placeVars
    <3>7. SavesBehind'
      BY <2>4 DEF SaveFails, OnboardingTypeOK, SavesBehind, inputVars, exitVars, placeVars
    <3> QED
      BY <3>4, <3>5, <3>6, <3>7
  <2>5. CASE ContinueAnyway
    <3>1. /\ passed' \in [Accounts -> SUBSET {"page", "rule"}] /\ saved' = saved
          /\ \A a \in Accounts : passed[a] \subseteq passed'[a]
          /\ failure \in passed'[account] /\ account \in Accounts
      BY <2>5 DEF ContinueAnyway, OnboardingTypeOK, SavesBehind, Alerted
    <3>2. \A w : HasBeen(w) => \E a \in Accounts : w \in saved'[a] \cup passed'[a]
      BY <3>1 DEF HasBeen
    <3>3. at \in {Connect, FirstRule} /\ failure = SaveOf(at)
      BY <2>5 DEF ContinueAnyway, OnboardingTypeOK, SavesBehind, Alerted, SaveOf
    <3>4. OnboardingTypeOK'
      BY <2>5, <3>1, <3>3 DEF ContinueAnyway, OnboardingTypeOK, inputVars, exitVars, placeVars
    <3>5. EarnedSteps'
      BY <2>5, <3>1, <3>2, <3>3 DEF ContinueAnyway, OnboardingTypeOK, EarnedSteps, HasBeen, SaveOf
    <3>6. ExitIsRecordedOrSaid' /\ SavesBehind'
      BY <2>5, <3>3 DEF ContinueAnyway, ExitIsRecordedOrSaid, SavesBehind, Alerted, exitVars
    <3> QED
      BY <3>4, <3>5, <3>6
  <2>6. CASE SkipSetup
    BY <2>6 DEF SkipSetup, OnboardingTypeOK, EarnedSteps, HasBeen, ExitIsRecordedOrSaid, SavesBehind,
       inputVars, exitVars, placeVars, MoveTo
  <2>7. CASE Back
    BY <2>7 DEF Back, OnboardingTypeOK, EarnedSteps, HasBeen, ExitIsRecordedOrSaid, SavesBehind,
       inputVars, exitVars, placeVars, MoveTo
  <2>8. CASE Skip
    BY <2>8 DEF Skip, OnboardingTypeOK, EarnedSteps, HasBeen, ExitIsRecordedOrSaid, SavesBehind,
       inputVars, exitVars, placeVars
  <2>9. CASE SkipLands
    <3>1. OnboardingTypeOK /\ passed' = passed /\ "done" \in {"page", "rule", "done"} /\ (Handled("done") \/ Stored("done"))
      BY <2>9 DEF SkipLands, OnboardingTypeOK
    <3>2. /\ saved' \in [Accounts -> SUBSET {"page", "rule", "done"}]
          /\ \A a \in Accounts : saved[a] \subseteq saved'[a]
          /\ Stored("done") => "done" \in saved'[account] /\ account \in Accounts
      BY <3>1, HandledGrows
    <3>3. \A w : HasBeen(w) => \E a \in Accounts : w \in saved'[a] \cup passed'[a]
      BY <3>1, <3>2, GrowthKeeps
    <3>4. OnboardingTypeOK'
      BY <2>9, <3>2 DEF SkipLands, OnboardingTypeOK, inputVars, exitVars, placeVars
    <3>5. EarnedSteps'
      BY <2>9, <3>2, <3>3 DEF SkipLands, OnboardingTypeOK, EarnedSteps, HasBeen, SavesBehind,
         inputVars, exitVars, placeVars
    <3>6. ExitIsRecordedOrSaid'
      BY <2>9, <3>2 DEF SkipLands, OnboardingTypeOK, ExitIsRecordedOrSaid, inputVars, exitVars, placeVars
    <3>7. SavesBehind'
      BY <2>9 DEF SkipLands, OnboardingTypeOK, SavesBehind, inputVars, exitVars, placeVars
    <3> QED
      BY <3>4, <3>5, <3>6, <3>7
  <2>10. CASE CompleteLands
    <3>1. OnboardingTypeOK /\ passed' = passed /\ "done" \in {"page", "rule", "done"} /\ (Handled("done") \/ Stored("done"))
      BY <2>10 DEF CompleteLands, OnboardingTypeOK
    <3>2. /\ saved' \in [Accounts -> SUBSET {"page", "rule", "done"}]
          /\ \A a \in Accounts : saved[a] \subseteq saved'[a]
          /\ Stored("done") => "done" \in saved'[account] /\ account \in Accounts
      BY <3>1, HandledGrows
    <3>3. \A w : HasBeen(w) => \E a \in Accounts : w \in saved'[a] \cup passed'[a]
      BY <3>1, <3>2, GrowthKeeps
    <3>4. OnboardingTypeOK'
      <4>1. {warned, skipping, suggesting}' \subseteq BOOLEAN
        BY <2>10 DEF CompleteLands, OnboardingTypeOK, inputVars
      <4>2. {at, key}' \subseteq WizardSteps /\ {saving, failure}' \subseteq {"page", "rule", "done", "none"}
        BY <2>10 DEF CompleteLands, OnboardingTypeOK
      <4> QED
        BY <2>10, <3>2, <4>1, <4>2 DEF CompleteLands, OnboardingTypeOK, inputVars, exitVars, placeVars
    <3>5. EarnedSteps'
      BY <2>10, <3>2, <3>3 DEF CompleteLands, OnboardingTypeOK, EarnedSteps, HasBeen, SavesBehind,
         inputVars, exitVars, placeVars
    <3>6. ExitIsRecordedOrSaid'
      BY <2>10, <3>2 DEF CompleteLands, OnboardingTypeOK, ExitIsRecordedOrSaid, inputVars, exitVars, placeVars
    <3>7. SavesBehind'
      BY <2>10 DEF CompleteLands, OnboardingTypeOK, SavesBehind, inputVars, exitVars, placeVars
    <3> QED
      BY <3>4, <3>5, <3>6, <3>7
  <2>11. CASE AnsweredAfterExit
    <3>1. OnboardingTypeOK /\ passed' = passed /\ saving \in {"page", "rule", "done"} /\ (Handled(saving) \/ Stored(saving))
      BY <2>11 DEF AnsweredAfterExit, OnboardingTypeOK
    <3>2. /\ saved' \in [Accounts -> SUBSET {"page", "rule", "done"}]
          /\ \A a \in Accounts : saved[a] \subseteq saved'[a]
          /\ Stored(saving) => saving \in saved'[account] /\ account \in Accounts
      BY <3>1, HandledGrows
    <3>3. \A w : HasBeen(w) => \E a \in Accounts : w \in saved'[a] \cup passed'[a]
      BY <3>1, <3>2, GrowthKeeps
    <3>4. OnboardingTypeOK'
      <4>1. {warned, skipping, suggesting}' \subseteq BOOLEAN
        BY <2>11 DEF AnsweredAfterExit, OnboardingTypeOK, inputVars
      <4>2. {at, key}' \subseteq WizardSteps /\ {saving, failure}' \subseteq {"page", "rule", "done", "none"}
        BY <2>11 DEF AnsweredAfterExit, OnboardingTypeOK
      <4> QED
        BY <2>11, <3>2, <4>1, <4>2 DEF AnsweredAfterExit, OnboardingTypeOK, inputVars, exitVars, placeVars
    <3>5. EarnedSteps'
      BY <2>11, <3>2, <3>3 DEF AnsweredAfterExit, OnboardingTypeOK, EarnedSteps, HasBeen, SavesBehind,
         inputVars, exitVars, placeVars
    <3>6. ExitIsRecordedOrSaid'
      BY <2>11, <3>2 DEF AnsweredAfterExit, OnboardingTypeOK, ExitIsRecordedOrSaid, inputVars, exitVars, placeVars
    <3>7. SavesBehind'
      BY <2>11 DEF AnsweredAfterExit, OnboardingTypeOK, SavesBehind, inputVars, exitVars, placeVars
    <3> QED
      BY <3>4, <3>5, <3>6, <3>7
  <2>12. CASE FillIn
    <3>1. filled' \subseteq {"link", "rule"}
      BY <2>12 DEF FillIn, FormOf, OnboardingTypeOK
    <3> QED
      BY <2>12, <3>1 DEF FillIn, OnboardingTypeOK, EarnedSteps, HasBeen, ExitIsRecordedOrSaid, SavesBehind,
         exitVars, placeVars
  <2>13. CASE Suggest \/ SuggestLands
    <3>1. filled' \subseteq {"link", "rule"} /\ suggesting' \in BOOLEAN
      BY <2>13 DEF Suggest, SuggestLands, OnboardingTypeOK
    <3> QED
      BY <2>13, <3>1 DEF Suggest, SuggestLands, OnboardingTypeOK, EarnedSteps, HasBeen, ExitIsRecordedOrSaid,
         SavesBehind, exitVars, placeVars
  <2>14. CASE Persist
    BY <2>14 DEF Persist, OnboardingTypeOK, EarnedSteps, HasBeen, ExitIsRecordedOrSaid, SavesBehind,
       inputVars, exitVars, placeVars, HideTab, OpenPlans, TakeShortcut
  <2>15. CASE LeaveByRoute
    <3>1. late' \subseteq LateCalls
      <4>1. Pending \subseteq {"page", "rule", "done", "skip"}
        BY DEF Pending, OnboardingTypeOK
      <4>2. mounts \in 1 .. MaxWizardMounts
        BY <2>15, OnboardingBounds DEF LeaveByRoute, OnboardingTypeOK
      <4> QED
        BY <2>15, <4>1, <4>2 DEF LeaveByRoute, LateCalls, OnboardingTypeOK
    <3>2. OnboardingTypeOK'
      <4>1. {at, key}' \subseteq WizardSteps /\ UNCHANGED <<saved, passed, account, mounts, told>>
        BY <2>15 DEF LeaveByRoute, Gone, OnboardingTypeOK
      <4>2. wizard' = "away" /\ filled' \subseteq {"link", "rule"}
        BY <2>15 DEF LeaveByRoute, Gone
      <4>3. {suggesting, skipping, warned}' \subseteq BOOLEAN /\ {saving, failure}' \subseteq {"page", "rule", "done", "none"}
        BY <2>15 DEF LeaveByRoute, Gone
      <4> QED
        BY <3>1, <4>1, <4>2, <4>3 DEF OnboardingTypeOK
    <3>3. EarnedSteps' /\ ExitIsRecordedOrSaid' /\ SavesBehind'
      BY <2>15 DEF LeaveByRoute, Gone, EarnedSteps, HasBeen, ExitIsRecordedOrSaid, SavesBehind
    <3> QED
      BY <3>2, <3>3
  <2>16. CASE Unload
    <3>1. PICK served \in SUBSET (Pending \cup {c.call : c \in late}) :
              saved' = [saved EXCEPT ![account] = @ \cup {EffectOf(c) : c \in served}]
      BY <2>16 DEF Unload
    <3>2. {EffectOf(c) : c \in served} \in SUBSET {"page", "rule", "done"}
      <4>1. \A c \in served : c \in {"page", "rule", "done", "skip"}
        BY <3>1 DEF OnboardingTypeOK, Pending, LateCalls
      <4> QED
        BY <4>1 DEF EffectOf
    <3>3. /\ saved' \in [Accounts -> SUBSET {"page", "rule", "done"}]
          /\ \A a \in Accounts : saved[a] \subseteq saved'[a]
      BY <3>1, <3>2, StoredGrows
    <3>4. \A w : HasBeen(w) => \E a \in Accounts : w \in saved'[a] \cup passed'[a]
      BY <2>16, <3>3, GrowthKeeps DEF Unload
    <3>5. OnboardingTypeOK'
      <4>1. {at, key}' \subseteq WizardSteps
        BY <2>16 DEF Unload, Gone, OnboardingTypeOK
      <4>2. late' \subseteq LateCalls /\ filled' \subseteq {"link", "rule"} /\ told' \in {"none", "pending", "done"}
        BY <2>16 DEF Unload, Gone
      <4>3. wizard' = "away" /\ UNCHANGED <<passed, account, mounts>>
        BY <2>16 DEF Unload, Gone
      <4>4. {suggesting, skipping, warned}' \subseteq BOOLEAN /\ {saving, failure}' \subseteq {"page", "rule", "done", "none"}
        BY <2>16 DEF Unload, Gone
      <4> QED
        BY <3>3, <4>1, <4>2, <4>3, <4>4 DEF OnboardingTypeOK
    <3>6. EarnedSteps'
      BY <2>16, <3>4 DEF Unload, Gone, OnboardingTypeOK, EarnedSteps, HasBeen
    <3>7. ExitIsRecordedOrSaid' /\ SavesBehind'
      BY <2>16 DEF Unload, Gone, ExitIsRecordedOrSaid, SavesBehind
    <3> QED
      BY <3>5, <3>6, <3>7
  <2>17. CASE Enter
    <3>1. OnboardingTypeOK'
      <4>1. account' \in Accounts /\ told' \in {"none", "pending", "done"}
        BY <2>17 DEF Enter, OnboardingTypeOK
      <4>2. mounts' \in 0 .. MaxWizardMounts /\ mounts' > 0
        BY <2>17, OnboardingBounds DEF Enter, OnboardingTypeOK
      <4>3. {at, key}' \subseteq WizardSteps
        BY <2>17 DEF Enter, OnboardingTypeOK, Resumed
      <4> QED
        BY <2>17, <4>1, <4>2, <4>3 DEF Enter, OnboardingTypeOK, inputVars
    <3>2. EarnedSteps'
      BY <2>17 DEF Enter, OnboardingTypeOK, EarnedSteps, HasBeen, Resumed
    <3>3. ExitIsRecordedOrSaid' /\ SavesBehind'
      BY <2>17 DEF Enter, ExitIsRecordedOrSaid, SavesBehind
    <3> QED
      BY <3>1, <3>2, <3>3
  <2>18. CASE MeAnswers
    <3>1. told' \in {"none", "pending", "done"}
      BY <2>18 DEF MeAnswers, Told
    <3> QED
      BY <2>18, <3>1 DEF MeAnswers, OnboardingTypeOK, EarnedSteps, HasBeen, ExitIsRecordedOrSaid, SavesBehind,
         inputVars, exitVars
  <2>19. ASSUME NEW c \in late, LateAnswer(c) PROVE NInv'
    <3>1. EffectOf(c.call) \in {"page", "rule", "done"}
      BY DEF OnboardingTypeOK, LateCalls, EffectOf
    <3>2. OnboardingTypeOK /\ passed' = passed /\ (Handled(EffectOf(c.call)) \/ Stored(EffectOf(c.call)))
      BY <2>19 DEF LateAnswer
    <3>3. /\ saved' \in [Accounts -> SUBSET {"page", "rule", "done"}]
          /\ \A a \in Accounts : saved[a] \subseteq saved'[a]
      BY <3>1, <3>2, HandledGrows
    <3>4. \A w : HasBeen(w) => \E a \in Accounts : w \in saved'[a] \cup passed'[a]
      BY <3>2, <3>3, GrowthKeeps
    <3>5. OnboardingTypeOK'
      <4>1. {at, key}' \subseteq WizardSteps /\ late' \subseteq LateCalls
        BY <2>19 DEF LateAnswer, OnboardingTypeOK
      <4> QED
        BY <2>19, <3>3, <4>1 DEF LateAnswer, OnboardingTypeOK, inputVars, exitVars
    <3>6. EarnedSteps'
      BY <2>19, <3>4 DEF LateAnswer, OnboardingTypeOK, EarnedSteps, HasBeen
    <3>7. ExitIsRecordedOrSaid'
      BY <2>19, <3>3 DEF LateAnswer, OnboardingTypeOK, ExitIsRecordedOrSaid, exitVars
    <3>8. SavesBehind'
      BY <2>19 DEF LateAnswer, SavesBehind, exitVars
    <3> QED
      BY <3>5, <3>6, <3>7, <3>8
  <2>20. CASE UNCHANGED wizardVars
    BY <2>20 DEF wizardVars, OnboardingTypeOK, EarnedSteps, HasBeen, ExitIsRecordedOrSaid, SavesBehind,
       inputVars, exitVars, placeVars
  <2> QED
    BY <2>1, <2>2, <2>3, <2>4, <2>5, <2>6, <2>7, <2>8, <2>9, <2>10, <2>11, <2>12, <2>13, <2>14, <2>15, <2>16,
       <2>17, <2>18, <2>19, <2>20 DEF OnboardingNext
<1> QED
  BY <1>1, <1>2, PTL DEF OnboardingSpec

\* Whatever form is shown is the one that is checked, and is sent once; no
\* step of the onboarding is passed unearned.
THEOREM FormsHold == UpgradeSpec /\ FormSpec /\ OnboardingSpec => []FormsInv
<1>1. UInv => UpgradeTypeOK /\ OneUpgradeAtATime
  BY CountsOne DEF UInv, UTypes, OneUpgrade, OneUpgradeAtATime
<1>2. PInv => FormTypeOK /\ NoWalletAboveCap /\ FilledFormIsAccepted /\ ReceiptIsOfThisForm
  BY CountsOne DEF PInv, PTypes, FormTypeOK, WayFits, OneUpload, ReceiptFits, FilledFormIsAccepted, FormFilled, Accepted,
     ShownWay, ReceiptIsOfThisForm
<1>3. UInv /\ PInv /\ NInv => FormsInv
  BY <1>1, <1>2, EarnedStep DEF NInv, FormsInv, OnboardingInv
<1> QED
  BY <1>3, UpgradeInductive, FormInductive, OnboardingInductive, PTL

-----------------------------------------------------------------------------
(* The scroll of the open thread.                                          *)

OneSeen == seen = {} \/ \E c, r \in Nat : seen = {[count |-> c, real |-> r]}
OneReply == replyOf = {} \/ \E p \in 0 .. total : replyOf = {[persisted |-> p, row |-> 0]}
Windows == {Batch * n : n \in 1 .. MaxMessages + 1}

VTypes ==
    /\ total \in 0 .. MaxMessages /\ persisted \in 0 .. total /\ row \in {0, 1}
    /\ place \in {"tail", "history"} /\ landing \in BOOLEAN /\ replied \in BOOLEAN
    /\ pill \in Nat /\ unseen \in Nat

\* The effect's ledger is of what is shown.
LedgerIsShown ==
    persisted + row > 0 /\ seen # {} => seen = {[count |-> persisted + row, real |-> persisted]}

\* Nothing is counted at the tail, no row is shown before a reply, and history
\* is read where there are messages.
TailIsRead == place = "tail" => pill = 0 /\ unseen = 0
NoReplyNoRow == ~replied => replyOf = {} /\ row = 0
HistoryHasMessages == place = "history" /\ ~replied /\ seen # {} => persisted > 0

Counts == TailIsRead /\ NoReplyNoRow /\ HistoryHasMessages /\ PillIsExact

VInv == VTypes /\ OneReply /\ rendered \in Windows /\ OneSeen /\ LedgerIsShown /\ Counts

\* One window more than what is hidden needs.
LEMMA WindowGrows ==
    ASSUME VTypes, rendered \in Windows, Hidden > 0
    PROVE  rendered + Batch \in Windows
<1>1. PICK n \in 1 .. MaxMessages + 1 : rendered = Batch * n
  BY DEF Windows
<1>2. Batch \in Nat /\ Batch >= 1 /\ MaxMessages \in Nat
  BY ScrollAssumption
<1>3. rendered < MaxMessages + 1 /\ rendered \in Nat
  BY <1>1, <1>2 DEF VTypes, Hidden
<1>4. Batch * n >= n
  BY <1>1, <1>2
<1>5. n + 1 \in 1 .. MaxMessages + 1
  BY <1>1, <1>2, <1>3, <1>4
<1>6. rendered + Batch = Batch * (n + 1)
  BY <1>1, <1>2
<1> QED
  BY <1>5, <1>6 DEF Windows

LEMMA SeenIsOne ==
    ASSUME NEW c \in Nat, NEW r \in Nat, seen = {[count |-> c, real |-> r]}
    PROVE  /\ \A n : Grown(n) <=> n > c
           /\ \A n : NewSince(n) = IF n > r THEN n - r ELSE 0
<1> DEFINE e == [count |-> c, real |-> r]
<1>1. e.count = c /\ e.real = r
  OBVIOUS
<1>2. seen = {e} /\ (CHOOSE s \in seen : TRUE) = e
  OBVIOUS
<1> HIDE DEF e
<1> QED
  BY <1>1, <1>2 DEF Grown, NewSince

\* What the effect on messages leaves of the counters: the data of a poll add
\* to the pill what they have more, those that were there before nothing.
Effect(real, own) ==
    /\ persisted' = real /\ row' = own /\ landing' \in BOOLEAN /\ pill' \in Nat
    /\ OneSeen' /\ LedgerIsShown'
    /\ real + own = 0 => seen' = seen
    /\ place = "tail" /\ pill = 0 => pill' = 0
    /\ landing \/ (real + own > 0 /\ seen = {}) => landing'
    /\ seen # {} /\ row = 0 /\ own = 0 /\ persisted > 0 /\ real >= persisted /\ place = "history" =>
           pill' = pill + (real - persisted)

LEMMA EffectHolds ==
    ASSUME VTypes, OneSeen, LedgerIsShown,
           NEW real \in Nat, NEW own \in {0, 1}, ShowMessages(real, own)
    PROVE  Effect(real, own)
<1>0. persisted \in Nat /\ row \in {0, 1} /\ pill \in Nat /\ landing \in BOOLEAN /\ real + own \in Nat
  BY ScrollAssumption DEF VTypes
<1>1. CASE real + own = 0
  BY <1>0, <1>1 DEF ShowMessages, OneSeen, LedgerIsShown, Effect
<1>2. CASE real + own # 0
  <2>1. /\ persisted' = real /\ row' = own /\ seen' = {[count |-> real + own, real |-> real]}
        /\ landing' = (landing \/ seen = {} \/ (Grown(real + own) /\ place = "tail"))
        /\ pill' = IF seen = {} THEN 0
                   ELSE IF Grown(real + own) /\ place = "history" THEN pill + NewSince(real)
                   ELSE pill
    BY <1>2 DEF ShowMessages
  <2>2. OneSeen' /\ LedgerIsShown'
    BY <1>0, <2>1 DEF OneSeen, LedgerIsShown
  <2>3. CASE seen = {}
    BY <1>0, <1>2, <2>1, <2>2, <2>3 DEF Effect
  <2>4. ASSUME NEW c \in Nat, NEW r \in Nat, seen = {[count |-> c, real |-> r]}
        PROVE  Effect(real, own)
    <3>1. /\ Grown(real + own) <=> real + own > c
          /\ NewSince(real) = IF real > r THEN real - r ELSE 0
      BY <2>4, SeenIsOne
    <3>2. persisted + row > 0 => c = persisted + row /\ r = persisted
      <4>1. persisted + row > 0 =>
               [count |-> c, real |-> r] = [count |-> persisted + row, real |-> persisted]
        BY <2>4 DEF LedgerIsShown
      <4> QED
        BY <4>1
    <3>3. pill' \in Nat /\ landing' \in BOOLEAN
      BY <1>0, <2>1, <3>1
    <3>4. row = 0 /\ own = 0 /\ persisted > 0 /\ real >= persisted /\ place = "history" =>
             pill' = pill + (real - persisted)
      <4>1. pill' = IF Grown(real + own) /\ place = "history" THEN pill + NewSince(real) ELSE pill
        BY <2>1, <2>4
      <4> QED
        BY <1>0, <3>1, <3>2, <4>1
    <3> QED
      BY <1>0, <1>2, <2>1, <2>2, <2>4, <3>3, <3>4 DEF Effect
  <2> QED
    BY <2>3, <2>4 DEF OneSeen
<1> QED
  BY <1>1, <1>2

LEMMA ScrollInductive == ScrollSpec => []VInv
<1>1. ScrollInit => VInv
  <2> SUFFICES ASSUME ScrollInit PROVE VInv
    OBVIOUS
  <2>1. VTypes
    <3>1. 1 \in 0 .. MaxMessages /\ 0 \in 0 .. 1
      BY ScrollAssumption
    <3> QED
      BY <3>1 DEF ScrollInit, VTypes
  <2>2. rendered \in Windows
    <3>1. 1 \in 1 .. MaxMessages + 1 /\ rendered = Batch * 1
      BY ScrollAssumption DEF ScrollInit
    <3> QED
      BY <3>1 DEF Windows
  <2> QED
    BY <2>1, <2>2 DEF ScrollInit, VInv, OneReply, OneSeen, LedgerIsShown, Counts, TailIsRead,
       NoReplyNoRow, HistoryHasMessages, PillIsExact
<1>2. VInv /\ [ScrollNext]_scrollVars => VInv'
  <2> SUFFICES ASSUME VInv, [ScrollNext]_scrollVars PROVE VInv'
    OBVIOUS
  <2> USE DEF VInv
  <2>1. CASE ThreadPolled
    <3>1. PICK t \in Nat : t = total /\ ShowMessages(t, 0)
      BY <2>1, ScrollAssumption DEF ThreadPolled, VTypes, ShowMessages
    <3>2. Effect(t, 0)
      BY <3>1, EffectHolds
    <3>3. VTypes'
      BY <2>1, <3>1, <3>2, ScrollAssumption DEF Effect, ThreadPolled, VTypes
    <3>4. OneReply' /\ rendered' \in Windows /\ OneSeen' /\ LedgerIsShown'
      BY <2>1, <3>1, <3>2, ScrollAssumption DEF Effect, ThreadPolled, OneReply, Windows
    <3>5. Counts'
      BY <2>1, <3>1, <3>2, ScrollAssumption DEF Effect, ThreadPolled, VTypes, Counts, TailIsRead, NoReplyNoRow, HistoryHasMessages,
         PillIsExact
    <3> QED
      BY <3>3, <3>4, <3>5
  <2>2. CASE PollBroken
    BY <2>2 DEF PollBroken, VTypes, OneReply, Windows, OneSeen, LedgerIsShown, Counts, TailIsRead,
       NoReplyNoRow, HistoryHasMessages, PillIsExact
  <2>3. CASE MessageArrives
    <3>1. total' = total + 1 /\ total' \in 0 .. MaxMessages
      BY <2>3, ScrollAssumption DEF MessageArrives, VTypes
    <3> QED
      BY <2>3, <3>1 DEF MessageArrives, VTypes, OneReply, Windows, OneSeen, LedgerIsShown, Counts,
         TailIsRead, NoReplyNoRow, HistoryHasMessages, PillIsExact
  <2>4. CASE ReplyShown
    <3>1. PICK p \in Nat : p = persisted /\ ShowMessages(p, 1)
      BY <2>4, ScrollAssumption DEF ReplyShown, VTypes, ShowMessages
    <3>2. Effect(p, 1)
      BY <3>1, EffectHolds
    <3>3. VTypes'
      BY <2>4, <3>1, <3>2, ScrollAssumption DEF Effect, ReplyShown, VTypes
    <3>4. OneReply' /\ rendered' \in Windows /\ OneSeen' /\ LedgerIsShown'
      BY <2>4, <3>1, <3>2, ScrollAssumption DEF Effect, ReplyShown, OneReply, Windows, VTypes
    <3>5. Counts'
      BY <2>4, <3>1, <3>2, ScrollAssumption DEF Effect, ReplyShown, VTypes, Counts, TailIsRead, NoReplyNoRow, HistoryHasMessages,
         PillIsExact
    <3> QED
      BY <3>3, <3>4, <3>5
  <2>5. CASE ReplyLanded
    <3>1. total' = total + 1 /\ total' \in 0 .. MaxMessages
      BY <2>5, ScrollAssumption DEF ReplyLanded, VTypes
    <3> QED
      BY <2>5, <3>1 DEF ReplyLanded, VTypes, OneReply, Windows, OneSeen, LedgerIsShown, Counts,
         TailIsRead, NoReplyNoRow, HistoryHasMessages, PillIsExact
  <2>6. CASE ReplyRolledBack
    <3>1. PICK p \in 0 .. total : replyOf = {[persisted |-> p, row |-> 0]} /\ ShowMessages(p, 0)
      BY <2>6 DEF ReplyRolledBack, OneReply
    <3>2. p \in Nat /\ p \in 0 .. total /\ replied
      <4>1. total \in Nat /\ replyOf # {}
        BY <3>1, ScrollAssumption DEF VTypes
      <4> QED
        BY <4>1 DEF VTypes, Counts, NoReplyNoRow
    <3>3. Effect(p, 0)
      BY <3>1, <3>2, EffectHolds
    <3>4. VTypes'
      BY <2>6, <3>2, <3>3 DEF Effect, ReplyRolledBack, VTypes
    <3>5. OneReply' /\ rendered' \in Windows /\ OneSeen' /\ LedgerIsShown'
      BY <2>6, <3>2, <3>3 DEF Effect, ReplyRolledBack, OneReply, Windows
    <3>6. Counts'
      BY <2>6, <3>2, <3>3 DEF Effect, ReplyRolledBack, VTypes, Counts, TailIsRead, NoReplyNoRow,
         HistoryHasMessages, PillIsExact
    <3> QED
      BY <3>4, <3>5, <3>6
  <2>7. CASE ScrollUp
    BY <2>7 DEF ScrollUp, VTypes, OneReply, Windows, OneSeen, LedgerIsShown, Counts, TailIsRead,
       NoReplyNoRow, HistoryHasMessages, PillIsExact
  <2>8. CASE ScrollDown
    BY <2>8 DEF ScrollDown, AtTail, VTypes, OneReply, Windows, OneSeen, LedgerIsShown, Counts,
       TailIsRead, NoReplyNoRow, HistoryHasMessages, PillIsExact
  <2>9. CASE Landed
    BY <2>9 DEF Landed, AtTail, VTypes, OneReply, Windows, OneSeen, LedgerIsShown, Counts,
       TailIsRead, NoReplyNoRow, HistoryHasMessages, PillIsExact
  <2>10. CASE JumpToLatest
    BY <2>10 DEF JumpToLatest, VTypes, OneReply, Windows, OneSeen, LedgerIsShown, Counts, TailIsRead,
       NoReplyNoRow, HistoryHasMessages, PillIsExact
  <2>11. CASE LoadOlder
    <3>1. rendered' \in Windows
      BY <2>11, WindowGrows DEF LoadOlder, Windows
    <3> QED
      BY <2>11, <3>1 DEF LoadOlder, VTypes, OneReply, OneSeen, LedgerIsShown, Counts, TailIsRead,
         NoReplyNoRow, HistoryHasMessages, PillIsExact
  <2>12. ASSUME NEW n \in 0 .. MaxMessages, SwitchThread(n) PROVE VInv'
    <3>1. 1 \in 1 .. MaxMessages + 1 /\ rendered' = Batch * 1 /\ 0 \in 0 .. n
      BY <2>12, ScrollAssumption DEF SwitchThread
    <3>2. rendered' \in Windows
      BY <3>1 DEF Windows
    <3> QED
      BY <2>12, <3>1, <3>2 DEF SwitchThread, VTypes, OneReply, Windows, OneSeen, LedgerIsShown, Counts, TailIsRead,
         NoReplyNoRow, HistoryHasMessages, PillIsExact
  <2>13. CASE UNCHANGED scrollVars
    BY <2>13 DEF scrollVars, VTypes, OneReply, Windows, OneSeen, LedgerIsShown, Counts, TailIsRead,
       NoReplyNoRow, HistoryHasMessages, PillIsExact
  <2> QED
    BY <2>1, <2>2, <2>3, <2>4, <2>5, <2>6, <2>7, <2>8, <2>9, <2>10, <2>11, <2>12, <2>13 DEF ScrollNext
<1> QED
  BY <1>1, <1>2, PTL DEF ScrollSpec

-----------------------------------------------------------------------------
(* The handoff panel of the open thread.                                   *)

PatchRecords == [field : Fields, value : Values, previous : SUBSET Details, number : 1 .. MaxPatches,
                 answer : {<<>>} \cup {<<a>> : a \in Answers}]
NoteRecords == [note : 1 .. MaxNotes, here : BOOLEAN, stored : BOOLEAN]
OneDetail(q) == q = {} \/ \E d \in Details : q = {d}
OneAnswer(q) == q = {} \/ \E a \in Answers : q = {a}

PanelTypes ==
    /\ canEdit \in BOOLEAN /\ panel \in BOOLEAN /\ overlapped \in BOOLEAN
    /\ patched \in 0 .. MaxPatches /\ since \in 0 .. patched
    /\ note \in 0 .. MaxNotes /\ noted \in 0 .. MaxNotes
    /\ posting \subseteq NoteRecords
DetailTypes ==
    /\ truth \in Details /\ OneDetail(detail) /\ OneAnswer(detailFetch)
    /\ adriftPatches \subseteq [field : Fields, value : Values] /\ unheard \subseteq Fields
PatchTypes ==
    /\ patches \in Seq(PatchRecords)
    /\ \A i \in 1 .. Len(patches) : OneDetail(patches[i].previous)

Unpatched == patched = 0 => patches = <<>> /\ adriftPatches = {}

\* A row that is the server's but for the fields in doubt, and stays so whatever
\* a patch given up on still does.
RowTells(it, doubt) ==
    /\ Unapplied \subseteq doubt
    /\ \A f \in Fields : f \in doubt \/ it[f] = truth[f]

\* The same after a step.
NowTells(it, doubt) ==
    /\ Unapplied' \subseteq doubt
    /\ \A f \in Fields : f \in doubt \/ it[f] = truth'[f]

\* What is shown, or about to be, when no patch is under way.
RestsHonest ==
    ~overlapped =>
        /\ Unapplied \subseteq unheard
        /\ patches = <<>> => /\ \A d \in detail : RowTells(d, unheard)
                            /\ \A a \in detailFetch : RowTells(a.row, a.doubt)

\* A patch under way alone: its snapshot tells, but for its own field once it is
\* applied, and so does its answer.
PatchRevertible ==
    ~overlapped /\ patches # <<>> =>
        /\ Len(patches) = 1 /\ detailFetch = {} /\ patches[1].previous # {}
        /\ \A d \in patches[1].previous : RowTells(d, unheard \cup {patches[1].field})
        /\ patches[1].answer = <<>> => \A d \in patches[1].previous : RowTells(d, unheard)
        /\ patches[1].answer # <<>> => RowTells(patches[1].answer[1].row, patches[1].answer[1].doubt)

PanelInv == PanelTypes /\ DetailTypes /\ PatchTypes /\ Unpatched /\ RestsHonest /\ PatchRevertible

LEMMA WithoutOne ==
    ASSUME PatchTypes, NEW i \in 1 .. Len(patches)
    PROVE  /\ Without(i) \in Seq(PatchRecords)
           /\ \A j \in 1 .. Len(Without(i)) : OneDetail(Without(i)[j].previous)
           /\ Len(patches) = 1 => Without(i) = <<>>
<1> DEFINE s == SubSeq(patches, 1, i - 1)
           t == SubSeq(patches, i + 1, Len(patches))
<1>1. /\ patches \in Seq(PatchRecords) /\ Len(patches) \in Nat
      /\ \A j \in 1 .. Len(patches) : patches[j] \in PatchRecords
  BY LenProperties, ElementOfSeq DEF PatchTypes
<1>2. /\ s \in Seq(PatchRecords) /\ Len(s) = i - 1
      /\ \A j \in 1 .. i - 1 : s[j] = patches[j]
  <2>1. 1 \in Int /\ i - 1 \in Int /\ \A j \in 1 .. i - 1 : patches[j] \in PatchRecords
    BY <1>1
  <2>2. /\ s \in Seq(PatchRecords) /\ Len(s) = IF 1 <= i - 1 THEN i - 1 - 1 + 1 ELSE 0
        /\ \A j \in 1 .. i - 1 - 1 + 1 : s[j] = patches[1 + j - 1]
    BY <2>1, SubSeqProperties
  <2> QED
    BY <1>1, <2>2
<1>3. /\ t \in Seq(PatchRecords) /\ Len(t) = Len(patches) - i
      /\ \A j \in 1 .. Len(patches) - i : t[j] = patches[i + j]
  <2>1. i + 1 \in Int /\ Len(patches) \in Int /\ \A j \in i + 1 .. Len(patches) : patches[j] \in PatchRecords
    BY <1>1
  <2>2. /\ t \in Seq(PatchRecords)
        /\ Len(t) = IF i + 1 <= Len(patches) THEN Len(patches) - (i + 1) + 1 ELSE 0
        /\ \A j \in 1 .. Len(patches) - (i + 1) + 1 : t[j] = patches[i + 1 + j - 1]
    BY <2>1, SubSeqProperties
  <2> QED
    BY <1>1, <2>2
<1>4. Without(i) = s \o t
  BY DEF Without
<1> HIDE DEF s, t
<1>5. /\ s \o t \in Seq(PatchRecords) /\ Len(s \o t) = Len(s) + Len(t)
      /\ \A j \in 1 .. Len(s) + Len(t) : (s \o t)[j] = IF j <= Len(s) THEN s[j] ELSE t[j - Len(s)]
  BY <1>2, <1>3, ConcatProperties
<1>6. ASSUME NEW j \in 1 .. Len(s \o t) PROVE OneDetail((s \o t)[j].previous)
  <2>1. PICK k \in 1 .. Len(patches) : (s \o t)[j] = patches[k]
    <3>1. CASE j <= i - 1
      BY <1>1, <1>2, <1>3, <1>5, <3>1
    <3>2. CASE j > i - 1
      <4>1. j - (i - 1) \in 1 .. Len(patches) - i /\ j + 1 \in 1 .. Len(patches)
        BY <1>1, <1>2, <1>3, <1>5, <3>2
      <4>2. (s \o t)[j] = t[j - (i - 1)]
        BY <1>1, <1>2, <1>3, <1>5, <3>2
      <4>3. t[j - (i - 1)] = patches[i + (j - (i - 1))] /\ i + (j - (i - 1)) = j + 1
        BY <1>1, <1>3, <4>1
      <4> QED
        BY <4>1, <4>2, <4>3
    <3> QED
      BY <1>1, <1>2, <1>3, <1>5, <3>1, <3>2
  <2> QED
    BY <2>1 DEF PatchTypes
<1>7. Len(patches) = 1 => s \o t = <<>>
  BY <1>2, <1>3, <1>5, EmptySeq
<1> QED
  BY <1>4, <1>5, <1>6, <1>7

LEMMA AnswerOf ==
    ASSUME DetailTypes, NEW it \in Details
    PROVE  Answered(it) \in Answers /\ Answered(it).row = it /\ Answered(it).doubt = Unapplied
  BY DEF DetailTypes, Answered, Answers, Unapplied

\* What leaves the patches and the cached detail alone disturbs nothing.
LEMMA PanelQuiet ==
    ASSUME PanelInv, PanelTypes',
           UNCHANGED <<truth, detail, detailFetch, patches, patched, adriftPatches, unheard, overlapped>>
    PROVE  PanelInv'
<1>1. DetailTypes' /\ PatchTypes' /\ Unpatched'
  BY DEF PanelInv, DetailTypes, OneDetail, OneAnswer, PatchTypes, Unpatched
<1>2. RestsHonest' /\ PatchRevertible'
  BY DEF PanelInv, RestsHonest, PatchRevertible, RowTells, Unapplied
<1> QED
  BY <1>1, <1>2 DEF PanelInv

LEMMA PTogglePanel == ASSUME PanelInv, TogglePanel PROVE PanelInv'
<1> USE DEF PanelInv
<1>1. 0 \in 0 .. MaxNotes /\ patched \in Nat
  BY HandoffAssumption DEF PanelTypes
<1>2. posting' \subseteq NoteRecords
  BY DEF TogglePanel, PanelTypes, NoteRecords
<1>3. PanelTypes'
  BY <1>1, <1>2 DEF TogglePanel, PanelTypes
<1>4. truth \in Details
  BY DEF DetailTypes
<1>5. DetailTypes'
  BY <1>4, AnswerOf DEF TogglePanel, DetailTypes, OneDetail, OneAnswer
<1>6. PatchTypes' /\ Unpatched'
  BY DEF TogglePanel, PatchTypes, Unpatched, OneDetail
<1>7. Unapplied' = Unapplied
  BY DEF TogglePanel, Unapplied
<1>8. ASSUME ~overlapped, patches = <<>>
      PROVE  \A a \in detailFetch' : RowTells(a.row, a.doubt)
  <2>1. RowTells(Answered(truth).row, Answered(truth).doubt)
    BY <1>4, AnswerOf DEF RowTells
  <2>2. \A a \in detailFetch : RowTells(a.row, a.doubt)
    BY <1>8 DEF RestsHonest
  <2>3. detailFetch' = detailFetch \/ detailFetch' = {Answered(truth)}
    BY DEF TogglePanel
  <2> QED
    BY <2>1, <2>2, <2>3
<1>9. RestsHonest'
  <2>1. ASSUME ~overlapped' PROVE ~overlapped /\ UNCHANGED <<truth, detail, patches, unheard>>
    BY <2>1 DEF TogglePanel
  <2> QED
    BY <1>7, <1>8, <2>1 DEF RestsHonest, RowTells
<1>10. PatchRevertible'
  <2>1. ASSUME ~overlapped', patches' # <<>>
        PROVE  ~overlapped /\ detailFetch' = detailFetch /\ UNCHANGED <<truth, patches, unheard>>
    BY <2>1 DEF TogglePanel, PanelTypes
  <2> QED
    BY <1>7, <2>1 DEF PatchRevertible, RowTells
<1> QED
  BY <1>3, <1>5, <1>6, <1>9, <1>10

LEMMA PLandDetail == ASSUME PanelInv, LandDetail PROVE PanelInv'
<1> USE DEF PanelInv
<1>1. PICK a \in Answers : detailFetch = {a} /\ detail' = {a.row} /\ unheard' = a.doubt
  BY DEF LandDetail, DetailTypes, OneAnswer
<1>2. a.row \in Details /\ a.doubt \subseteq Fields
  BY DEF Answers
<1>3. /\ detailFetch' = {}
      /\ UNCHANGED <<canEdit, panel, truth, patches, patched, since, adriftPatches, overlapped, noteVars>>
  BY DEF LandDetail
<1>4. PanelTypes' /\ DetailTypes' /\ PatchTypes' /\ Unpatched'
  BY <1>1, <1>2, <1>3 DEF noteVars, PanelTypes, DetailTypes, PatchTypes, OneDetail, OneAnswer, Unpatched
<1>5. ASSUME ~overlapped PROVE patches = <<>> /\ RowTells(a.row, a.doubt)
  BY <1>1, <1>5 DEF PatchRevertible, RestsHonest
<1>6. Unapplied' = Unapplied
  BY <1>3 DEF Unapplied
<1>7. RestsHonest' /\ PatchRevertible'
  BY <1>1, <1>3, <1>5, <1>6 DEF RestsHonest, PatchRevertible, RowTells
<1> QED
  BY <1>4, <1>7

LEMMA PElsewhere ==
    ASSUME PanelInv, NEW f \in Fields, NEW v \in Values, Elsewhere(f, v)
    PROVE  PanelInv'
<1> USE DEF PanelInv
<1>1. truth' \in Details /\ \A g \in Fields \ {f} : truth'[g] = truth[g]
  BY DEF Elsewhere, DetailTypes, Details
<1>2. /\ patched = 0 /\ unheard' = unheard \cup {f}
      /\ detailFetch' = {[a EXCEPT !.doubt = @ \cup {f}] : a \in detailFetch}
      /\ UNCHANGED <<canEdit, panel, detail, patches, patched, since, adriftPatches, overlapped, noteVars>>
  BY DEF Elsewhere
<1>3. ASSUME NEW a \in Answers
      PROVE  /\ [a EXCEPT !.doubt = @ \cup {f}] \in Answers
             /\ [a EXCEPT !.doubt = @ \cup {f}].row = a.row
             /\ [a EXCEPT !.doubt = @ \cup {f}].doubt = a.doubt \cup {f}
  BY DEF Answers
<1>4. OneAnswer(detailFetch')
  <2>1. ASSUME NEW a \in Answers, detailFetch = {a} PROVE OneAnswer(detailFetch')
    <3>1. detailFetch' = {[a EXCEPT !.doubt = @ \cup {f}]}
      BY <1>2, <2>1
    <3> QED
      BY <1>3, <3>1 DEF OneAnswer
  <2>2. CASE detailFetch = {}
    BY <1>2, <2>2 DEF OneAnswer
  <2> QED
    BY <2>1, <2>2 DEF DetailTypes, OneAnswer
<1>5. PanelTypes' /\ DetailTypes' /\ PatchTypes' /\ Unpatched'
  BY <1>1, <1>2, <1>4 DEF noteVars, PanelTypes, DetailTypes, PatchTypes, OneDetail, Unpatched
<1>6. patches = <<>> /\ Unapplied = {} /\ Unapplied' = {}
  BY <1>2 DEF Unpatched, Unapplied
<1>7. ASSUME NEW it, NEW doubt, RowTells(it, doubt) PROVE NowTells(it, doubt \cup {f})
  BY <1>1, <1>6, <1>7 DEF RowTells, NowTells
<1>8. RestsHonest'
  <2> SUFFICES ASSUME ~overlapped PROVE RestsHonest'
    BY <1>2 DEF RestsHonest
  <2>1. \A d \in detail : NowTells(d, unheard \cup {f})
    BY <1>6, <1>7 DEF RestsHonest
  <2>2. ASSUME NEW b \in detailFetch' PROVE NowTells(b.row, b.doubt)
    <3>1. PICK a \in detailFetch : b = [a EXCEPT !.doubt = @ \cup {f}]
      BY <1>2
    <3>2. a \in Answers
      BY DEF DetailTypes, OneAnswer
    <3>3. RowTells(a.row, a.doubt)
      BY <1>6 DEF RestsHonest
    <3>4. b.row = a.row /\ b.doubt = a.doubt \cup {f}
      BY <1>3, <3>1, <3>2
    <3>5. NowTells(a.row, a.doubt \cup {f})
      BY <1>7, <3>3
    <3> QED
      BY <3>4, <3>5
  <2> QED
    BY <1>2, <1>6, <2>1, <2>2 DEF RestsHonest, RowTells, NowTells
<1>9. PatchRevertible'
  BY <1>2, <1>6 DEF PatchRevertible
<1> QED
  BY <1>5, <1>8, <1>9

LEMMA PPatch ==
    ASSUME PanelInv, NEW f \in Fields, NEW v \in Values, NEW d \in detail, d[f] # v, Patch(f, v)
    PROVE  PanelInv'
<1> USE DEF PanelInv
<1> DEFINE m == [field |-> f, value |-> v, previous |-> detail, number |-> patched + 1, answer |-> <<>>]
           e == [d EXCEPT ![f] = v]
<1>0. MaxPatches \in Nat /\ patched \in Nat
  BY HandoffAssumption DEF PanelTypes
<1>1. d \in Details /\ detail = {d}
  BY DEF DetailTypes, OneDetail
<1>2. e \in Details
  BY <1>1 DEF Details
<1>3. m \in PatchRecords
  BY <1>0, <1>1 DEF Patch, PatchRecords, PanelTypes
<1>4. /\ m.field = f /\ m.value = v /\ m.previous = detail /\ m.answer = <<>>
  OBVIOUS
<1>5. patches' = Append(patches, m) /\ detail' = {e} /\ detailFetch' = {}
  BY <1>1 DEF Patch
<1> HIDE DEF m, e
<1>6. PICK p \in PatchRecords : p = m
  BY <1>3
<1>7. /\ patches' \in Seq(PatchRecords) /\ Len(patches') = Len(patches) + 1 /\ Len(patches) \in Nat
      /\ \A i \in 1 .. Len(patches) : patches'[i] = patches[i]
      /\ patches'[Len(patches) + 1] = p
  BY <1>3, <1>5, <1>6, AppendProperties, LenProperties DEF PatchTypes
<1>8. PanelTypes'
  BY <1>0 DEF Patch, PanelTypes, noteVars
<1>9. DetailTypes'
  BY <1>2, <1>5 DEF Patch, DetailTypes, OneDetail, OneAnswer
<1>10. PatchTypes'
  <2>1. ASSUME NEW i \in 1 .. Len(patches) + 1 PROVE OneDetail(patches'[i].previous)
    <3>1. CASE i \in 1 .. Len(patches)
      BY <1>7, <3>1 DEF PatchTypes
    <3>2. CASE i = Len(patches) + 1
      BY <1>1, <1>4, <1>6, <1>7, <3>2 DEF OneDetail
    <3> QED
      BY <1>7, <3>1, <3>2
  <2> QED
    BY <1>7, <2>1 DEF PatchTypes, OneDetail
<1>11. patches' # <<>> /\ Unapplied' = Unapplied
  BY <1>7, EmptySeq DEF Patch, Unapplied
<1>12. Unpatched' /\ RestsHonest'
  <2>1. patched' # 0
    BY <1>0 DEF Patch
  <2>2. ~overlapped' => Unapplied' \subseteq unheard'
    BY <1>11 DEF Patch, PanelTypes, RestsHonest
  <2> QED
    BY <1>11, <2>1, <2>2 DEF Unpatched, RestsHonest
<1>13. PatchRevertible'
  <2> SUFFICES ASSUME patches = <<>>, ~overlapped PROVE PatchRevertible'
    BY DEF Patch, PatchRevertible, PanelTypes
  <2>1. Len(patches') = 1 /\ patches'[1] = p
    BY <1>7, EmptySeq
  <2>2. RowTells(d, unheard) /\ truth' = truth /\ unheard' = unheard
    BY DEF Patch, RestsHonest
  <2>3. p.previous = {d} /\ p.answer = <<>>
    BY <1>1, <1>4, <1>6
  <2>4. NowTells(d, unheard') /\ NowTells(d, unheard' \cup {p.field})
    BY <1>11, <2>2 DEF RowTells, NowTells
  <2>5. \A c \in p.previous : NowTells(c, unheard') /\ NowTells(c, unheard' \cup {p.field})
    BY <2>3, <2>4
  <2> QED
    BY <1>5, <2>1, <2>3, <2>5 DEF PatchRevertible, RowTells, NowTells
<1> QED
  BY <1>8, <1>9, <1>10, <1>12, <1>13

LEMMA PApplyPatch == ASSUME PanelInv, NEW i \in 1 .. Len(patches), ApplyPatch(i) PROVE PanelInv'
<1> USE DEF PanelInv
<1>1. /\ patches \in Seq(PatchRecords) /\ Len(patches) \in Nat /\ patches[i] \in PatchRecords
      /\ patches[i].field \in Fields /\ patches[i].value \in Values
  <2>1. patches \in Seq(PatchRecords)
    BY DEF PatchTypes
  <2>2. Len(patches) \in Nat /\ patches[i] \in PatchRecords
    BY <2>1, LenProperties, ElementOfSeq
  <2> QED
    BY <2>1, <2>2 DEF PatchRecords
<1>2. truth' \in Details /\ \A g \in Fields \ {patches[i].field} : truth'[g] = truth[g]
  BY <1>1 DEF ApplyPatch, DetailTypes, Details
<1>3. PICK a \in Answers : a = Answered(truth') /\ a.row = truth' /\ a.doubt = Unapplied
  BY <1>2, AnswerOf
<1>4. PICK p \in PatchRecords :
        /\ p = [patches[i] EXCEPT !.answer = <<a>>] /\ p.previous = patches[i].previous
        /\ p.field = patches[i].field /\ p.answer # <<>> /\ p.answer[1] = a
  <2> DEFINE m == [patches[i] EXCEPT !.answer = <<a>>]
  <2>1. m \in PatchRecords
    BY <1>1 DEF PatchRecords
  <2>2. m.previous = patches[i].previous /\ m.field = patches[i].field /\ m.answer = <<a>>
    BY <1>1 DEF PatchRecords
  <2>3. <<a>> # <<>> /\ <<a>>[1] = a
    OBVIOUS
  <2> QED
    BY <2>1, <2>2, <2>3
<1>5. patches' = [patches EXCEPT ![i] = p]
  BY <1>3, <1>4 DEF ApplyPatch
<1>6. /\ patches' \in Seq(PatchRecords) /\ Len(patches') = Len(patches)
      /\ \A j \in 1 .. Len(patches) : patches'[j] = IF j = i THEN p ELSE patches[j]
  BY <1>1, <1>4, <1>5, ExceptSeq
<1>7. PanelTypes' /\ DetailTypes'
  BY <1>2 DEF ApplyPatch, noteVars, PanelTypes, DetailTypes, OneDetail, OneAnswer
<1>8. PatchTypes'
  BY <1>4, <1>6 DEF PatchTypes, OneDetail
<1>9. patches # <<>> /\ patches' # <<>> /\ Unapplied' = Unapplied
  BY <1>1, <1>6, EmptySeq DEF ApplyPatch, Unapplied
<1>10. Unpatched' /\ RestsHonest'
  BY <1>9 DEF ApplyPatch, Unpatched, RestsHonest
<1>11. PatchRevertible'
  <2> SUFFICES ASSUME ~overlapped PROVE PatchRevertible'
    BY DEF ApplyPatch, PatchRevertible
  <2>0. Len(patches) = 1 /\ i = 1
    <3>1. Len(patches) = 1
      BY <1>9 DEF PatchRevertible
    <3> QED
      BY <3>1
  <2>1. /\ detailFetch = {} /\ patches[1].previous # {}
        /\ \A d \in patches[1].previous : RowTells(d, unheard)
    BY <1>9, <2>0 DEF ApplyPatch, PatchRevertible
  <2>2. patches'[1] = p /\ unheard' = unheard /\ detailFetch' = detailFetch
    BY <1>6, <2>0 DEF ApplyPatch
  <2>3. p.previous = patches[1].previous /\ p.field = patches[1].field
    BY <1>4, <2>0
  <2>4. \A d \in p.previous : NowTells(d, unheard' \cup {p.field})
    BY <1>2, <1>9, <2>0, <2>1, <2>2, <2>3 DEF RowTells, NowTells
  <2>5. NowTells(a.row, a.doubt)
    BY <1>3, <1>9 DEF NowTells
  <2>6. Len(patches') = 1 /\ detailFetch' = {}
    BY <1>6, <2>0, <2>1, <2>2
  <2> QED
    BY <1>4, <2>1, <2>2, <2>3, <2>4, <2>5, <2>6 DEF PatchRevertible, RowTells, NowTells
<1> QED
  BY <1>7, <1>8, <1>10, <1>11

LEMMA PPatchSucceeds ==
    ASSUME PanelInv, NEW i \in 1 .. Len(patches), PatchSucceeds(i)
    PROVE  PanelInv'
<1> USE DEF PanelInv
<1>1. patches[i] \in PatchRecords /\ patches # <<>> /\ Len(patches) \in Nat
  BY LenProperties, ElementOfSeq, EmptySeq DEF PatchTypes
<1>2. PICK a \in Answers : patches[i].answer = <<a>>
  BY <1>1 DEF PatchSucceeds, PatchRecords
<1>3. /\ detail' = {a.row} /\ unheard' = a.doubt /\ a.row \in Details /\ a.doubt \subseteq Fields
      /\ patches' = Without(i)
      /\ UNCHANGED <<canEdit, panel, truth, detailFetch, patched, since, adriftPatches, overlapped, noteVars>>
  BY <1>2 DEF PatchSucceeds, Answers
<1>4. PatchTypes'
  BY <1>3, WithoutOne DEF PatchTypes, OneDetail
<1>5. PanelTypes' /\ DetailTypes' /\ Unpatched'
  BY <1>1, <1>3 DEF noteVars, PanelTypes, DetailTypes, OneDetail, OneAnswer, Unpatched
<1>6. ASSUME ~overlapped PROVE patches' = <<>> /\ detailFetch = {} /\ RowTells(a.row, a.doubt)
  <2>1. Len(patches) = 1 /\ detailFetch = {} /\ i = 1
    BY <1>1, <1>6 DEF PatchRevertible
  <2>2. patches[1].answer = <<a>> /\ patches[1].answer # <<>> /\ patches[1].answer[1] = a
    BY <1>2, <2>1
  <2>3. RowTells(a.row, a.doubt)
    BY <1>1, <1>6, <2>2 DEF PatchRevertible
  <2> QED
    BY <1>3, <2>1, <2>3, WithoutOne
<1>7. Unapplied' = Unapplied
  BY <1>3 DEF Unapplied
<1>8. RestsHonest' /\ PatchRevertible'
  BY <1>3, <1>6, <1>7 DEF RestsHonest, PatchRevertible, RowTells
<1> QED
  BY <1>4, <1>5, <1>8

\* A rollback shows what was shown before the patch.
LEMMA PRollBack ==
    ASSUME PanelInv, NEW i \in 1 .. Len(patches), RollBack(i)
    PROVE  /\ PanelTypes' /\ PatchTypes' /\ truth' \in Details /\ OneDetail(detail') /\ OneAnswer(detailFetch')
           /\ patched # 0 /\ UNCHANGED <<truth, patched, overlapped>>
           /\ patches[i].field \in Fields /\ patches[i].value \in Values
           /\ ~overlapped => /\ i = 1 /\ patches' = <<>> /\ detailFetch' = {}
                             /\ detail' = patches[1].previous
<1> USE DEF PanelInv
<1>1. patches[i] \in PatchRecords /\ patches # <<>> /\ Len(patches) \in Nat
  BY LenProperties, ElementOfSeq, EmptySeq DEF PatchTypes
<1>2. OneDetail(patches[i].previous)
  BY DEF PatchTypes
<1>3. PatchTypes'
  BY WithoutOne DEF RollBack, PatchTypes, OneDetail
<1>4. PanelTypes' /\ truth' \in Details /\ OneDetail(detail') /\ OneAnswer(detailFetch')
  BY <1>1, <1>2 DEF RollBack, Snapshot, PreviousOf, noteVars, PanelTypes, DetailTypes, OneDetail, OneAnswer
<1>5. ASSUME ~overlapped
      PROVE  i = 1 /\ patches' = <<>> /\ detailFetch' = {} /\ detail' = patches[1].previous
  <2>1. Len(patches) = 1 /\ detailFetch = {} /\ patches[1].previous # {}
    BY <1>1, <1>5 DEF PatchRevertible
  <2>2. i = 1
    BY <2>1
  <2>3. Without(i) = <<>>
    BY <2>1, WithoutOne
  <2> QED
    BY <2>1, <2>2, <2>3 DEF RollBack, Snapshot, PreviousOf
<1>6. patches[i].field \in Fields /\ patches[i].value \in Values /\ patched # 0
  BY <1>1 DEF PatchRecords, Unpatched
<1> QED
  BY <1>3, <1>4, <1>5, <1>6 DEF RollBack

LEMMA PPatchFails == ASSUME PanelInv, NEW i \in 1 .. Len(patches), PatchFails(i) PROVE PanelInv'
<1>1. RollBack(i) /\ UNCHANGED <<adriftPatches, unheard>> /\ patches[i].answer = <<>>
  BY DEF PatchFails
<1>2. DetailTypes' /\ Unpatched' /\ PanelTypes' /\ PatchTypes'
  BY <1>1, PRollBack DEF PanelInv, DetailTypes, Unpatched
<1>3. Unapplied' = Unapplied
  BY <1>1 DEF Unapplied
<1>4. patches # <<>>
  BY EmptySeq DEF PanelInv, PatchTypes
<1>5. RestsHonest' /\ PatchRevertible'
  <2> SUFFICES ASSUME ~overlapped PROVE RestsHonest' /\ PatchRevertible'
    BY <1>1, PRollBack DEF RestsHonest, PatchRevertible
  <2>1. /\ i = 1 /\ patches' = <<>> /\ detailFetch' = {} /\ detail' = patches[1].previous
        /\ truth' = truth /\ unheard' = unheard
    BY <1>1, PRollBack
  <2>2. (\A d \in patches[1].previous : RowTells(d, unheard)) /\ Unapplied \subseteq unheard
    BY <1>1, <1>4, <2>1 DEF PanelInv, PatchRevertible, RestsHonest
  <2> QED
    BY <1>3, <2>1, <2>2 DEF RestsHonest, PatchRevertible, RowTells
<1> QED
  BY <1>2, <1>5 DEF PanelInv

LEMMA PPatchLost == ASSUME PanelInv, NEW i \in 1 .. Len(patches), PatchLost(i) PROVE PanelInv'
<1>1. /\ RollBack(i) /\ unheard' = unheard \cup {patches[i].field}
      /\ adriftPatches' = adriftPatches \cup
             IF patches[i].answer = <<>> THEN {[field |-> patches[i].field, value |-> patches[i].value]} ELSE {}
  BY DEF PatchLost
<1>2. adriftPatches' \subseteq [field : Fields, value : Values] /\ unheard' \subseteq Fields
  BY <1>1, PRollBack DEF PanelInv, DetailTypes
<1>3. DetailTypes' /\ Unpatched' /\ PanelTypes' /\ PatchTypes'
  BY <1>1, <1>2, PRollBack DEF DetailTypes, Unpatched
<1>4. Unapplied' \subseteq Unapplied \cup {patches[i].field}
  BY <1>1 DEF Unapplied
<1>5. patches # <<>>
  BY EmptySeq DEF PanelInv, PatchTypes
<1>6. RestsHonest' /\ PatchRevertible'
  <2> SUFFICES ASSUME ~overlapped PROVE RestsHonest' /\ PatchRevertible'
    BY <1>1, PRollBack DEF RestsHonest, PatchRevertible
  <2>1. /\ i = 1 /\ patches' = <<>> /\ detailFetch' = {} /\ detail' = patches[1].previous
        /\ truth' = truth
    BY <1>1, PRollBack
  <2>2. /\ \A d \in patches[1].previous : RowTells(d, unheard \cup {patches[1].field})
        /\ Unapplied \subseteq unheard
    BY <1>5 DEF PanelInv, PatchRevertible, RestsHonest
  <2> QED
    BY <1>1, <1>4, <2>1, <2>2 DEF RestsHonest, PatchRevertible, RowTells
<1> QED
  BY <1>3, <1>6 DEF PanelInv

LEMMA PApplyLate == ASSUME PanelInv, NEW a \in adriftPatches, ApplyLate(a) PROVE PanelInv'
<1> USE DEF PanelInv
<1>1. a.field \in Fields /\ a.value \in Values /\ a.field \in Unapplied
  BY DEF DetailTypes, Unapplied
<1>2. /\ truth' = [truth EXCEPT ![a.field] = a.value] /\ adriftPatches' = adriftPatches \ {a}
      /\ UNCHANGED <<canEdit, panel, detail, detailFetch, patches, patched, since, unheard, overlapped, noteVars>>
  BY DEF ApplyLate
<1>3. truth' \in Details /\ \A g \in Fields \ {a.field} : truth'[g] = truth[g]
  BY <1>1, <1>2 DEF DetailTypes, Details
<1>4. Unapplied' \subseteq Unapplied
  BY <1>2 DEF Unapplied
<1>5. PanelTypes' /\ DetailTypes' /\ PatchTypes' /\ Unpatched'
  BY <1>2, <1>3 DEF noteVars, PanelTypes, DetailTypes, PatchTypes, OneDetail, OneAnswer, Unpatched
<1>6. ASSUME NEW it, NEW doubt, RowTells(it, doubt) PROVE NowTells(it, doubt)
  BY <1>1, <1>3, <1>4, <1>6 DEF RowTells, NowTells
<1>7. RestsHonest'
  BY <1>2, <1>4, <1>6 DEF RestsHonest, RowTells, NowTells
<1>8. PatchRevertible'
  <2> SUFFICES ASSUME ~overlapped, patches # <<>> PROVE PatchRevertible'
    BY <1>2 DEF PatchRevertible
  <2> DEFINE q == patches[1]
  <2>1. /\ Len(patches) = 1 /\ detailFetch = {} /\ q.previous # {}
        /\ \A d \in q.previous : RowTells(d, unheard \cup {q.field})
        /\ q.answer = <<>> => \A d \in q.previous : RowTells(d, unheard)
        /\ q.answer # <<>> => RowTells(q.answer[1].row, q.answer[1].doubt)
    BY DEF PatchRevertible
  <2> HIDE DEF q
  <2>2. /\ \A d \in q.previous : NowTells(d, unheard \cup {q.field})
        /\ q.answer = <<>> => \A d \in q.previous : NowTells(d, unheard)
        /\ q.answer # <<>> => NowTells(q.answer[1].row, q.answer[1].doubt)
    BY <1>6, <2>1
  <2> QED
    BY <1>2, <2>1, <2>2 DEF PatchRevertible, RowTells, NowTells, q
<1> QED
  BY <1>5, <1>7, <1>8

\* The notes share nothing with the patches.
LEMMA PNotes ==
    ASSUME PanelInv,
           \/ WriteNote \/ PostNote
           \/ \E m \in posting : StoreNote(m) \/ NotePosted(m) \/ NoteFails(m)
    PROVE  PanelInv'
<1>1. UNCHANGED <<canEdit, panel, patchVars>>
  BY DEF WriteNote, PostNote, StoreNote, NotePosted, NoteFails
<1>2. note' \in 0 .. MaxNotes /\ noted' \in 0 .. MaxNotes /\ posting' \subseteq NoteRecords
  <2>1. CASE WriteNote
    BY <2>1, HandoffAssumption DEF WriteNote, PanelInv, PanelTypes
  <2>2. CASE PostNote
    <3>1. note \in 1 .. MaxNotes
      BY <2>2, HandoffAssumption DEF PostNote, PanelInv, PanelTypes
    <3>2. [note |-> note, here |-> TRUE, stored |-> FALSE] \in NoteRecords
      BY <3>1 DEF NoteRecords
    <3> QED
      BY <2>2, <3>2 DEF PostNote, PanelInv, PanelTypes
  <2>3. ASSUME NEW m \in posting, StoreNote(m) \/ NotePosted(m) \/ NoteFails(m)
        PROVE  note' \in {0, note} /\ noted' = noted /\ posting' \subseteq NoteRecords
    <3>1. /\ m \in NoteRecords /\ [m EXCEPT !.stored = TRUE] \in NoteRecords
          /\ [m EXCEPT !.here = FALSE] \in NoteRecords
      BY DEF PanelInv, PanelTypes, NoteRecords
    <3> QED
      BY <2>3, <3>1 DEF StoreNote, NotePosted, NoteFails, PanelInv, PanelTypes
  <2> QED
    BY <2>1, <2>2, <2>3, HandoffAssumption DEF PanelInv, PanelTypes
<1>3. PanelTypes'
  BY <1>1, <1>2 DEF PanelInv, PanelTypes, patchVars
<1> QED
  BY <1>1, <1>3, PanelQuiet DEF patchVars

LEMMA HandoffInductive == HandoffSpec => []PanelInv
<1>1. HandoffInit => PanelInv
  <2> SUFFICES ASSUME HandoffInit PROVE PanelInv
    OBVIOUS
  <2>1. 0 \in 0 .. MaxPatches /\ 0 \in 0 .. 0 /\ 0 \in 0 .. MaxNotes
    BY HandoffAssumption
  <2>2. patches \in Seq(PatchRecords) /\ Len(patches) = 0
    BY EmptySeq DEF HandoffInit
  <2>3. PanelTypes
    BY <2>1 DEF HandoffInit, PanelTypes
  <2> QED
    BY <2>2, <2>3 DEF HandoffInit, PanelInv, DetailTypes, UniformDetails, OneDetail, OneAnswer, PatchTypes,
       Unpatched, RestsHonest, PatchRevertible, Unapplied
<1>2. PanelInv /\ [HandoffNext]_handoffVars => PanelInv'
  <2> SUFFICES ASSUME PanelInv, [HandoffNext]_handoffVars PROVE PanelInv'
    OBVIOUS
  <2>1. CASE UNCHANGED handoffVars
    <3>1. PanelTypes'
      BY <2>1 DEF handoffVars, PanelInv, PanelTypes
    <3> QED
      BY <2>1, <3>1, PanelQuiet DEF handoffVars
  <2>2. ASSUME NEW v \in Values, TogglePause(v) \/ SetLifecycle(v) \/ SetAssignee(v) PROVE PanelInv'
    BY <2>2, PPatch DEF TogglePause, SetLifecycle, SetAssignee, PauseEnabled, LifecycleEnabled,
       AssigneeEnabled, Fields
  <2> QED
    BY <2>1, <2>2, PTogglePanel, PLandDetail, PElsewhere, PApplyPatch, PPatchSucceeds, PPatchFails, PPatchLost,
       PApplyLate, PNotes DEF HandoffNext
<1> QED
  BY <1>1, <1>2, PTL DEF HandoffSpec

\* The open thread: once every patch is answered or given up on, and unless one
\* was sent during another, the panel shows the server's value of every field
\* but those changed elsewhere or given up on, and of those too after the next
\* answer that knows; and the pill counts exactly what came while history was
\* read (the mutation and the query of the handoff panel, and the growth effect
\* of the thread).
THEOREM ThreadHolds == HandoffSpec /\ ScrollSpec => []ThreadInv
<1>1. PanelInv => HandoffInv
  <2> SUFFICES ASSUME PanelInv PROVE HandoffInv
    OBVIOUS
  <2>1. ASSUME NEW q, OneDetail(q) PROVE q \subseteq Details /\ Cardinality(q) <= 1
    BY <2>1, CountsOne DEF OneDetail
  <2>2. ASSUME NEW q, OneAnswer(q) PROVE q \subseteq Answers /\ Cardinality(q) <= 1
    BY <2>2, CountsOne DEF OneAnswer
  <2>3. Unapplied \subseteq Fields
    BY DEF PanelInv, DetailTypes, Unapplied
  <2>4. HandoffTypeOK
    BY <2>1, <2>2, <2>3 DEF PanelInv, PanelTypes, DetailTypes, PatchTypes, PatchRecords, NoteRecords, HandoffTypeOK
  <2>5. HonestWithoutOverlap
    BY DEF PanelInv, RestsHonest, RowTells, HonestWithoutOverlap, Settled
  <2> QED
    BY <2>4, <2>5 DEF HandoffInv
<1>2. VInv => ScrollInv
  <2> SUFFICES ASSUME VInv PROVE ScrollInv
    OBVIOUS
  <2>1. Cardinality(replyOf) <= 1 /\ Cardinality(seen) <= 1
    BY CountsOne DEF VInv, OneReply, OneSeen
  <2>2. persisted \in 0 .. MaxMessages /\ 0 .. total \subseteq 0 .. MaxMessages
    BY ScrollAssumption DEF VInv, VTypes
  <2>3. replyOf \subseteq [persisted : 0 .. MaxMessages, row : {0}]
    BY <2>2 DEF VInv, OneReply
  <2>4. seen \subseteq [count : Nat, real : Nat]
    BY DEF VInv, OneSeen
  <2> QED
    BY <2>1, <2>2, <2>3, <2>4 DEF VInv, VTypes, Windows, Counts, ScrollInv, ScrollTypeOK
<1> QED
  BY <1>1, <1>2, HandoffInductive, ScrollInductive, PTL DEF ThreadInv
=============================================================================
