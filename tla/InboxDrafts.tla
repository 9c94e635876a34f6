---------------------------- MODULE InboxDrafts ----------------------------
(***************************************************************************)
(* Replying from the inbox page: drafts per conversation with their        *)
(* debounced copy in localStorage, the reply that is sent while the        *)
(* operator may already be elsewhere, and the suggestion of the assistant  *)
(* that is planted into a draft.  The bubbles of a thread are the subject  *)
(* of InboxOptimism; here a thread is loaded or not.                       *)
(*                                                                         *)
(* A reply text is an id written once.  writtenFor is a history variable:  *)
(* the conversation and operator a text was written for.                   *)
(***************************************************************************)
EXTENDS Naturals

CONSTANTS Convs,        \* conversations
          Operators,    \* users of this browser, one after the other
          Human,        \* reply texts an operator may type
          Suggested,    \* reply texts the assistant may return
          None,         \* no conversation, no text
          Unset,        \* a draft that was not hydrated yet
          MaxMounts     \* bound: times the page is mounted, in one load of the
                        \* tab or in several

ASSUME DraftsAssumption ==
    /\ None \notin Convs \cup Human \cup Suggested
    /\ Unset \notin Human \cup Suggested \cup {None}
    /\ Human \cap Suggested = {}
    /\ MaxMounts \in Nat \ {0}

VARIABLES me,          \* the operator who is signed in
          mount,       \* number of this mount of the page
          sel,         \* selectedId
          lastShown,   \* the thread the message query last had data of
          drafts,      \* drafts[c]
          pending,     \* pendingDraftRef, with its running timer
          stored,      \* stored[u][c]: localStorage
          loaded,      \* conversations whose thread is in the query cache
          sends,       \* reply mutations in flight
          ai,          \* the suggestion mutation in flight
          log,         \* server: the replies of each conversation
          writtenFor   \* history: what a text was written for

draftsVars == <<me, mount, sel, lastShown, drafts, pending, stored,
                loaded, sends, ai, log, writtenFor>>

Texts == Human \cup Suggested

DraftsTypeOK ==
    /\ me \in Operators /\ mount \in 1 .. MaxMounts
    /\ sel \in Convs \cup {None}
    /\ lastShown \in Convs \cup {None}
    /\ drafts \in [Convs -> Texts \cup {None, Unset}]
    /\ pending = {} \/ \E c \in Convs, t \in Texts \cup {None} : pending = {<<c, t>>}
    /\ stored \in [Operators -> [Convs -> Texts \cup {None}]]
    /\ loaded \subseteq Convs
    /\ \A s \in sends : s.id \in Convs /\ s.text \in Texts
    /\ ai \subseteq [about : Convs]
    /\ writtenFor \in [Texts -> (Convs \X Operators) \cup {<<>>}]

DraftsInit ==
    /\ me \in Operators /\ mount = 1
    /\ sel = None /\ lastShown = None
    /\ drafts = [c \in Convs |-> Unset]
    /\ pending = {}
    /\ stored = [u \in Operators |-> [c \in Convs |-> None]]
    /\ loaded = {}
    /\ sends = {} /\ ai = {}
    /\ log = [c \in Convs |-> {}]
    /\ writtenFor = [t \in Texts |-> <<>>]

client == <<me, mount, sel, lastShown, drafts, pending, stored>>

-----------------------------------------------------------------------------
\* The drafts.

\* persistDraft under the key of the signed-in operator.
PersistDraft(c, t) == [stored EXCEPT ![me][c] = t]

\* flushDraft: blur, unmount, or the end of the debounce.
Flushed == IF pending = {} THEN stored
           ELSE LET p == CHOOSE p \in pending : TRUE IN PersistDraft(p[1], p[2])

FlushDraft ==
    /\ pending # {}
    /\ stored' = Flushed
    /\ pending' = {}
    /\ UNCHANGED <<me, mount, sel, lastShown, drafts,
                   loaded, sends, ai, log, writtenFor>>

\* The effect on selectedId: hydrate what the state lacks.
StoredDraft(c) == stored[me][c]

HydrateDraft(c, st) ==
    IF c # None /\ st[c] = Unset THEN [st EXCEPT ![c] = StoredDraft(c)] ELSE st

\* The data the message query shows: its own, or the previous thread's.
Shown == IF sel \in loaded THEN sel ELSE lastShown

SelectThread(c) ==
    /\ c # sel
    /\ sel' = c
    /\ drafts' = HydrateDraft(c, drafts)
    /\ lastShown' = IF c \in loaded THEN c ELSE lastShown
    /\ UNCHANGED <<me, mount, pending, stored,
                   loaded, sends, ai, log, writtenFor>>

ShownKey == IF Shown = None THEN sel ELSE Shown                      \* mutant
DraftKey == sel

\* updateDraft: the state at once, storage after the debounce.
UpdateDraft(t) ==
    /\ drafts' = [drafts EXCEPT ![DraftKey] = t]
    /\ pending' = {<<DraftKey, t>>}
    /\ UNCHANGED <<me, mount, sel, lastShown, stored>>

TypeDraft(t) ==
    /\ sel # None
    /\ writtenFor[t] = <<>>
    /\ UpdateDraft(t)
    /\ writtenFor' = [writtenFor EXCEPT ![t] = <<sel, me>>]
    /\ UNCHANGED <<loaded, sends, ai, log>>

EraseDraft ==
    /\ sel # None
    /\ drafts[sel] \in Texts
    /\ UpdateDraft(None)
    /\ UNCHANGED <<loaded, sends, ai, log, writtenFor>>
-----------------------------------------------------------------------------
\* The reply.

\* sendMut.isPending: the reply this mount of the page sent last.
SendPending == \E s \in sends : s.mount = mount

Send ==
    /\ sel # None /\ drafts[sel] \in Texts
    /\ ~SendPending
    /\ \A s \in sends : s.text # drafts[sel]     \* bound: a text is in flight once
    /\ sends' = sends \cup {[id |-> sel, text |-> drafts[sel],
                             mount |-> mount, at |-> "posted"]}
    /\ loaded' = loaded \cup {sel}                         \* the optimistic row
    /\ lastShown' = sel
    /\ UNCHANGED <<me, mount, sel, drafts, pending, stored, ai, log, writtenFor>>

\* The server sends the reply on and stores it, or refuses it.
ServeReply(s, verdict) ==
    /\ s.at = "posted"
    /\ sends' = (sends \ {s}) \cup {[s EXCEPT !.at = verdict]}
    /\ log' = IF verdict = "stored" THEN [log EXCEPT ![s.id] = @ \cup {s.text}] ELSE log
    /\ UNCHANGED <<client, loaded, ai, writtenFor>>

\* onSuccess: clear the draft of the replied thread, wherever the operator is.
SendSucceeds(s) ==
    /\ s.at = "stored"
    /\ sends' = sends \ {s}
    /\ pending' = IF s.mount = mount THEN {p \in pending : p[1] # s.id} ELSE pending
    /\ stored' = [stored EXCEPT ![me][s.id] = None]
    /\ drafts' = IF s.mount = mount THEN [drafts EXCEPT ![s.id] = None] ELSE drafts
    /\ UNCHANGED <<me, mount, sel, lastShown, loaded, ai, log, writtenFor>>

\* onError: a refusal, or apiFetch's clock ran out whatever the server did.
SendFails(s) ==
    /\ s.at \in {"posted", "stored", "refused"}
    /\ sends' = sends \ {s}
    /\ UNCHANGED <<client, loaded, ai, log, writtenFor>>
-----------------------------------------------------------------------------
\* The thread of a selected conversation arrives.
LoadThread ==
    /\ sel # None /\ sel \notin loaded
    /\ loaded' = loaded \cup {sel}
    /\ lastShown' = sel
    /\ UNCHANGED <<me, mount, sel, drafts, pending, stored, sends, ai, log, writtenFor>>
-----------------------------------------------------------------------------
\* The assistant.

\* It answers the last customer message of the bubbles on screen.
AskAssistant ==
    /\ sel # None /\ ai = {} /\ ~SendPending
    /\ Shown \in loaded
    /\ ai' = {[about |-> Shown]}
    /\ UNCHANGED <<client, loaded, sends, log, writtenFor>>

\* onSuccess of the rendered closure: updateDraft of the thread open now.
AssistantAnswers(t) ==
    /\ ai # {} /\ t \in Suggested /\ writtenFor[t] = <<>>
    /\ ai' = {}
    /\ IF sel = None
       THEN UNCHANGED <<me, mount, sel, lastShown, stored, drafts, pending, writtenFor>>
       ELSE /\ UpdateDraft(t)
            /\ \E a \in ai : writtenFor' = [writtenFor EXCEPT ![t] = <<a.about, me>>]
    /\ UNCHANGED <<loaded, sends, log>>

AssistantFails ==
    /\ ai # {}
    /\ ai' = {}
    /\ UNCHANGED <<client, loaded, sends, log, writtenFor>>
-----------------------------------------------------------------------------
\* Leaving the page and the tab.

\* Another page of the dashboard and back: the query cache and the requests
\* live on, the component's state does not.
Remount(c) ==
    /\ mount < MaxMounts
    /\ ai = {}                                   \* bound: no suggestion is awaited
    /\ mount' = mount + 1
    /\ stored' = Flushed /\ pending' = {}
    /\ sel' = c
    /\ drafts' = [d \in Convs |-> IF d = c THEN Flushed[me][d] ELSE Unset]
    /\ lastShown' = IF c \in loaded THEN c ELSE None
    /\ UNCHANGED <<me, loaded, sends, ai, log, writtenFor>>

\* A refresh, a crash, or the next operator of a shared device: localStorage
\* and the server are what is left, and no unmount effect runs.
Reload(u) ==
    /\ mount < MaxMounts
    /\ mount' = mount + 1
    /\ me' = u
    /\ sel' = None /\ lastShown' = None
    /\ drafts' = [c \in Convs |-> Unset]
    /\ pending' = {}
    /\ loaded' = {}
    /\ sends' = {} /\ ai' = {}
    /\ UNCHANGED <<stored, log, writtenFor>>

DraftsNext ==
    \/ FlushDraft \/ Send \/ LoadThread \/ AskAssistant \/ AssistantFails
    \/ \E c \in Convs \cup {None} : SelectThread(c) \/ Remount(c)
    \/ EraseDraft \/ \E t \in Human : TypeDraft(t)
    \/ \E s \in sends : SendSucceeds(s) \/ SendFails(s)
                        \/ \E v \in {"stored", "refused"} : ServeReply(s, v)
    \/ \E t \in Suggested : AssistantAnswers(t)
    \/ \E u \in Operators : Reload(u)

DraftsSpec == DraftsInit /\ [][DraftsNext]_draftsVars

-----------------------------------------------------------------------------

\* A reply an operator typed is only ever delivered to the conversation it
\* was typed in: switching threads before, during or after the send does not
\* misfile it (page.tsx:258-262).
TypedReplyReachesItsThread ==
    \A c \in Convs, t \in Human :
        t \in log[c] => writtenFor[t][1] = c

\* On a shared device no operator is shown what another one typed
\* (page.tsx:107-109).
DraftsStayWithTheirOperator ==
    \A c \in Convs :
        drafts[c] \in Texts => writtenFor[drafts[c]][2] = me

\* Each thread keeps its own draft (page.tsx:258-262): what stands in the
\* composer of a thread was written for that thread.
DraftKeepsItsThread ==
    \A c \in Convs :
        drafts[c] \in Texts => writtenFor[drafts[c]][1] = c

\* What an operator types goes to its thread, and to nobody else's screen.
DraftsInv == DraftsTypeOK /\ TypedReplyReachesItsThread /\ DraftsStayWithTheirOperator
=============================================================================
