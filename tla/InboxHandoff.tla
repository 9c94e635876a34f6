---------------------------- MODULE InboxHandoff ----------------------------
(***************************************************************************)
(* The handoff panel of an open conversation: bot pause, lifecycle and     *)
(* assignee are patched through one mutation with an optimistic slice of   *)
(* the cached detail and a rollback to a snapshot, on a refusal as on an   *)
(* answer that is lost or late; internal notes are posted one at a time.   *)
(***************************************************************************)
EXTENDS Naturals, Sequences, FiniteSets

CONSTANTS Values,      \* values a handoff field may have
          MaxPatches,  \* bound: patches sent
          MaxNotes     \* bound: notes written

ASSUME HandoffAssumption == MaxPatches \in Nat /\ MaxNotes \in Nat

Fields == {"bot_paused", "status", "assignee"}
Details == [Fields -> Values]
\* A row as an answer has it, and the fields it may not know the last of: a
\* patch given up on is not carried out yet, or another operator was faster.
Answers == [row : Details, doubt : SUBSET Fields]
UniformDetails == {d \in Details : \A f, g \in Fields : d[f] = d[g]}

VARIABLES canEdit,     \* the operator's role admits changes
          panel,       \* the panel is mounted
          truth,       \* server: the handoff fields
          detail,      \* the cached detail: {} or one
          detailFetch, \* what the fetch in flight read: {} or one
          patches,     \* patches in flight, in the order they were sent
          patched,     \* number of patches sent
          since,       \* patches sent before this mount of the panel
          adriftPatches, \* patches given up on that the server may still carry out
          unheard,     \* history: fields whose last change no answer has told of
          refused,     \* history: patches the server rejected
          overlapped,  \* history: a patch or a fetch was sent during a patch
          note,        \* number of the note in the composer, 0 for none
          noted,       \* notes composed so far
          posting,     \* notes on their way
          notes        \* server: copies stored of each note

handoffVars == <<canEdit, panel, truth, detail, detailFetch, patches, patched, since, adriftPatches,
                 unheard, refused, overlapped, note, noted, posting, notes>>
noteVars == <<note, noted, posting, notes>>
patchVars == <<truth, detail, detailFetch, patches, patched, since, adriftPatches, unheard,
               refused, overlapped>>

\* The fields a patch given up on may still change, and what the server answers.
Unapplied == {a.field : a \in adriftPatches}
Answered(row) == [row |-> row, doubt |-> Unapplied]

HandoffTypeOK ==
    /\ canEdit \in BOOLEAN /\ panel \in BOOLEAN
    /\ truth \in Details
    /\ detail \subseteq Details /\ Cardinality(detail) <= 1
    /\ detailFetch \subseteq Answers /\ Cardinality(detailFetch) <= 1
    /\ patches \in Seq([field : Fields, value : Values, previous : SUBSET Details,
                        number : 1 .. MaxPatches,
                        answer : {<<>>} \cup {<<a>> : a \in Answers}])
    /\ patched \in 0 .. MaxPatches /\ since \in 0 .. patched
    /\ Unapplied \subseteq Fields /\ unheard \subseteq Fields /\ overlapped \in BOOLEAN
    /\ note \in 0 .. MaxNotes /\ noted \in 0 .. MaxNotes
    /\ posting \subseteq [note : 1 .. MaxNotes, here : BOOLEAN, stored : BOOLEAN]

HandoffInit ==
    /\ canEdit \in BOOLEAN
    /\ panel = FALSE
    /\ truth \in UniformDetails
    /\ detail = {} /\ detailFetch = {}
    /\ patches = <<>> /\ patched = 0 /\ since = 0 /\ refused = {}
    /\ adriftPatches = {} /\ unheard = {} /\ overlapped = FALSE
    /\ note = 0 /\ noted = 0 /\ posting = {}
    /\ notes = [n \in 1 .. MaxNotes |-> 0]

\* The strip's toggle: the composer's text is component state, and a note on
\* its way no longer finds it.  The server may answer with the state it read
\* before a patch.
TogglePanel ==
    /\ panel' = ~panel
    /\ note' = 0 /\ since' = patched
    /\ detailFetch' = IF panel \/ detailFetch # {} THEN detailFetch ELSE {Answered(truth)}
    /\ overlapped' = (overlapped \/ (~panel /\ patches # <<>>))
    /\ posting' = {[m EXCEPT !.here = FALSE] : m \in posting}
    /\ UNCHANGED <<canEdit, truth, detail, patches, patched, adriftPatches, unheard, refused, noted, notes>>

LandDetail ==
    /\ detailFetch # {}
    /\ \E a \in detailFetch : detail' = {a.row} /\ unheard' = a.doubt
    /\ detailFetch' = {}
    /\ UNCHANGED <<canEdit, panel, truth, patches, patched, since, adriftPatches, refused, overlapped, noteVars>>

\* Another operator, or the bot's own handoff: neither the panel nor an answer
\* on its way knows.
Elsewhere(f, v) ==
    /\ patched = 0 /\ truth \in UniformDetails    \* bound: one change, before the patches
    /\ truth[f] # v
    /\ truth' = [truth EXCEPT ![f] = v]
    /\ unheard' = unheard \cup {f}
    /\ detailFetch' = {[a EXCEPT !.doubt = @ \cup {f}] : a \in detailFetch}
    /\ UNCHANGED <<canEdit, panel, detail, patches, patched, since, adriftPatches, refused, overlapped, noteVars>>
-----------------------------------------------------------------------------
\* isPending of the mutation is the state of the patch this mount sent last.
Patching == \E i \in 1 .. Len(patches) : patches[i].number = patched /\ patched > since

\* What the controls of the panel admit: the pause button shows a spinner and
\* the assignee select is disabled while a patch is in flight, the lifecycle
\* chips only ask for the role.
PauseEnabled(d, v)     == canEdit /\ ~Patching /\ d["bot_paused"] # v
LifecycleEnabled(d, v) == canEdit /\ d["status"] # v
AssigneeEnabled(d, v)  == canEdit /\ ~Patching /\ d["assignee"] # v

\* mutate and onMutate.
Patch(f, v) ==
    /\ patched < MaxPatches /\ noted = 0     \* bound: a behaviour is about patches or notes
    /\ patched' = patched + 1
    /\ patches' = Append(patches, [field |-> f, value |-> v, previous |-> detail,
                                   number |-> patched + 1, answer |-> <<>>])
    /\ detail' = {[d EXCEPT ![f] = v] : d \in detail}
    /\ detailFetch' = {}
    /\ overlapped' = (overlapped \/ patches # <<>>)
    /\ UNCHANGED <<canEdit, panel, truth, since, adriftPatches, unheard, refused, noteVars>>

TogglePause(v)  == panel /\ \E d \in detail : PauseEnabled(d, v) /\ Patch("bot_paused", v)
SetLifecycle(v) == panel /\ \E d \in detail : LifecycleEnabled(d, v) /\ Patch("status", v)
SetAssignee(v)  == panel /\ \E d \in detail : AssigneeEnabled(d, v) /\ Patch("assignee", v)

Without(i) == SubSeq(patches, 1, i - 1) \o SubSeq(patches, i + 1, Len(patches))

\* The server applies a patch and answers with the row as it then is.
ApplyPatch(i) ==
    /\ patches[i].answer = <<>>
    /\ truth' = [truth EXCEPT ![patches[i].field] = patches[i].value]
    /\ patches' = [patches EXCEPT ![i].answer = <<Answered(truth')>>]
    /\ UNCHANGED <<canEdit, panel, detail, detailFetch, patched, since, adriftPatches, unheard, refused,
                   overlapped, noteVars>>

\* onSuccess: the answer replaces the optimistic slice.
PatchSucceeds(i) ==
    /\ patches[i].answer # <<>>
    /\ detail' = {patches[i].answer[1].row} /\ unheard' = patches[i].answer[1].doubt
    /\ patches' = Without(i)
    /\ UNCHANGED <<canEdit, panel, truth, detailFetch, patched, since, adriftPatches, refused, overlapped, noteVars>>

PreviousOf(i) == IF patches[i].previous # {} THEN patches[i].previous ELSE detail
KeptSlice(i) == detail                                               \* mutant
Snapshot(i) == PreviousOf(i)

\* onError: the snapshot taken before the slice comes back.
RollBack(i) ==
    /\ detail' = Snapshot(i)
    /\ patches' = Without(i)
    /\ UNCHANGED <<canEdit, panel, truth, detailFetch, patched, since, overlapped, noteVars>>

\* The server rejects the patch.
PatchFails(i) ==
    /\ patches[i].answer = <<>>
    /\ RollBack(i)
    /\ refused' = refused \cup {<<patches[i].field, patches[i].value>>}
    /\ UNCHANGED <<adriftPatches, unheard>>

\* The patch times out or its answer is lost, whether or not the server has
\* applied it: it may, or may still.
PatchLost(i) ==
    /\ RollBack(i)
    /\ unheard' = unheard \cup {patches[i].field}
    /\ adriftPatches' = adriftPatches \cup
           IF patches[i].answer = <<>> THEN {[field |-> patches[i].field, value |-> patches[i].value]} ELSE {}
    /\ UNCHANGED refused

ApplyLate(a) ==
    /\ truth' = [truth EXCEPT ![a.field] = a.value]
    /\ adriftPatches' = adriftPatches \ {a}
    /\ UNCHANGED <<canEdit, panel, detail, detailFetch, patches, patched, since, unheard, refused, overlapped, noteVars>>
-----------------------------------------------------------------------------
WriteNote ==
    /\ panel /\ detail # {} /\ noted < MaxNotes
    /\ patched = 0               \* bound: a behaviour is about patches or notes
    /\ noted' = noted + 1 /\ note' = noted + 1
    /\ UNCHANGED <<canEdit, panel, patchVars, posting, notes>>

\* The button asks for the role, a text and no note of this mount in flight.
PostNote ==
    /\ panel /\ canEdit /\ note # 0 /\ \A m \in posting : ~m.here
    /\ notes[note] < MaxNotes                          \* bound: the copies of a note
    /\ posting' = posting \cup {[note |-> note, here |-> TRUE, stored |-> FALSE]}
    /\ UNCHANGED <<canEdit, panel, patchVars, note, noted, notes>>

StoreNote(m) ==
    /\ ~m.stored
    /\ posting' = (posting \ {m}) \cup {[m EXCEPT !.stored = TRUE]}
    /\ notes' = [notes EXCEPT ![m.note] = @ + 1]
    /\ UNCHANGED <<canEdit, panel, patchVars, note, noted>>

\* The composer is emptied, whatever was typed meanwhile.
NotePosted(m) ==
    /\ m.stored
    /\ posting' = posting \ {m} /\ note' = IF m.here THEN 0 ELSE note
    /\ UNCHANGED <<canEdit, panel, patchVars, noted, notes>>

\* Refused, or unheard of and perhaps stored still: the text stays, to be sent
\* again.
NoteFails(m) ==
    /\ \/ posting' = posting \ {m}
       \/ m.here /\ posting' = (posting \ {m}) \cup {[m EXCEPT !.here = FALSE]}
    /\ UNCHANGED <<canEdit, panel, patchVars, note, noted, notes>>

HandoffNext ==
    \/ TogglePanel \/ LandDetail \/ WriteNote \/ PostNote
    \/ \E f \in Fields, v \in Values : Elsewhere(f, v)
    \/ \E v \in Values : TogglePause(v) \/ SetLifecycle(v) \/ SetAssignee(v)
    \/ \E i \in 1 .. Len(patches) : ApplyPatch(i) \/ PatchSucceeds(i) \/ PatchFails(i) \/ PatchLost(i)
    \/ \E a \in adriftPatches : ApplyLate(a)
    \/ \E m \in posting : StoreNote(m) \/ NotePosted(m) \/ NoteFails(m)

HandoffSpec == HandoffInit /\ [][HandoffNext]_handoffVars

-----------------------------------------------------------------------------
Settled == patches = <<>> /\ detailFetch = {}

\* The panel never claims a pause or an assignment that the server rejected
\* (HandoffPanel.tsx:18-20): once every patch is answered, a shown value that
\* was rejected is one the server has all the same.  Not so when a lifecycle is
\* chosen while another patch is under way: the rollback of the second restores
\* what the first had claimed.
NeverClaimsRejected ==
    Settled => \A d \in detail, f \in {"bot_paused", "assignee"} :
        <<f, d[f]>> \in refused => d[f] = truth[f]

\* As long as nothing is sent while a patch is in flight, rollback and answer
\* are exact, also for a detail that arrives late: at rest every field is the
\* server's, except those changed elsewhere or given up on, until an answer that
\* knows what became of them.
HonestWithoutOverlap ==
    Settled /\ ~overlapped => \A d \in detail, f \in Fields \ unheard : d[f] = truth[f]

\* The panel is honest, and whatever answers late finds a state it can show.
HandoffInv == HandoffTypeOK /\ HonestWithoutOverlap
=============================================================================
