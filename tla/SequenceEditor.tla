--------------------------- MODULE SequenceEditor ---------------------------
(***************************************************************************)
(* The drip-sequence page: an editor whose save is a loop of requests (one *)
(* for the sequence, one per deleted, new or changed step), each of which  *)
(* may fail on its own or be carried out without an answer; a partial      *)
(* creation that binds the editor to what was created; and the cached      *)
(* detail from which an editor is filled once.                             *)
(***************************************************************************)
EXTENDS Naturals, Sequences, FiniteSets, SequencesExt

CONSTANTS Messages,   \* step texts
          NoMessage,  \* the text of an empty step
          MaxSteps,   \* bound: steps of a draft
          MaxSeqs,    \* bound: sequences
          MaxIds,     \* bound: step rows ever made
          MaxSaves    \* bound: saves started

ASSUME EditorAssumption ==
    /\ NoMessage \notin Messages
    /\ {MaxSteps, MaxSeqs, MaxIds} \subseteq Nat \ {0} /\ MaxSaves \in Nat

VARIABLES rows,      \* server: step rows [id, seq, text, order]
          seqs,      \* server: sequences that exist
          made,      \* sequences ever made
          issued,    \* step ids ever issued
          details,   \* details[s]: the cached detail, {} or one set of rows
          mode,      \* "closed", "create" or "edit"
          edited,    \* the seqId prop, 0 in create mode
          hydrated,  \* the ref of that name
          boundTo,   \* createdIdRef, 0 for null
          steps,     \* the steps of the draft
          save,      \* the saveMut in flight: {} or one
          saves,     \* number of saves started
          shownIds,  \* history: step ids that stood in this editor
          blemish,   \* history: "lost" answers, edits that broke off
               \* "halfway", "reused" and "stale" editors
          reported   \* history: what the last save reported as stored

editorVars == <<rows, seqs, made, issued, details, mode, edited, hydrated,
                boundTo, steps, save, saves, shownIds, blemish, reported>>
storeVars == <<rows, seqs, made, issued>>
formFields == <<mode, edited, hydrated, boundTo, steps, shownIds>>

SeqIds == 1 .. MaxSeqs
Row == [id : 1 .. MaxIds, seq : SeqIds, text : Messages, order : Nat \ {0}]
Draft(id, text, orig) == [id |-> id, text |-> text, orig |-> orig]
BlankStep == Draft(0, NoMessage, <<>>)
DraftStep == [id : 0 .. MaxIds, text : Messages \cup {NoMessage},
              orig : {<<>>} \cup (Messages \X (Nat \ {0}))]

\* The requests of a save.
RequestKinds == {"create", "meta", "delete", "put", "post"}
Request(kind, i, id) == [kind |-> kind, index |-> i, id |-> id]
StepRequests == [kind : RequestKinds, index : Nat, id : 0 .. MaxIds]
SaveJobs == [mounted : BOOLEAN, target : 0 .. MaxSeqs, creates : BOOLEAN,
             steps : Seq(DraftStep), saved : SUBSET (Nat \X (1 .. MaxIds)),
             wrote : BOOLEAN, todo : SUBSET StepRequests]

EditorTypeOK ==
    /\ rows \subseteq Row /\ seqs \subseteq 1 .. made /\ made \in 1 .. MaxSeqs
    /\ issued \in 1 .. MaxIds /\ \A r \in rows : r.id <= issued /\ r.seq \in seqs
    /\ details \in [SeqIds -> SUBSET (SUBSET Row)]
    /\ \A s \in SeqIds : \A d, e \in details[s] : d = e
    /\ mode \in {"closed", "create", "edit"} /\ edited \in 0 .. made
    /\ hydrated \in BOOLEAN /\ boundTo \in 0 .. MaxSeqs
    /\ steps \in Seq(DraftStep) /\ steps # <<>>
    /\ save \subseteq SaveJobs /\ \A j, k \in save : j = k
    /\ saves \in 0 .. MaxSaves
    /\ blemish \subseteq {"lost", "halfway", "reused", "stale"}

EditorInit ==
    /\ seqs = {1} /\ made = 1 /\ issued = 1
    /\ \E t \in Messages : rows = {[id |-> 1, seq |-> 1, text |-> t, order |-> 1]}
    /\ details = [s \in SeqIds |-> {}]
    /\ mode = "closed" /\ edited = 0
    /\ hydrated = FALSE /\ boundTo = 0 /\ steps = <<BlankStep>>
    /\ save = {} /\ saves = 0
    /\ shownIds = {} /\ blemish = {} /\ reported = {}

RowsOf(s) == {r \in rows : r.seq = s}

\* The server lists the steps of a sequence in their order.
Before(p, q) == p.order < q.order \/ (p.order = q.order /\ p.id < q.id)
InOrder(d) ==
    LET places == 1 .. Cardinality(d)
    IN  {o \in [places -> d] : \A i, k \in places : i < k => Before(o[i], o[k])}
TextsOf(ss) == [i \in DOMAIN ss |-> ss[i].text]
-----------------------------------------------------------------------------
\* Filling the editor.

Loaded(r) == Draft(r.id, r.text, <<r.text, r.order>>)
Mapped(d) == IF d = {} THEN {<<BlankStep>>}
             ELSE {[i \in DOMAIN o |-> Loaded(o[i])] : o \in InOrder(d)}

IdsIn(ss) == {ss[i].id : i \in 1 .. Len(ss)} \ {0}

\* The effect on detail.data, with the seqId prop s and the detail dd, {} or one.
\* It fills the form once per and not at all after a partial creation.
Hydrate(s, dd, wasHydrated, bnd, ss) ==
    \/ /\ dd = {} \/ wasHydrated \/ s = 0
       /\ hydrated' = wasHydrated /\ steps' = ss
    \/ /\ ~wasHydrated /\ s # 0
       /\ hydrated' = TRUE
       /\ \E d \in dd : steps' \in IF s = bnd THEN {ss} ELSE Mapped(d)

\* setEditor renders the editor at one place: an open one is the same instance
\* with another prop, a closed one is a new instance.
ShowEditor(m, s) ==
    /\ mode' = m /\ edited' = s
    /\ IF mode = "closed"
       THEN /\ boundTo' = 0
            /\ Hydrate(s, IF s = 0 THEN {} ELSE details[s], FALSE, 0, <<BlankStep>>)
            /\ shownIds' = IdsIn(steps')
       ELSE /\ Hydrate(s, IF s = 0 THEN {} ELSE details[s], hydrated, boundTo, steps)
            /\ shownIds' = shownIds \cup IdsIn(steps')
            /\ UNCHANGED boundTo

Blemished(s) ==
    blemish \cup (IF mode # "closed" /\ edited # s THEN {"reused"} ELSE {})
            \cup (IF s # 0 /\ \E d \in details[s] : d # RowsOf(s) THEN {"stale"} ELSE {})

OpenCreate ==
    /\ mode = "closed"            \* the button is not rendered beside an editor
    /\ ShowEditor("create", 0)
    /\ reported' = {}
    /\ UNCHANGED <<storeVars, details, save, saves, blemish>>

\* An unmounted editor keeps nothing.
Unmount ==
    /\ mode' = "closed" /\ edited' = 0
    /\ hydrated' = FALSE /\ boundTo' = 0 /\ steps' = <<BlankStep>> /\ shownIds' = {}

\* The edit button of a card, also while another sequence is being edited.
OpenEdit(s) ==
    /\ s \in seqs /\ <<mode, edited>> # <<"edit", s>>
    /\ save = {}                  \* bound: no switching during a save
    /\ ShowEditor("edit", s)
    /\ blemish' = Blemished(s)
    /\ reported' = {}
    /\ UNCHANGED <<storeVars, details, save, saves>>

CloseEditor ==
    /\ mode # "closed"
    /\ Unmount
    /\ save' = {[j EXCEPT !.mounted = FALSE] : j \in save}
    /\ UNCHANGED <<storeVars, details, saves, blemish, reported>>

\* The detail of the sequence in the editor arrives, first or once more.
LandSequence ==
    /\ mode = "edit" /\ edited \in seqs
    /\ details' = [details EXCEPT ![edited] = {RowsOf(edited)}]
    /\ Hydrate(edited, details'[edited], hydrated, boundTo, steps)
    /\ shownIds' = shownIds \cup IdsIn(steps')
    /\ UNCHANGED <<storeVars, mode, edited, boundTo, save, saves, blemish, reported>>
-----------------------------------------------------------------------------
\* Editing.

\* Loading, and a detail that failed, hide the form.
FormShown == mode = "create" \/ (mode = "edit" /\ details[edited] # {})

Edit(ss) ==
    /\ FormShown
    /\ steps' = ss
    /\ UNCHANGED <<storeVars, details, mode, edited, hydrated, boundTo, save, saves,
                   shownIds, blemish, reported>>

PatchStep(i, t) == i <= Len(steps) /\ steps[i].text # t /\ Edit([steps EXCEPT ![i].text = t])
AddStep == Len(steps) < MaxSteps /\ Edit(Append(steps, BlankStep))
RemoveStep(i) == i <= Len(steps) /\ Edit(IF Len(steps) <= 1 THEN <<BlankStep>> ELSE RemoveAt(steps, i))
MoveStepUp(i) == i \in 2 .. Len(steps) /\
                 Edit([steps EXCEPT ![i] = steps[i - 1], ![i - 1] = steps[i]])
-----------------------------------------------------------------------------
\* Saving.

SameAsLoaded(st, i) == st.orig = <<st.text, i>>
NeededFor(i) ==
    IF steps[i].id = 0 THEN {Request("post", i, 0)}
    ELSE IF SameAsLoaded(steps[i], i) THEN {}
    ELSE {Request("put", i, steps[i].id)}

\* The ids the draft still has; every other step of the detail is deleted.
KeptIds == IdsIn(steps)
NoneKept == {}                                                       \* mutant
Kept == KeptIds
Dropped == {r.id : r \in UNION details[edited]} \ Kept
DeletesOf(ids) == {Request("delete", 0, id) : id \in ids}

Valid == \A i \in 1 .. Len(steps) : steps[i].text # NoMessage

\* saveMut: what the loop will ask for, from the state of the click.
StartSave ==
    /\ FormShown /\ Valid
    /\ save = {}                  \* loading, and bound: one save at a time
    /\ saves < MaxSaves /\ saves' = saves + 1
    /\ save' = {[mounted |-> TRUE, target |-> edited, creates |-> mode = "create",
                 steps |-> steps, saved |-> {}, wrote |-> FALSE,
                 todo |-> IF mode = "create"
                          THEN {Request("create", 0, 0)} \cup {Request("post", i, 0) : i \in 1 .. Len(steps)}
                          ELSE {Request("meta", 0, 0)} \cup DeletesOf(Dropped)
                               \cup UNION {NeededFor(i) : i \in 1 .. Len(steps)}]}
    /\ reported' = {}
    /\ UNCHANGED <<storeVars, details, formFields, blemish>>

\* The loop: the sequence itself, then the deletions, then step after step.
Turn(r) == IF r.kind \in {"create", "meta"} THEN 0 ELSE r.index + 1
NextUp(j) == {r \in j.todo : \A q \in j.todo : Turn(r) <= Turn(q)}

\* What the server does with a request, and whether it can be carried out.
Feasible(j, r) ==
    CASE r.kind = "create" -> made < MaxSeqs
      [] r.kind = "meta"   -> j.target \in seqs
      [] r.kind = "post"   -> j.target \in seqs /\ issued < MaxIds
      [] OTHER             -> \E w \in rows : w.id = r.id

Carry(j, r) ==
    LET stored(id) == [id |-> id, seq |-> j.target, text |-> j.steps[r.index].text, order |-> r.index]
        keep == {w \in rows : w.id # r.id}
        own(w) == [stored(w.id) EXCEPT !.seq = w.seq]
    IN  CASE r.kind = "create" -> made' = made + 1 /\ seqs' = seqs \cup {made + 1}
                                  /\ UNCHANGED <<rows, issued>>
          [] r.kind = "meta"   -> UNCHANGED storeVars
          [] r.kind = "post"   -> issued' = issued + 1 /\ rows' = rows \cup {stored(issued + 1)}
                                  /\ UNCHANGED <<seqs, made>>
          [] r.kind = "put"    -> rows' = keep \cup {own(w) : w \in rows \ keep}
                                  /\ UNCHANGED <<seqs, made, issued>>
          [] r.kind = "delete" -> rows' = keep /\ UNCHANGED <<seqs, made, issued>>

NextRequest(j, r) ==
    [j EXCEPT !.todo = @ \ {r}, !.wrote = @ \/ r.kind # "meta",
              !.target = IF r.kind = "create" THEN made + 1 ELSE @,
              !.saved = IF r.kind = "post" THEN @ \cup {<<r.index, issued + 1>>} ELSE @]

\* The next request is carried out and answered.
SaveStep(j, r) ==
    /\ r \in NextUp(j) /\ Feasible(j, r)
    /\ Carry(j, r)
    /\ save' = {NextRequest(j, r)}
    /\ boundTo' = IF r.kind = "create" /\ j.mounted THEN made + 1 ELSE boundTo
    /\ UNCHANGED <<details, mode, edited, hydrated, steps, saves, shownIds, blemish, reported>>

\* savedStepIdsRef: the steps that have no id yet get those that were stored.
WithSavedIds(j) ==
    [i \in 1 .. Len(steps) |->
        IF steps[i].id = 0 /\ \E p \in j.saved : p[1] = i
        THEN [steps[i] EXCEPT !.id = (CHOOSE p \in j.saved : p[1] = i)[2]] ELSE steps[i]]

\* onError.  After a partial creation the editor is bound to what was created;
\* if it was closed meanwhile, one is opened for it.
SaveBreaks(j) ==
    /\ save' = {}
    /\ IF j.creates /\ j.target # 0
       THEN IF j.mounted /\ mode = "create"
            THEN /\ mode' = "edit" /\ edited' = j.target
                 /\ steps' = WithSavedIds(j) /\ shownIds' = shownIds \cup IdsIn(steps')
                 /\ UNCHANGED <<hydrated, boundTo>>
            ELSE ShowEditor("edit", j.target)
       ELSE UNCHANGED formFields

SaveRefused(j) ==
    /\ j.todo # {}
    /\ SaveBreaks(j)
    /\ blemish' = IF j.creates /\ j.target # 0 /\ ~j.mounted THEN Blemished(j.target)
                  ELSE IF ~j.creates /\ j.wrote THEN blemish \cup {"halfway"}
                  ELSE blemish
    /\ UNCHANGED <<storeVars, details, saves, reported>>

\* The answer is lost or late: the request was carried out all the same.
SaveAnswerLost(j, r) ==
    /\ r \in NextUp(j) /\ Feasible(j, r)
    /\ Carry(j, r)
    /\ SaveBreaks(j)
    /\ blemish' = blemish \cup {"lost"}
    /\ UNCHANGED <<details, saves, reported>>

\* onSuccess closes the editor that is open.
SaveSucceeds(j) ==
    /\ j.todo = {}
    /\ save' = {} /\ Unmount
    /\ reported' = {[seq |-> j.target, texts |-> TextsOf(j.steps)]}
    /\ UNCHANGED <<storeVars, details, saves, blemish>>

\* The confirmed delete of a card.
DeleteSequence(s) ==
    /\ s \in seqs
    /\ seqs' = seqs \ {s} /\ rows' = {r \in rows : r.seq # s}
    /\ reported' = {}
    /\ UNCHANGED <<made, issued, details, formFields, save, saves, blemish>>

EditorNext ==
    \/ OpenCreate \/ CloseEditor \/ LandSequence \/ AddStep \/ StartSave
    \/ \E s \in SeqIds : OpenEdit(s) \/ DeleteSequence(s)
    \/ \E i \in 1 .. MaxSteps : RemoveStep(i) \/ MoveStepUp(i) \/ \E t \in Messages : PatchStep(i, t)
    \/ \E j \in save : SaveRefused(j) \/ SaveSucceeds(j) \/ \E r \in j.todo : SaveStep(j, r) \/ SaveAnswerLost(j, r)

EditorSpec == EditorInit /\ [][EditorNext]_editorVars

-----------------------------------------------------------------------------

\* A save that reports success has stored the draft, step for step and in its
\* order, also when it completes a creation that broke off in the middle
\* (sequences/page.tsx:191-197: no duplicate creation, no orphaned steps).
\* Not so once an answer was lost, an edit broke off halfway, an editor was
\* reused for another sequence, or one was filled from a stale detail.  A
\* sequence deleted during its save is gone.
SavedIsStored ==
    blemish = {} => \A p \in reported :
        p.seq \in seqs => \E o \in InOrder(RowsOf(p.seq)) : TextsOf(o) = p.texts

\* A save deletes only steps the operator saw in the editor and took out.
DeletesOnlyTheShown ==
    \A j \in save : \A r \in j.todo : r.kind = "delete" => r.id \in shownIds

\* bound: TLC does not go on from a blemished state, where the promise is off.
Unblemished == blemish = {}

\* What the editor reports as saved is stored, whatever broke off before.
EditorInv == EditorTypeOK /\ SavedIsStored
=============================================================================
