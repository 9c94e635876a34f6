----------------------------- MODULE FlowStudio -----------------------------
(***************************************************************************)
(* The studio of one automation flow: the debounced autosave, the save     *)
(* button and the publish button (which saves first), each sending a PUT   *)
(* that may overlap another; the cached detail the studio is filled from   *)
(* once; and the server's draft and status.  A version of the graph is a   *)
(* number; its inside is the subject of FlowGraph.                         *)
(***************************************************************************)
EXTENDS Naturals, FiniteSets

CONSTANT Versions      \* contents the form may have

VARIABLES draft,       \* server: the stored graph
          strays,      \* server: the stored graph has nodes no card shows
          flowStatus,        \* server: status
          detailOf,    \* the cached detail, {} or one [draft, strays, live]
          inStudio,    \* the studio is mounted
          screen,      \* the content of the form, {} before it is filled
          orphaned,    \* orphanNodes.length > 0
          lastSaved,   \* lastSavedRef, {} for ""
          armed,       \* the autosave timer runs
          saveState,
          statusShown,
          draftPuts,        \* PUTs under way
          switch,      \* publish or unpublish under way, {} or one
          smudge       \* history: "overlap", "reverted", "stale", "lost"

studioVars == <<draft, strays, flowStatus, detailOf, inStudio, screen, orphaned, lastSaved,
                armed, saveState, statusShown, draftPuts, switch, smudge>>
flowVars == <<draft, strays, flowStatus>>
localVars == <<screen, orphaned, lastSaved, armed, saveState, statusShown>>

StudioTypeOK ==
    /\ draft \in Versions /\ strays \in BOOLEAN /\ flowStatus \in {"draft", "active", "paused"}
    /\ detailOf \subseteq [draft : Versions, strays : BOOLEAN, flowStatus : {"draft", "active", "paused"}]
    /\ Cardinality(detailOf) <= 1 /\ Cardinality(screen) <= 1
    /\ Cardinality(lastSaved) <= 1 /\ Cardinality(switch) <= 1
    /\ screen \cup lastSaved \subseteq Versions
    /\ {orphaned, armed, inStudio} \subseteq BOOLEAN
    /\ saveState \in {"idle", "saving", "saved", "error"}
    /\ smudge \subseteq {"overlap", "reverted", "stale", "lost"}

\* A freshly mounted studio that has no detail yet.
Blank == /\ screen' = {} /\ orphaned' = FALSE /\ lastSaved' = {} /\ armed' = FALSE
         /\ saveState' = "idle" /\ statusShown' = flowStatus

StudioInit ==
    /\ draft \in Versions /\ strays \in BOOLEAN /\ flowStatus = "draft"
    /\ detailOf = {} /\ inStudio = FALSE
    /\ screen = {} /\ orphaned = FALSE /\ lastSaved = {} /\ armed = FALSE
    /\ saveState = "idle" /\ statusShown = "draft"
    /\ draftPuts = {} /\ switch = {} /\ smudge = {}
-----------------------------------------------------------------------------
\* Opening and leaving.

Server == [draft |-> draft, strays |-> strays, flowStatus |-> flowStatus]

\* The hydration effect: once per mount.  The status follows every fetch.
Fill(d) ==
    /\ screen' = {d.draft} /\ lastSaved' = {d.draft} /\ orphaned' = d.strays
    /\ armed' = FALSE /\ saveState' = "idle"

OpenStudio ==
    /\ ~inStudio /\ inStudio' = TRUE
    /\ IF detailOf = {} THEN Blank
       ELSE \E d \in detailOf : Fill(d) /\ statusShown' = d.flowStatus
    /\ smudge' = smudge \cup (IF \E d \in detailOf : d # Server THEN {"stale"} ELSE {})
                       \cup (IF draftPuts # {} THEN {"overlap"} ELSE {})
    /\ UNCHANGED <<flowVars, detailOf, draftPuts, switch>>

LandDetailOf ==
    /\ inStudio
    /\ detailOf' = {Server}
    /\ IF screen = {} THEN Fill(Server) ELSE UNCHANGED <<screen, lastSaved, orphaned, armed, saveState>>
    /\ statusShown' = IF \A d \in detailOf : d.flowStatus # flowStatus THEN flowStatus ELSE statusShown
    /\ UNCHANGED <<flowVars, inStudio, draftPuts, switch, smudge>>

\* The cached detail is dropped some minutes after the studio was left.
DropDetail ==
    /\ ~inStudio /\ detailOf # {} /\ detailOf' = {}
    /\ UNCHANGED <<flowVars, inStudio, localVars, draftPuts, switch, smudge>>

\* Back: the timer is cleared, what it was to save is not saved.
LeaveStudio ==
    /\ inStudio /\ inStudio' = FALSE
    /\ Blank
    /\ draftPuts' = {[p EXCEPT !.mounted = FALSE] : p \in draftPuts}
    /\ switch' = {[p EXCEPT !.mounted = FALSE] : p \in switch}
    /\ UNCHANGED <<flowVars, detailOf, smudge>>
-----------------------------------------------------------------------------
\* Editing and saving.

\* The effect on the payload restarts the timer, unless this was saved last.
Unsaved(v) == {v} # lastSaved
EditForm(v) ==
    /\ screen # {} /\ screen # {v}
    /\ screen' = {v}
    /\ armed' = Unsaved(v)
    /\ smudge' = IF draftPuts # {} /\ ~Unsaved(v) THEN smudge \cup {"reverted"} ELSE smudge
    /\ UNCHANGED <<flowVars, detailOf, inStudio, orphaned, lastSaved, saveState,
                   statusShown, draftPuts, switch>>

NeedsSave == screen # lastSaved \/ orphaned

\* saveNow with the payload of the render, when it has something to save.
SaveForm(publishes) ==
    /\ \A p \in draftPuts : {p.version} # screen     \* bound: a version is sent once at a time
    /\ saveState' = "saving"
    /\ \E v \in screen :
          draftPuts' = draftPuts \cup {[version |-> v, force |-> orphaned, at |-> "sent",
                              mounted |-> TRUE, publishes |-> publishes]}
    /\ smudge' = IF draftPuts # {} THEN smudge \cup {"overlap"} ELSE smudge
    /\ UNCHANGED <<flowVars, detailOf, inStudio, screen, orphaned, lastSaved, statusShown>>

Autosave == armed /\ armed' = FALSE /\ NeedsSave /\ SaveForm(FALSE) /\ UNCHANGED switch
AutosaveIdle ==
    /\ armed /\ ~NeedsSave /\ armed' = FALSE
    /\ UNCHANGED <<flowVars, detailOf, inStudio, screen, orphaned, lastSaved, saveState,
                   statusShown, draftPuts, switch, smudge>>

\* The save button, and the one that sweeps the stray nodes.
SaveButton ==
    /\ inStudio /\ screen # {} /\ (saveState # "saving" \/ orphaned)
    /\ NeedsSave /\ SaveForm(FALSE) /\ UNCHANGED <<armed, switch>>

ApplyPut(p) ==
    /\ p.at = "sent"
    /\ draft' = p.version /\ strays' = FALSE
    /\ draftPuts' = (draftPuts \ {p}) \cup {[p EXCEPT !.at = "stored"]}
    /\ UNCHANGED <<flowStatus, detailOf, inStudio, localVars, switch, smudge>>

\* lastSavedRef is what the server has confirmed.
OnScreen(p) == screen                                                \* mutant
LastConfirmed(p) == {p.version}

Asked == {[kind |-> "publish", at |-> "sent", mounted |-> TRUE]}

PutSucceeds(p) ==
    /\ p.at = "stored"
    /\ draftPuts' = draftPuts \ {p}
    /\ IF p.mounted
       THEN /\ lastSaved' = LastConfirmed(p) /\ saveState' = "saved"
            /\ orphaned' = (orphaned /\ ~p.force)
            /\ armed' = (armed \/ (orphaned /\ p.force /\ screen # lastSaved'))   \* the effect on saveNow
            /\ UNCHANGED <<screen, statusShown>>
       ELSE UNCHANGED localVars
    /\ switch' = IF p.publishes THEN {[k EXCEPT !.at = "sent"] : k \in switch} ELSE switch
    /\ UNCHANGED <<flowVars, detailOf, inStudio, smudge>>

PutFailsUnsaid(p) ==                                                 \* mutant
    /\ draftPuts' = draftPuts \ {p}
    /\ saveState' = IF p.mounted THEN "idle" ELSE saveState
    /\ switch' = IF p.publishes THEN {} ELSE switch
    /\ smudge' = IF p.at = "stored" THEN smudge \cup {"lost"} ELSE smudge
    /\ UNCHANGED <<flowVars, detailOf, inStudio, screen, orphaned, lastSaved, armed, statusShown>>

\* The server refuses, or its answer does not arrive.
PutFails(p) ==
    /\ draftPuts' = draftPuts \ {p}
    /\ saveState' = IF p.mounted THEN "error" ELSE saveState
    /\ switch' = IF p.publishes THEN {} ELSE switch
    /\ smudge' = IF p.at = "stored" THEN smudge \cup {"lost"} ELSE smudge
    /\ UNCHANGED <<flowVars, detailOf, inStudio, screen, orphaned, lastSaved, armed, statusShown>>
-----------------------------------------------------------------------------
\* Publishing.

Publish ==
    /\ inStudio /\ screen # {} /\ statusShown # "active" /\ switch = {}
    /\ IF NeedsSave
       THEN /\ SaveForm(TRUE) /\ UNCHANGED armed
            /\ switch' = {[kind |-> "publish", at |-> "saving", mounted |-> TRUE]}
       ELSE /\ switch' = Asked
            /\ UNCHANGED <<flowVars, detailOf, inStudio, localVars, draftPuts, smudge>>

Unpublish ==
    /\ inStudio /\ screen # {} /\ statusShown = "active" /\ switch = {}
    /\ switch' = {[kind |-> "unpublish", at |-> "sent", mounted |-> TRUE]}
    /\ UNCHANGED <<flowVars, detailOf, inStudio, localVars, draftPuts, smudge>>

\* The server: publish needs a draft or a paused flow, unpublish an active one.
SwitchStatus(k) ==
    /\ k.at = "sent"
    /\ IF k.kind = "publish" THEN flowStatus # "active" ELSE flowStatus = "active"
    /\ flowStatus' = IF k.kind = "publish" THEN "active" ELSE "paused"
    /\ switch' = {[k EXCEPT !.at = "switched"]}
    /\ UNCHANGED <<draft, strays, detailOf, inStudio, localVars, draftPuts, smudge>>

\* onSuccess: the status of the answer.  The detail of an open studio is fetched
\* anew, that of one that was left keeps its data.
SwitchSucceeds(k) ==
    /\ k.at = "switched"
    /\ switch' = {}
    /\ statusShown' = IF k.mounted THEN (IF k.kind = "publish" THEN "active" ELSE "paused") ELSE statusShown
    /\ UNCHANGED <<flowVars, detailOf, inStudio, screen, orphaned, lastSaved, armed,
                   saveState, draftPuts, smudge>>

SwitchFails(k) ==
    /\ k.at # "saving"
    /\ switch' = {}
    /\ UNCHANGED <<flowVars, detailOf, inStudio, localVars, draftPuts, smudge>>

StudioNext ==
    \/ OpenStudio \/ LandDetailOf \/ DropDetail \/ LeaveStudio
    \/ \E v \in Versions : EditForm(v)
    \/ Autosave \/ AutosaveIdle \/ SaveButton \/ Publish \/ Unpublish
    \/ \E p \in draftPuts : ApplyPut(p) \/ PutSucceeds(p) \/ PutFails(p)
    \/ \E k \in switch : SwitchStatus(k) \/ SwitchSucceeds(k) \/ SwitchFails(k)

\* Timers run, and apiFetch's clock answers every request in the end.
AutosaveTimer == Autosave \/ AutosaveIdle
PutAnswers == \E p \in draftPuts : PutSucceeds(p) \/ PutFails(p)
StudioSpec == StudioInit /\ [][StudioNext]_studioVars /\ WF_studioVars(AutosaveTimer) /\ WF_studioVars(PutAnswers)

-----------------------------------------------------------------------------

\* When the studio says that all is saved and nothing is under way, the server
\* has what the form shows.  Not so when two saves overlapped (of two mounts even), an edit was
\* taken back while a save was under way, an answer was lost, or the studio
\* was opened from a stale detail.
SavedMeansStored ==
    (smudge = {} /\ saveState = "saved" /\ ~armed /\ draftPuts = {}) => screen = {draft}

\* The autosave leaves no edit behind: a form that is no longer edited is
\* stored in the end, or the studio says that the save failed.
EditsAreSavedOrReported ==
    \A v \in Versions :
        <>[](screen = {v}) => <>[](draft = v) \/ []<>(saveState = "error" \/ smudge # {})

\* bound: TLC does not go on from a smudged state, where both hold for good.
Unsmudged == smudge = {}

\* What the studio calls saved is stored.
StudioInv == StudioTypeOK /\ SavedMeansStored
=============================================================================
