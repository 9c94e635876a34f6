----------------------------- MODULE ClientProofs -----------------------------
(***************************************************************************)
(* The client's screens, the inbox's bubbles and list, the plan wizard and *)
(* the flow studio, for every screen, reply, search, plan and content.     *)
(*                                                                         *)
(* What the studio calls saved is stored: what it remembers as saved is    *)
(* the server's draft whenever no PUT is under way, and the timer runs for *)
(* every edit the PUT under way does not carry.                            *)
(***************************************************************************)
EXTENDS MCClient, Console, FiniteSetTheorems, TLAPS

-----------------------------------------------------------------------------
(* The flow studio.                                                        *)

AtMostOne(S) == S = {} \/ \E x \in S : S = {x}

Puts == [version : Versions, force : BOOLEAN, at : {"sent", "stored"},
         mounted : BOOLEAN, publishes : BOOLEAN]

Details == [draft : Versions, strays : BOOLEAN, flowStatus : {"draft", "active", "paused"}]

STypes ==
    /\ draft \in Versions /\ strays \in BOOLEAN /\ flowStatus \in {"draft", "active", "paused"}
    /\ detailOf \subseteq Details /\ AtMostOne(detailOf)
    /\ AtMostOne(screen) /\ AtMostOne(lastSaved) /\ AtMostOne(switch)
    /\ screen \cup lastSaved \subseteq Versions
    /\ {orphaned, armed, inStudio} \subseteq BOOLEAN
    /\ saveState \in {"idle", "saving", "saved", "error"}
    /\ smudge \subseteq {"overlap", "reverted", "stale", "lost"}
    /\ draftPuts \subseteq Puts

\* A studio that is left, or has no detail yet, holds nothing.
Empty == screen = {} /\ ~armed /\ saveState = "idle"

\* No PUT under way: what was saved last is the draft, and an edit that is not
\* saved has the timer running.
AtRest ==
    /\ draftPuts = {}
    /\ screen = {} => Empty
    /\ screen # {} => lastSaved = {draft}
    /\ saveState = "saved" /\ ~armed => screen = lastSaved

\* One PUT of this mount under way: what is not in it has the timer running.
Saving ==
    \E p \in draftPuts :
        /\ draftPuts = {p} /\ p.mounted /\ screen # {}
        /\ ~armed => screen = {p.version}
        /\ armed => screen # lastSaved \/ orphaned
        /\ IF p.at = "stored" THEN draft = p.version ELSE lastSaved = {draft}

Orderly ==
    smudge = {} => IF inStudio THEN AtRest \/ Saving ELSE Empty

\* A PUT whose observer lives belongs to the studio that is open.
Observed == \A p \in draftPuts : p.mounted => inStudio

SInv == STypes /\ (~inStudio => Empty) /\ Observed /\ Orderly

LEMMA OneIsSmall == ASSUME NEW S, AtMostOne(S) PROVE Cardinality(S) <= 1
<1>1. CASE S = {}
  BY <1>1, FS_EmptySet
<1>2. CASE S # {}
  <2>1. PICK x \in S : S = {x}
    BY <1>2 DEF AtMostOne
  <2>2. Cardinality({x}) = 1
    BY FS_Singleton
  <2> QED BY <2>1, <2>2
<1> QED BY <1>1, <1>2

LEMMA SInvImplies == SInv => StudioInv
<1> SUFFICES ASSUME SInv PROVE StudioInv
  OBVIOUS
<1>1. StudioTypeOK
  BY OneIsSmall DEF SInv, STypes, StudioTypeOK, Details
<1>2. SavedMeansStored
  BY DEF SInv, Orderly, Empty, AtRest, Saving, SavedMeansStored
<1> QED BY <1>1, <1>2 DEF StudioInv

LEMMA SInvInit == StudioInit => SInv
  BY DEF StudioInit, SInv, STypes, AtMostOne, Observed, Orderly, Empty
-----------------------------------------------------------------------------
\* Opening and leaving.

LEMMA ServerIsADetail == STypes => Server \in Details
  BY DEF STypes, Server, Details

LEMMA OpenSInv == ASSUME SInv, OpenStudio PROVE SInv'
<1>1. /\ ~inStudio /\ inStudio' = TRUE
      /\ UNCHANGED <<draft, strays, flowStatus, detailOf, draftPuts, switch>>
      /\ smudge' = smudge \cup (IF \E d \in detailOf : d # Server THEN {"stale"} ELSE {})
                          \cup (IF draftPuts # {} THEN {"overlap"} ELSE {})
  BY DEF OpenStudio, flowVars
<1>2. CASE detailOf = {}
  <2>1. /\ screen' = {} /\ orphaned' = FALSE /\ lastSaved' = {} /\ armed' = FALSE
        /\ saveState' = "idle"
    BY <1>2 DEF OpenStudio, Blank
  <2>2. STypes'
    BY <1>1, <2>1 DEF SInv, STypes, AtMostOne
  <2>3. Orderly'
    BY <1>1, <2>1 DEF Orderly, AtRest, Empty
  <2> QED BY <1>1, <2>2, <2>3 DEF SInv, Observed
<1>3. CASE detailOf # {}
  <2>1. PICK d \in detailOf : Fill(d)
    BY <1>3 DEF OpenStudio
  <2>2. /\ screen' = {d.draft} /\ lastSaved' = {d.draft} /\ orphaned' = d.strays
        /\ armed' = FALSE /\ saveState' = "idle"
    BY <2>1 DEF Fill
  <2>3. d.draft \in Versions /\ d.strays \in BOOLEAN
    BY <2>1 DEF SInv, STypes, Details
  <2>4. STypes'
    BY <1>1, <2>2, <2>3 DEF SInv, STypes, AtMostOne
  <2>5. smudge' = {} => d.draft = draft /\ draftPuts = {}
    BY <1>1, <2>1 DEF Server
  <2>6. Orderly'
    BY <1>1, <2>2, <2>5 DEF Orderly, AtRest, Empty
  <2> QED BY <1>1, <2>4, <2>6 DEF SInv, Observed
<1> QED BY <1>2, <1>3

LEMMA LandSInv == ASSUME SInv, LandDetailOf PROVE SInv'
<1>1. /\ inStudio /\ inStudio' = inStudio /\ detailOf' = {Server}
      /\ UNCHANGED <<draft, strays, flowStatus, draftPuts, switch, smudge>>
  BY DEF LandDetailOf, flowVars
<1>2. Server \in Details
  BY ServerIsADetail DEF SInv
<1>3. CASE screen = {}
  <2>1. /\ screen' = {draft} /\ lastSaved' = {draft} /\ orphaned' = strays
        /\ armed' = FALSE /\ saveState' = "idle"
    BY <1>3 DEF LandDetailOf, Fill, Server
  <2>2. STypes'
    BY <1>1, <1>2, <2>1 DEF SInv, STypes, AtMostOne
  <2>3. Orderly'
    BY <1>1, <1>3, <2>1 DEF SInv, Orderly, AtRest, Saving, Empty
  <2> QED BY <1>1, <2>2, <2>3 DEF SInv, Observed
<1>4. CASE screen # {}
  <2>1. UNCHANGED <<screen, lastSaved, orphaned, armed, saveState>>
    BY <1>4 DEF LandDetailOf
  <2>2. STypes'
    BY <1>1, <1>2, <2>1 DEF SInv, STypes, AtMostOne
  <2>3. Orderly'
    BY <1>1, <2>1 DEF SInv, Orderly, AtRest, Saving, Empty
  <2> QED BY <1>1, <2>2, <2>3 DEF SInv, Observed
<1> QED BY <1>3, <1>4

LEMMA LeaveSInv == ASSUME SInv, LeaveStudio PROVE SInv'
<1>1. /\ inStudio' = FALSE
      /\ screen' = {} /\ orphaned' = FALSE /\ lastSaved' = {} /\ armed' = FALSE
      /\ saveState' = "idle"
      /\ draftPuts' = {[p EXCEPT !.mounted = FALSE] : p \in draftPuts}
      /\ switch' = {[p EXCEPT !.mounted = FALSE] : p \in switch}
      /\ UNCHANGED <<draft, strays, flowStatus, detailOf, smudge>>
  BY DEF LeaveStudio, Blank, flowVars
<1>2. draftPuts' \subseteq Puts
  BY <1>1 DEF SInv, STypes, Puts
<1>3. AtMostOne(switch)'
  <2>1. CASE switch = {}
    BY <1>1, <2>1 DEF AtMostOne
  <2>2. CASE switch # {}
    <3>1. PICK k \in switch : switch = {k}
      BY <2>2 DEF SInv, STypes, AtMostOne
    <3>2. switch' = {[k EXCEPT !.mounted = FALSE]}
      BY <1>1, <3>1
    <3> QED BY <3>2 DEF AtMostOne
  <2> QED BY <2>1, <2>2
<1>4. STypes'
  BY <1>1, <1>2, <1>3 DEF SInv, STypes, AtMostOne
<1>5. Observed'
  <2> SUFFICES ASSUME NEW q \in draftPuts' PROVE ~q.mounted
    BY DEF Observed
  <2>1. PICK p \in draftPuts : q = [p EXCEPT !.mounted = FALSE]
    BY <1>1
  <2> QED BY <2>1 DEF SInv, STypes, Puts
<1> QED BY <1>1, <1>4, <1>5 DEF SInv, Orderly, Empty
-----------------------------------------------------------------------------
\* Editing and saving.

LEMMA EditSInv == ASSUME SInv, NEW v \in Versions, EditForm(v) PROVE SInv'
<1>1. /\ screen # {} /\ screen' = {v} /\ armed' = ({v} # lastSaved)
      /\ smudge' = IF draftPuts # {} /\ {v} = lastSaved THEN smudge \cup {"reverted"} ELSE smudge
      /\ UNCHANGED <<draft, strays, flowStatus, detailOf, inStudio, orphaned, lastSaved,
                     saveState, draftPuts, switch>>
  BY DEF EditForm, Unsaved, flowVars
<1>2. STypes'
  BY <1>1 DEF SInv, STypes, AtMostOne
<1>3. inStudio
  BY <1>1 DEF SInv, Empty
<1>4. Orderly'
  BY <1>1, <1>3 DEF SInv, Orderly, AtRest, Saving, Empty
<1> QED BY <1>1, <1>2, <1>3, <1>4 DEF SInv, Observed

\* A PUT starts with what is on the screen; the timer is stopped or there is
\* something to save.
LEMMA SaveSInv ==
    ASSUME SInv, NEW publishes \in BOOLEAN, SaveForm(publishes), NeedsSave,
           armed' \in {armed, FALSE}, AtMostOne(switch')
    PROVE  SInv'
<1>1. /\ saveState' = "saving"
      /\ smudge' = IF draftPuts # {} THEN smudge \cup {"overlap"} ELSE smudge
      /\ UNCHANGED <<draft, strays, flowStatus, detailOf, inStudio, screen, orphaned, lastSaved>>
  BY DEF SaveForm, flowVars
<1>2. PICK v \in screen :
        draftPuts' = draftPuts \cup {[version |-> v, force |-> orphaned, at |-> "sent",
                                      mounted |-> TRUE, publishes |-> publishes]}
  BY DEF SaveForm
<1> DEFINE q == [version |-> v, force |-> orphaned, at |-> "sent",
                 mounted |-> TRUE, publishes |-> publishes]
<1>3. q \in Puts /\ q.version = v /\ q.at = "sent" /\ q.mounted
  BY <1>2 DEF SInv, STypes, Puts
<1>4. screen = {v}
  BY <1>2 DEF SInv, STypes, AtMostOne
<1>5. draftPuts' = draftPuts \cup {q}
  BY <1>2
<1> HIDE DEF q
<1>6. STypes'
  BY <1>1, <1>3, <1>5 DEF SInv, STypes, AtMostOne
<1>7. inStudio
  BY <1>4 DEF SInv, Empty
<1>8. Orderly'
  <2> SUFFICES ASSUME smudge' = {} PROVE Saving'
    BY <1>1, <1>7 DEF Orderly
  <2>1. draftPuts = {} /\ smudge = {}
    BY <1>1
  <2>2. lastSaved = {draft}
    BY <1>4, <1>7, <2>1 DEF SInv, Orderly, AtRest, Saving
  <2>3. draftPuts' = {q}
    BY <1>5, <2>1
  <2> QED BY <1>1, <1>3, <1>4, <2>2, <2>3 DEF Saving, NeedsSave
<1> QED BY <1>1, <1>6, <1>7, <1>8 DEF SInv, Observed

LEMMA IdleSInv == ASSUME SInv, AutosaveIdle PROVE SInv'
<1>1. /\ armed /\ screen = lastSaved /\ ~orphaned /\ armed' = FALSE
      /\ UNCHANGED <<draft, strays, flowStatus, detailOf, inStudio, screen, orphaned,
                     lastSaved, saveState, draftPuts, switch, smudge>>
  BY DEF AutosaveIdle, NeedsSave, flowVars
<1>2. STypes'
  BY <1>1 DEF SInv, STypes, AtMostOne
<1>3. Orderly'
  BY <1>1 DEF SInv, Orderly, AtRest, Saving, Empty
<1> QED BY <1>1, <1>2, <1>3 DEF SInv, Observed, Empty

LEMMA ApplySInv == ASSUME SInv, NEW p \in draftPuts, ApplyPut(p) PROVE SInv'
<1> DEFINE q == [p EXCEPT !.at = "stored"]
<1>1. /\ p.at = "sent" /\ draft' = p.version /\ strays' = FALSE
      /\ draftPuts' = (draftPuts \ {p}) \cup {q}
      /\ UNCHANGED <<flowStatus, detailOf, inStudio, screen, orphaned, lastSaved, armed,
                     saveState, switch, smudge>>
  BY DEF ApplyPut, localVars
<1>2. /\ q \in Puts /\ q.version = p.version /\ q.at = "stored" /\ q.mounted = p.mounted
      /\ p.version \in Versions
  BY DEF SInv, STypes, Puts
<1> HIDE DEF q
<1>3. STypes'
  BY <1>1, <1>2 DEF SInv, STypes, AtMostOne
<1>4. Orderly'
  <2>1. CASE smudge = {} /\ inStudio
    <3>1. Saving
      BY <2>1 DEF SInv, Orderly, AtRest
    <3>2. draftPuts' = {q} /\ p.mounted /\ screen # {} /\ (~armed => screen = {p.version})
          /\ (armed => screen # lastSaved \/ orphaned)
      BY <1>1, <3>1 DEF Saving
    <3>3. Saving'
      BY <1>1, <1>2, <3>2 DEF Saving
    <3> QED BY <3>3, <1>1, <2>1 DEF Orderly
  <2>2. CASE ~(smudge = {} /\ inStudio)
    BY <1>1, <2>2 DEF SInv, Orderly, Empty
  <2> QED BY <2>1, <2>2
<1>5. Observed'
  BY <1>1, <1>2 DEF SInv, Observed
<1> QED BY <1>1, <1>3, <1>4, <1>5 DEF SInv, Empty

LEMMA SucceedsSInv == ASSUME SInv, NEW p \in draftPuts, PutSucceeds(p) PROVE SInv'
<1>1. /\ p.at = "stored" /\ draftPuts' = draftPuts \ {p}
      /\ UNCHANGED <<draft, strays, flowStatus, detailOf, inStudio, screen, smudge>>
      /\ switch' = switch \/ switch' = {[k EXCEPT !.at = "sent"] : k \in switch}
  BY DEF PutSucceeds, flowVars, localVars
<1>2. p.version \in Versions /\ p.force \in BOOLEAN
  BY DEF SInv, STypes, Puts
<1>3. AtMostOne(switch)'
  BY <1>1 DEF SInv, STypes, AtMostOne
<1>4. CASE p.mounted
  <2>1. /\ lastSaved' = {p.version} /\ saveState' = "saved" /\ orphaned' = (orphaned /\ ~p.force)
        /\ armed' = (armed \/ (orphaned /\ p.force /\ screen # lastSaved'))
    BY <1>4 DEF PutSucceeds, LastConfirmed
  <2>2. STypes'
    BY <1>1, <1>2, <1>3, <2>1 DEF SInv, STypes, AtMostOne
  <2>3. CASE inStudio
    <3>1. Orderly'
      <4> SUFFICES ASSUME smudge' = {} PROVE AtRest'
        BY <1>1, <2>3 DEF Orderly
      <4>1. Saving
        BY <1>1, <2>3 DEF SInv, Orderly, AtRest
      <4>2. draftPuts = {p} /\ screen # {} /\ (~armed => screen = {p.version}) /\ draft = p.version
        BY <1>1, <4>1 DEF Saving
      <4> QED BY <1>1, <2>1, <4>2 DEF AtRest
    <3> QED BY <1>1, <2>2, <2>3, <3>1 DEF SInv, Observed
  <2>4. CASE ~inStudio
    BY <1>4, <2>4 DEF SInv, Observed
  <2> QED BY <2>3, <2>4
<1>5. CASE ~p.mounted
  <2>1. UNCHANGED <<orphaned, lastSaved, armed, saveState>>
    BY <1>5 DEF PutSucceeds, localVars
  <2>2. STypes'
    BY <1>1, <1>3, <2>1 DEF SInv, STypes, AtMostOne
  <2>3. Orderly'
    BY <1>1, <1>5, <2>1 DEF SInv, Orderly, AtRest, Saving, Empty
  <2> QED BY <1>1, <2>1, <2>2, <2>3 DEF SInv, Observed, Empty
<1> QED BY <1>4, <1>5

LEMMA FailsSInv == ASSUME SInv, NEW p \in draftPuts, PutFails(p) PROVE SInv'
<1>1. /\ draftPuts' = draftPuts \ {p}
      /\ saveState' = IF p.mounted THEN "error" ELSE saveState
      /\ switch' = IF p.publishes THEN {} ELSE switch
      /\ smudge' = IF p.at = "stored" THEN smudge \cup {"lost"} ELSE smudge
      /\ UNCHANGED <<draft, strays, flowStatus, detailOf, inStudio, screen, orphaned, lastSaved, armed>>
  BY DEF PutFails, flowVars
<1>2. STypes'
  BY <1>1 DEF SInv, STypes, AtMostOne
<1>3. (~inStudio => Empty)'
  BY <1>1 DEF SInv, Observed, Empty
<1>4. Observed'
  BY <1>1 DEF SInv, Observed
<1>5. Orderly'
  <2>1. CASE smudge' = {} /\ inStudio
    <3>1. Saving /\ p.at # "stored"
      BY <1>1, <2>1 DEF SInv, Orderly, AtRest
    <3>2. draftPuts = {p} /\ screen # {} /\ p.mounted /\ lastSaved = {draft}
      BY <3>1 DEF Saving
    <3>3. AtRest'
      BY <1>1, <3>2 DEF AtRest
    <3> QED BY <1>1, <2>1, <3>3 DEF Orderly
  <2>2. CASE ~(smudge' = {} /\ inStudio)
    BY <1>1, <1>3, <2>2 DEF Orderly
  <2> QED BY <2>1, <2>2
<1> QED BY <1>2, <1>3, <1>4, <1>5 DEF SInv
-----------------------------------------------------------------------------
\* Publishing, and the cache.

\* Steps that leave the form, its PUTs and the draft alone.
LEMMA AsideSInv ==
    ASSUME SInv, AtMostOne(switch'), AtMostOne(detailOf'), detailOf' \subseteq Details,
           flowStatus' \in {"draft", "active", "paused"},
           UNCHANGED <<draft, strays, inStudio, screen, orphaned, lastSaved, armed,
                       saveState, draftPuts, smudge>>
    PROVE  SInv'
<1>1. STypes'
  BY DEF SInv, STypes, AtMostOne
<1>2. (AtRest <=> AtRest') /\ (Saving <=> Saving') /\ (Empty <=> Empty')
  BY DEF AtRest, Saving, Empty
<1> QED BY <1>1, <1>2 DEF SInv, Observed, Orderly

LEMMA OneOrNone == ASSUME NEW x PROVE AtMostOne({x}) /\ AtMostOne({})
  BY DEF AtMostOne

LEMMA PublishSInv == ASSUME SInv, Publish PROVE SInv'
<1>1. CASE NeedsSave
  <2>1. SaveForm(TRUE) /\ armed' = armed
        /\ switch' = {[kind |-> "publish", at |-> "saving", mounted |-> TRUE]}
    BY <1>1 DEF Publish
  <2>2. AtMostOne(switch')
    BY <2>1, OneOrNone
  <2> QED BY <1>1, <2>1, <2>2, SaveSInv
<1>2. CASE ~NeedsSave
  <2>1. /\ switch' = {[kind |-> "publish", at |-> "sent", mounted |-> TRUE]}
        /\ UNCHANGED <<draft, strays, flowStatus, detailOf, inStudio, screen, orphaned,
                       lastSaved, armed, saveState, draftPuts, smudge>>
    BY <1>2 DEF Publish, Asked, flowVars, localVars
  <2>2. AtMostOne(switch')
    BY <2>1, OneOrNone
  <2> QED BY <2>1, <2>2, AsideSInv DEF SInv, STypes
<1> QED BY <1>1, <1>2

LEMMA SwitchSInv ==
    ASSUME SInv,
           \/ DropDetail \/ Unpublish
           \/ \E k \in switch : SwitchStatus(k) \/ SwitchSucceeds(k) \/ SwitchFails(k)
    PROVE  SInv'
<1>1. CASE DropDetail
  <2>1. /\ detailOf' = {} /\ switch' = switch
        /\ UNCHANGED <<draft, strays, flowStatus, inStudio, screen, orphaned, lastSaved,
                       armed, saveState, draftPuts, smudge>>
    BY <1>1 DEF DropDetail, flowVars, localVars
  <2>2. AtMostOne(detailOf') /\ detailOf' \subseteq Details
    BY <2>1, OneOrNone
  <2> QED BY <2>1, <2>2, AsideSInv DEF SInv, STypes
<1>2. CASE Unpublish
  <2>1. /\ switch' = {[kind |-> "unpublish", at |-> "sent", mounted |-> TRUE]}
        /\ UNCHANGED <<draft, strays, flowStatus, detailOf, inStudio, screen, orphaned,
                       lastSaved, armed, saveState, draftPuts, smudge>>
    BY <1>2 DEF Unpublish, flowVars, localVars
  <2>2. AtMostOne(switch')
    BY <2>1, OneOrNone
  <2> QED BY <2>1, <2>2, AsideSInv DEF SInv, STypes
<1>3. ASSUME NEW k \in switch, SwitchStatus(k) \/ SwitchSucceeds(k) \/ SwitchFails(k) PROVE SInv'
  <2>1. /\ switch' = {[k EXCEPT !.at = "switched"]} \/ switch' = {}
        /\ flowStatus' \in {"active", "paused"} \/ flowStatus' = flowStatus
        /\ UNCHANGED <<draft, strays, detailOf, inStudio, screen, orphaned, lastSaved,
                       armed, saveState, draftPuts, smudge>>
    BY <1>3 DEF SwitchStatus, SwitchSucceeds, SwitchFails, flowVars, localVars
  <2>2. AtMostOne(switch')
    BY <2>1, OneOrNone
  <2>3. AtMostOne(detailOf') /\ detailOf' \subseteq Details
        /\ flowStatus' \in {"draft", "active", "paused"}
    BY <2>1 DEF SInv, STypes
  <2> QED BY <2>1, <2>2, <2>3, AsideSInv
<1> QED BY <1>1, <1>2, <1>3

LEMMA SInvNext == SInv /\ [StudioNext]_studioVars => SInv'
<1> SUFFICES ASSUME SInv, [StudioNext]_studioVars PROVE SInv'
  OBVIOUS
<1> USE DEF StudioNext
<1>1. CASE OpenStudio
  BY <1>1, OpenSInv
<1>2. CASE LandDetailOf
  BY <1>2, LandSInv
<1>3. CASE LeaveStudio
  BY <1>3, LeaveSInv
<1>4. CASE \E v \in Versions : EditForm(v)
  BY <1>4, EditSInv
<1>5. CASE Autosave
  <2>1. SaveForm(FALSE) /\ NeedsSave /\ armed' = FALSE /\ switch' = switch
    BY <1>5 DEF Autosave
  <2>2. AtMostOne(switch')
    BY <2>1 DEF SInv, STypes
  <2> QED BY <2>1, <2>2, SaveSInv
<1>6. CASE AutosaveIdle
  BY <1>6, IdleSInv
<1>7. CASE SaveButton
  <2>1. SaveForm(FALSE) /\ NeedsSave /\ armed' = armed /\ switch' = switch
    BY <1>7 DEF SaveButton
  <2>2. AtMostOne(switch')
    BY <2>1 DEF SInv, STypes
  <2> QED BY <2>1, <2>2, SaveSInv
<1>8. CASE Publish
  BY <1>8, PublishSInv
<1>9. ASSUME NEW p \in draftPuts, ApplyPut(p) \/ PutSucceeds(p) \/ PutFails(p) PROVE SInv'
  BY <1>9, ApplySInv, SucceedsSInv, FailsSInv
<1>10. CASE \/ DropDetail \/ Unpublish
            \/ \E k \in switch : SwitchStatus(k) \/ SwitchSucceeds(k) \/ SwitchFails(k)
  BY <1>10, SwitchSInv
<1>11. CASE UNCHANGED studioVars
  <2>1. UNCHANGED <<draft, strays, flowStatus, detailOf, inStudio, screen, orphaned, lastSaved,
                    armed, saveState, draftPuts, switch, smudge>>
    BY <1>11 DEF studioVars
  <2> QED BY <2>1, AsideSInv DEF SInv, STypes
<1> QED BY <1>1, <1>2, <1>3, <1>4, <1>5, <1>6, <1>7, <1>8, <1>9, <1>10, <1>11

\* What the studio calls saved is stored, whatever the number of contents, as
\* long as no two saves overlapped, no edit was taken back under a save, no
\* answer was lost and the studio was filled from a detail that was true.
THEOREM SavedIsStored == StudioSpec => []StudioInv
<1>1. SInv /\ [StudioNext]_studioVars => SInv'
  BY SInvNext
<1> QED BY SInvInit, SInvImplies, <1>1, PTL DEF StudioSpec
-----------------------------------------------------------------------------
(* The screens.                                                            *)

\* The data of a query, or what a fetch read: nothing, or one set of writes lacked.
OneCell(c) == c = {} \/ \E m \in SUBSET Names : c = {m}

CCache ==
    /\ held \in [Keys -> SUBSET SUBSET Names] /\ \A k \in Keys : OneCell(held[k])
    /\ reads \in [Keys -> SUBSET SUBSET Names] /\ \A k \in Keys : OneCell(reads[k])
    /\ due \subseteq Keys /\ inError \subseteq Keys

CScreen == at \in Screens /\ focus \subseteq at.acts

Request == [no : 0 .. MaxSent, act : at.acts, row : Rows \cup {0}, at : {"sent", "applied"},
            current : BOOLEAN, here : BOOLEAN]
CJobs ==
    /\ jobs \subseteq Request /\ \A j \in jobs : (j.current => j.here) /\ j.no \in 0 .. sends
    /\ sends \in 0 .. MaxSent

CControls ==
    /\ latest \in [Names -> SUBSET (Rows \cup {0})] /\ \A a \in at.acts : latest[a.name] \subseteq RowsOfAct(a)
    /\ armedFor = {} \/ \E x : armedFor = {x}
    /\ again \subseteq Names

\* A control of the screen itself that is disabled while it is pending has one
\* request of this stay under way at most, and its hook knows of it.
Guarded(a) == a.name \in a.busy /\ a.home = "screen"
OwnJobKnown ==
    \A j \in jobs : Guarded(j.act) /\ j.here =>
        /\ j.current /\ latest[j.act.name] = {j.row}
        /\ \A i \in jobs : i.act = j.act /\ i.here => i = j

CInv == CScreen /\ CCache /\ CJobs /\ CControls /\ OwnJobKnown /\ SentOnce

\* The screen stays.
LEMMA SameScreen == ASSUME at' = at PROVE Keys' = Keys /\ Names' = Names
  BY DEF Keys, Names


LEMMA StayingScreen ==
    ASSUME CScreen, UNCHANGED <<at, focus>>
    PROVE  CScreen'
  BY DEF CScreen

\* What does not touch the mutations, or the cache, leaves its part of the invariant.
LEMMA IdleJobs ==
    ASSUME CInv, UNCHANGED <<at, focus, jobVars>>
    PROVE  CScreen' /\ CJobs' /\ CControls' /\ OwnJobKnown' /\ SentOnce'
  BY SameScreen DEF CInv, CScreen, CJobs, Request, CControls, OwnJobKnown, SentOnce, jobVars, RowsOfAct
LEMMA IdleCache ==
    ASSUME CInv, UNCHANGED <<at, focus, cacheVars>>
    PROVE  CScreen' /\ CCache'
  BY SameScreen DEF CInv, CScreen, CCache, cacheVars, OneCell

LEMMA CStartFetch == ASSUME NEW k \in Keys, CInv, StartFetch(k) PROVE CInv'
<1>1. CCache'
  BY SameScreen DEF CInv, CCache, OneCell, StartFetch
<1> QED
  BY <1>1, IdleJobs DEF StartFetch, CInv

LEMMA CLandFetch == ASSUME NEW k \in Keys, CInv, LandFetch(k) PROVE CInv'
<1>1. CCache'
  BY SameScreen DEF CInv, CCache, OneCell, LandFetch
<1> QED
  BY <1>1, IdleJobs DEF LandFetch, CInv

LEMMA CFetchFails == ASSUME NEW k \in Keys, CInv, FetchFails(k) PROVE CInv'
<1>1. CCache'
  BY SameScreen DEF CInv, CCache, OneCell, FetchFails
<1> QED
  BY <1>1, IdleJobs DEF FetchFails, CInv

LEMMA CArmControl ==
    ASSUME NEW a \in focus, NEW r \in RowsOfAct(a), CInv, ArmControl(a, r)
    PROVE  CInv'
<1>1. CJobs' /\ CControls' /\ OwnJobKnown' /\ SentOnce'
  BY SameScreen DEF CInv, CJobs, Request, CControls, OwnJobKnown, SentOnce, ArmControl, RowsOfAct
<1> QED
  BY <1>1, IdleCache DEF ArmControl, CInv

\* Names tell the acts of a screen apart, and an act that is not guarded is a
\* known gap.
LEMMA ActsOfScreen ==
    ASSUME CScreen
    PROVE  \A a \in at.acts : /\ a.name \in Names
                              /\ \A b \in at.acts : a.name = b.name => a = b
                              /\ Guarded(a) \/ <<at.name, a.name>> \in Doubled
  BY ConsoleAssumption DEF CScreen, Names, Guarded

LEMMA CSendAct ==
    ASSUME NEW a \in focus, NEW r \in RowsOfAct(a), CInv, SendAct(a, r)
    PROVE  CInv'
<1> DEFINE new == [no |-> Number(a, r), act |-> a, row |-> r, at |-> "sent", current |-> TRUE, here |-> TRUE]
<1>1. a \in at.acts /\ r \in Rows \cup {0} /\ {r} \subseteq RowsOfAct(a)
  BY DEF CInv, CScreen, RowsOfAct
<1>2. CScreen' /\ CCache'
  BY IdleCache DEF SendAct, cacheVars
<1>3. Guarded(a) => \A j \in jobs : j.act = a => ~j.here
  BY <1>1 DEF CInv, OwnJobKnown, Guarded, SendAct, Disabled
<1>4. sends' = sends + 1 /\ sends' \in 0 .. MaxSent /\ sends \in Nat
  <2>1. Bound = MaxSent \/ Bound = MaxSent - 1
    BY DEF Bound
  <2>2. sends < Bound /\ sends' = sends + 1 /\ sends \in 0 .. MaxSent /\ MaxSent \in Nat
    BY ConsoleAssumption DEF CInv, CJobs, SendAct
  <2> QED
    BY <2>1, <2>2
<1>5. new \in Request /\ new.no \in 0 .. sends' /\ new.here /\ new.current /\ new.act = a /\ new.row = r
  <2>1. Number(a, r) \in 0 .. sends' /\ Number(a, r) \in 0 .. MaxSent
    <3>1. Number(a, r) = 0 \/ Number(a, r) = sends + 1
      BY DEF Number
    <3> QED
      BY <1>4, <3>1, ConsoleAssumption
  <2> QED
    BY <1>1, <2>1 DEF Request
<1>6. \A j \in jobs : /\ [j EXCEPT !.current = FALSE] \in Request
                       /\ [j EXCEPT !.current = FALSE].no = j.no
                       /\ [j EXCEPT !.current = FALSE].act = j.act
                       /\ [j EXCEPT !.current = FALSE].here = j.here
                       /\ ~[j EXCEPT !.current = FALSE].current
  BY DEF CInv, CJobs, Request
<1>7. \A i \in jobs' :
         \/ i = new
         \/ i \in jobs /\ i.act # a
         \/ \E j \in jobs : i = [j EXCEPT !.current = FALSE] /\ j.act = a
  BY DEF SendAct
<1> HIDE DEF new
<1>8. CJobs'
  <2>1. ASSUME NEW i \in jobs' PROVE i \in Request /\ (i.current => i.here) /\ i.no \in 0 .. sends'
    <3>1. \A j \in jobs : j \in Request /\ (j.current => j.here) /\ j.no \in 0 .. sends'
      BY <1>4 DEF CInv, CJobs
    <3> QED
      BY <1>5, <1>6, <1>7, <3>1
  <2>2. at' = at
    BY DEF SendAct
  <2> QED
    BY <1>4, <2>1, <2>2 DEF CJobs, Request
<1>9. CControls'
  <2>1. latest' \in [Names -> SUBSET (Rows \cup {0})] /\ \A b \in at.acts : latest'[b.name] \subseteq RowsOfAct(b)
    BY <1>1, ActsOfScreen DEF CInv, CControls, SendAct
  <2>2. again' \subseteq Names
    BY <1>1, ActsOfScreen DEF CInv, CControls, SendAct
  <2> QED
    BY <2>1, <2>2, SameScreen DEF CInv, CControls, SendAct, RowsOfAct
<1>10. OwnJobKnown'
  <2> SUFFICES ASSUME NEW i \in jobs', Guarded(i.act), i.here
               PROVE  /\ i.current /\ latest'[i.act.name] = {i.row}
                      /\ \A o \in jobs' : o.act = i.act /\ o.here => o = i
    BY DEF OwnJobKnown
  <2>1. \A o \in jobs' : (o.act = a /\ o.here /\ Guarded(a)) => o = new
    BY <1>3, <1>6, <1>7
  <2>2. CASE i = new
    BY <2>1, <2>2, <1>1, <1>5, ActsOfScreen DEF SendAct, CInv, CControls
  <2>3. CASE i \in jobs /\ i.act # a
    <3>1. i.act \in at.acts /\ i.act.name # a.name
      BY <2>3, <1>1, ActsOfScreen DEF CInv, CJobs, Request
    <3>2. latest'[i.act.name] = latest[i.act.name]
      <4>1. i.act.name \in Names /\ latest' = [latest EXCEPT ![a.name] = {r}] /\ latest \in [Names -> SUBSET (Rows \cup {0})]
        BY <3>1, ActsOfScreen DEF SendAct, CInv, CControls
      <4> QED
        BY <3>1, <4>1
    <3>3. \A o \in jobs' : o.act = i.act => o \in jobs
      <4>1. \A j \in jobs : [j EXCEPT !.current = FALSE].act = j.act
        BY <1>6
      <4> QED
        BY <2>3, <1>5, <1>7, <4>1
    <3> QED
      BY <2>3, <3>2, <3>3 DEF CInv, OwnJobKnown
  <2>4. CASE i.act = a
    BY <2>1, <2>2, <2>4
  <2> QED
    <3>1. (\E j \in jobs : i = [j EXCEPT !.current = FALSE] /\ j.act = a) => i.act = a
      BY <1>6
    <3> QED
      BY <2>2, <2>3, <2>4, <3>1, <1>7
<1>11. SentOnce'
  <2>1. Guarded(a) => again' = again
    BY <1>3 DEF SendAct, InFlight
  <2> QED
    BY <1>1, <2>1, ActsOfScreen DEF CInv, SentOnce, SendAct
<1> QED
  BY <1>2, <1>8, <1>9, <1>10, <1>11 DEF CInv

\* A dialog opened again takes the hooks of its own acts along, which are none
\* of the screen's.
LEMMA CReopen == ASSUME NEW home, CInv, Reopen(home) PROVE CInv'
<1> DEFINE inside == {a.name : a \in {a \in at.acts : a.home = home}}
<1>1. /\ home # "screen" /\ latest' = [n \in Names |-> IF n \in inside THEN {} ELSE latest[n]]
      /\ jobs' = {IF j.act.name \in inside THEN [j EXCEPT !.current = FALSE] ELSE j : j \in jobs}
      /\ UNCHANGED <<at, focus, cacheVars, armedFor, sends, again>>
  BY DEF Reopen
<1>2. \A a \in at.acts : Guarded(a) => a.name \notin inside
  BY <1>1, ActsOfScreen DEF CInv, Guarded
<1>3. \A j \in jobs : j \in Request /\ j.act \in at.acts
  BY DEF CInv, CJobs, Request
<1>4. \A j \in jobs : [j EXCEPT !.current = FALSE] \in Request /\ [j EXCEPT !.current = FALSE].act = j.act
                      /\ [j EXCEPT !.current = FALSE].no = j.no /\ ~[j EXCEPT !.current = FALSE].current
  BY <1>3 DEF Request
<1> HIDE DEF inside
<1>5. \A i \in jobs' : \/ i \in jobs
                        \/ \E j \in jobs : i = [j EXCEPT !.current = FALSE] /\ j.act.name \in inside
  BY <1>1
<1>6. CScreen' /\ CCache'
  BY <1>1, IdleCache
<1>7. CJobs'
  <2>1. \A i \in jobs' : i \in Request /\ (i.current => i.here) /\ i.no \in 0 .. sends
    BY <1>3, <1>4, <1>5 DEF CInv, CJobs
  <2> QED
    BY <1>1, <2>1 DEF CInv, CJobs, Request
<1>8. CControls'
  <2>1. /\ latest' \in [Names -> SUBSET (Rows \cup {0})]
        /\ \A n \in Names : latest'[n] = latest[n] \/ latest'[n] = {}
    BY <1>1 DEF CInv, CControls
  <2> QED
    BY <1>1, <2>1, SameScreen, ActsOfScreen DEF CInv, CControls, RowsOfAct
<1>9. OwnJobKnown'
  <2> SUFFICES ASSUME NEW i \in jobs', Guarded(i.act), i.here
               PROVE  /\ i.current /\ latest'[i.act.name] = {i.row}
                      /\ \A o \in jobs' : o.act = i.act /\ o.here => o = i
    BY DEF OwnJobKnown
  <2>1. \A o \in jobs' : Guarded(o.act) => o \in jobs
    BY <1>2, <1>3, <1>4, <1>5
  <2>2. latest'[i.act.name] = latest[i.act.name]
    BY <1>1, <1>2, <1>3, <2>1, ActsOfScreen DEF CInv
  <2> QED
    BY <2>1, <2>2 DEF CInv, OwnJobKnown
<1> QED
  BY <1>1, <1>6, <1>7, <1>8, <1>9 DEF CInv, SentOnce

LEMMA CReenter == ASSUME CInv, Reenter PROVE CInv'
<1>1. \A j \in jobs : [j EXCEPT !.current = FALSE, !.here = FALSE] \in Request
                      /\ [j EXCEPT !.current = FALSE, !.here = FALSE].no = j.no
                      /\ ~[j EXCEPT !.current = FALSE, !.here = FALSE].current
                      /\ ~[j EXCEPT !.current = FALSE, !.here = FALSE].here
  BY DEF CInv, CJobs, Request
<1>2. \A i \in jobs' : i \in Request /\ ~i.current /\ ~i.here /\ i.no \in 0 .. sends
  BY <1>1 DEF Reenter, CInv, CJobs
<1>3. CScreen' /\ CCache'
  BY IdleCache DEF Reenter
<1>4. CJobs'
  <2>1. at' = at /\ sends' = sends
    BY DEF Reenter
  <2> QED
    BY <1>2, <2>1 DEF CInv, CJobs, Request
<1>5. OwnJobKnown' /\ SentOnce'
  BY <1>2 DEF CInv, OwnJobKnown, SentOnce, Reenter
<1>6. CControls'
  <2>1. latest' \in [Names -> SUBSET (Rows \cup {0})] /\ \A a \in at.acts : latest'[a.name] = {}
    BY ActsOfScreen DEF CInv, Reenter
  <2> QED
    BY <2>1, SameScreen DEF CInv, CControls, Reenter, RowsOfAct
<1> QED
  BY <1>3, <1>4, <1>5, <1>6 DEF CInv

LEMMA LackingTyped ==
    ASSUME NEW a \in at.acts, NEW f \in [Keys -> SUBSET SUBSET Names], \A k \in Keys : OneCell(f[k])
    PROVE  Lacking(f, a) \in [Keys -> SUBSET SUBSET Names] /\ \A k \in Keys : OneCell(Lacking(f, a)[k])
<1>1. a.name \in Names
  BY DEF Names
<1>2. ASSUME NEW k \in Keys, NEW c, c = {m \cup {a.name} : m \in f[k]} PROVE c \in SUBSET SUBSET Names /\ OneCell(c)
  <2>1. CASE f[k] = {}
    BY <1>2, <2>1 DEF OneCell
  <2>2. ASSUME NEW m \in SUBSET Names, f[k] = {m} PROVE c \in SUBSET SUBSET Names /\ OneCell(c)
    <3>1. c = {m \cup {a.name}} /\ m \cup {a.name} \in SUBSET Names
      BY <1>1, <1>2, <2>2
    <3> QED
      BY <3>1 DEF OneCell
  <2> QED
    BY <2>1, <2>2 DEF OneCell
<1>3. \A k \in Keys : /\ Lacking(f, a)[k] = f[k] \/ Lacking(f, a)[k] = {m \cup {a.name} : m \in f[k]}
                      /\ f[k] \in SUBSET SUBSET Names
  BY DEF Lacking
<1>4. \A k \in Keys : Lacking(f, a)[k] \in SUBSET SUBSET Names /\ OneCell(Lacking(f, a)[k])
  BY <1>2, <1>3
<1>5. Lacking(f, a) = [k \in Keys |-> Lacking(f, a)[k]]
  BY DEF Lacking
<1> QED
  BY <1>4, <1>5

LEMMA CApplyAct == ASSUME NEW j \in jobs, CInv, ApplyAct(j) PROVE CInv'
<1>1. j.act \in at.acts
  BY DEF CInv, CJobs, Request
<1>2. CCache'
  <2>1. /\ held' \in [Keys -> SUBSET SUBSET Names] /\ \A k \in Keys : OneCell(held'[k])
        /\ reads' \in [Keys -> SUBSET SUBSET Names] /\ \A k \in Keys : OneCell(reads'[k])
    BY <1>1, LackingTyped DEF CInv, CCache, ApplyAct
  <2> QED
    BY <2>1, SameScreen DEF CInv, CCache, OneCell, ApplyAct
<1>3. CScreen' /\ CJobs'
  BY DEF CInv, CScreen, CJobs, Request, ApplyAct
<1>4. CControls'
  BY SameScreen DEF CInv, CControls, ApplyAct, RowsOfAct
<1>5. [j EXCEPT !.at = "applied"].act = j.act /\ [j EXCEPT !.at = "applied"].row = j.row
      /\ [j EXCEPT !.at = "applied"].current = j.current /\ [j EXCEPT !.at = "applied"].here = j.here
  BY DEF CInv, CJobs, Request
<1>6. OwnJobKnown'
  <2> DEFINE applied == [j EXCEPT !.at = "applied"]
  <2>1. jobs' = (jobs \ {j}) \cup {applied} /\ latest' = latest
    BY DEF ApplyAct
  <2>2. applied.act = j.act /\ applied.row = j.row /\ applied.current = j.current /\ applied.here = j.here
    BY <1>5
  <2> HIDE DEF applied
  <2> QED
    BY <2>1, <2>2 DEF CInv, OwnJobKnown
<1> QED
  BY <1>2, <1>3, <1>4, <1>6 DEF CInv, SentOnce, ApplyAct

\* An answer leaves the hooks of the other acts alone.
LEMMA AnswerLeavesOthers ==
    ASSUME NEW j \in jobs, CInv, jobs' = jobs \ {j}, latest' = AfterAnswer(j), at' = at
    PROVE  /\ OwnJobKnown'
           /\ latest' \in [Names -> SUBSET (Rows \cup {0})]
           /\ \A a \in at.acts : latest'[a.name] \subseteq RowsOfAct(a)
<1>1. j.act \in at.acts /\ j.act.name \in Names
  BY ActsOfScreen DEF CInv, CJobs, Request
<1>2. /\ latest' \in [Names -> SUBSET (Rows \cup {0})]
      /\ \A n \in Names : latest'[n] = latest[n] \/ (n = j.act.name /\ latest'[n] = {} /\ j.current)
  BY <1>1 DEF CInv, CControls, AfterAnswer
<1>3. \A a \in at.acts : latest'[a.name] \subseteq RowsOfAct(a)
  BY <1>2, ActsOfScreen DEF CInv, CControls
<1>4. ASSUME NEW i \in jobs', Guarded(i.act), i.here
      PROVE  i.current /\ latest'[i.act.name] = {i.row} /\ \A o \in jobs' : o.act = i.act /\ o.here => o = i
  <2>1. i \in jobs /\ i # j /\ i.act \in at.acts /\ i.act.name \in Names
    BY <1>4, ActsOfScreen DEF CInv, CJobs, Request
  <2>2. i.act.name = j.act.name => ~j.current
    BY <1>1, <1>4, <2>1, ActsOfScreen DEF CInv, CJobs, OwnJobKnown
  <2> QED
    BY <1>2, <1>4, <2>1, <2>2 DEF CInv, OwnJobKnown
<1> QED
  BY <1>2, <1>3, <1>4 DEF OwnJobKnown

LEMMA CActSucceeds == ASSUME NEW j \in jobs, CInv, ActSucceeds(j) PROVE CInv'
<1>1. CCache'
  <2>1. reads' \in [Keys -> SUBSET SUBSET Names] /\ \A k \in Keys : OneCell(reads'[k])
    BY DEF CInv, CCache, ActSucceeds, Announce, OneCell
  <2> QED
    BY <2>1, SameScreen DEF CInv, CCache, OneCell, ActSucceeds, Announce
<1>2. OwnJobKnown' /\ CControls'
  BY AnswerLeavesOthers, SameScreen DEF CInv, CControls, ActSucceeds, RowsOfAct
<1> QED
  BY <1>1, <1>2 DEF CInv, CScreen, CJobs, Request, SentOnce, ActSucceeds

LEMMA CActFails == ASSUME NEW j \in jobs, CInv, ActFails(j) PROVE CInv'
<1>1. CScreen' /\ CCache'
  BY IdleCache DEF ActFails, cacheVars
<1>2. OwnJobKnown' /\ CControls'
  BY AnswerLeavesOthers, SameScreen DEF CInv, CControls, ActFails, RowsOfAct
<1> QED
  BY <1>1, <1>2 DEF CInv, CJobs, Request, SentOnce, ActFails

\* As long as its screen is not left, no control sends a request that is under
\* way again, whatever the screen's acts, refetches and failures are and however
\* they interleave, but for those the screen does not guard: their control
\* stays enabled or is in a dialog that can be closed meanwhile.
THEOREM NothingIsSentTwice == ConsoleSpec => []ConsoleInv
<1>1. ConsoleInit => CInv
  <2> SUFFICES ASSUME ConsoleInit PROVE CInv
    OBVIOUS
  <2>1. due \subseteq Keys /\ focus \subseteq at.acts
    BY DEF ConsoleInit
  <2>2. CCache
    BY <2>1 DEF ConsoleInit, CCache, OneCell
  <2>3. CControls
    BY ActsOfScreen, <2>1 DEF ConsoleInit, CControls, CScreen
  <2>4. CJobs /\ OwnJobKnown /\ SentOnce
    BY ConsoleAssumption DEF ConsoleInit, CJobs, OwnJobKnown, SentOnce
  <2> QED
    BY <2>1, <2>2, <2>3, <2>4 DEF ConsoleInit, CInv, CScreen
<1>2. CInv /\ [ConsoleNext]_consoleVars => CInv'
  <2> SUFFICES ASSUME CInv, [ConsoleNext]_consoleVars PROVE CInv'
    OBVIOUS
  <2>1. CASE UNCHANGED consoleVars
    <3>1. CScreen' /\ CJobs' /\ CControls' /\ OwnJobKnown' /\ SentOnce' /\ CCache'
      BY <2>1, IdleJobs, IdleCache DEF consoleVars, jobVars, cacheVars
    <3> QED
      BY <3>1 DEF CInv
  <2>2. ASSUME NEW k \in Keys, FetchDue(k) \/ LandFetch(k) \/ FetchFails(k) \/ Retry(k) PROVE CInv'
    BY <2>2, CStartFetch, CLandFetch, CFetchFails DEF FetchDue, Retry
  <2>3. ASSUME NEW q \in at.queries, Poll(q) PROVE CInv'
    BY <2>3, CStartFetch DEF Poll, Keys
  <2>4. ASSUME NEW a \in focus, NEW r \in RowsOfAct(a), ArmControl(a, r) \/ SendAct(a, r) PROVE CInv'
    BY <2>4, CArmControl, CSendAct
  <2>6. ASSUME NEW home, Reopen(home) PROVE CInv'
    BY <2>6, CReopen
  <2>7. CASE Reenter
    BY <2>7, CReenter
  <2>5. ASSUME NEW j \in jobs, ApplyAct(j) \/ ActSucceeds(j) \/ ActFails(j) PROVE CInv'
    BY <2>5, CApplyAct, CActSucceeds, CActFails
  <2> QED
    BY <2>1, <2>2, <2>3, <2>4, <2>5, <2>6, <2>7 DEF ConsoleNext
<1>3. CInv => ConsoleInv
  <2> SUFFICES ASSUME CInv PROVE ConsoleInv
    OBVIOUS
  <2>1. \A k \in Keys : Cardinality(held[k]) <= 1 /\ Cardinality(reads[k]) <= 1
    <3>1. ASSUME NEW c, OneCell(c) PROVE Cardinality(c) <= 1
      <4>1. CASE c = {}
        BY <4>1, FS_EmptySet
      <4>2. ASSUME NEW m, c = {m} PROVE Cardinality(c) <= 1
        <5>1. Cardinality({m}) = 1
          BY FS_Singleton
        <5> QED
          BY <4>2, <5>1
      <4> QED
        BY <3>1, <4>1, <4>2 DEF OneCell
    <3> QED
      BY <3>1 DEF CInv, CCache
  <2>2. Cardinality(armedFor) <= 1
    <3>1. CASE armedFor = {}
      BY <3>1, FS_EmptySet
    <3>2. ASSUME NEW x, armedFor = {x} PROVE Cardinality(armedFor) <= 1
      BY <3>2, FS_Singleton
    <3> QED
      BY <3>1, <3>2 DEF CInv, CControls
  <2>3. \A j \in jobs : j.act \in at.acts /\ j.at \in {"sent", "applied"} /\ j.no \in 0 .. sends
    BY DEF CInv, CJobs, Request
  <2> QED
    BY <2>1, <2>2, <2>3 DEF CInv, CScreen, CCache, CJobs, CControls, ConsoleInv, ConsoleTypeOK
<1> QED
  BY <1>1, <1>2, <1>3, PTL DEF ConsoleSpec

-----------------------------------------------------------------------------
(* The bubbles of a conversation. *)

OneView(q) == q = {} \/ \E v \in View : q = {v}

OTypes ==
    /\ opened \in 0 .. MaxOpens /\ threadOpen \in BOOLEAN
    /\ OneView(bubbles) /\ OneView(bubblePoll)
    /\ verdict \in {"polling", "final"}
    /\ inFlight \subseteq [reply : Replies, by : Nat \ {0}, previous : SUBSET View, at : {"posted", "stored"}]
    /\ \A m \in inFlight : OneView(m.previous)
    /\ delivered \subseteq Replies /\ failed \subseteq Replies /\ overlapped \in BOOLEAN

\* Unless two overlapped, one reply is in flight.
OneReply ==
    /\ threadOpen => opened >= 1
    /\ ~overlapped => \A m, n \in inFlight : m = n

\* Every row that is not the server's was sent: it was delivered, it failed or
\* it is in flight; the snapshot is older than the reply it was taken for.
RowsWereSent ==
    /\ \A m \in inFlight : m.at = "stored" => m.reply \in delivered
    /\ ~overlapped => \A b \in bubbles : \A r \in b.opt : r \in delivered \cup failed \/ \E m \in inFlight : m.reply = r
    /\ \A b \in bubblePoll : b.opt = {}

SnapshotsAreOlder ==
    ~overlapped =>
        \A m \in inFlight : /\ m.reply \notin failed
                            /\ \A b \in m.previous : /\ b.opt \subseteq delivered \cup failed /\ b.opt \cap failed = {}
                                                     /\ m.reply \notin b.opt

OInv == OTypes /\ OneReply /\ RowsWereSent /\ SnapshotsAreOlder /\ BubblesAreBacked

LEMMA OOpenBubbles ==
    ASSUME OInv, OpenBubbles
    PROVE  OInv'
<1>1. OTypes'
  BY OptimismAssumption DEF OInv, OTypes, OneView, View, OneReply, OpenBubbles
<1>2. OneReply'
  BY OptimismAssumption DEF OInv, OneReply, OTypes, OpenBubbles
<1>3. RowsWereSent'
  BY DEF OInv, RowsWereSent, OneReply, OTypes, OneView, View, SnapshotsAreOlder, OpenBubbles
<1>4. SnapshotsAreOlder'
  BY DEF OInv, SnapshotsAreOlder, RowsWereSent, OneReply, OTypes, BubblesAreBacked, OpenBubbles
<1>5. BubblesAreBacked'
  BY DEF OInv, BubblesAreBacked, OneReply, RowsWereSent, SnapshotsAreOlder, OTypes, OneView, View, OpenBubbles
<1> QED
  BY <1>1, <1>2, <1>3, <1>4, <1>5 DEF OInv

LEMMA OLeaveBubbles ==
    ASSUME OInv, LeaveBubbles
    PROVE  OInv'
<1>1. OTypes'
  BY OptimismAssumption DEF OInv, OTypes, OneView, View, OneReply, LeaveBubbles
<1>2. OneReply'
  BY OptimismAssumption DEF OInv, OneReply, OTypes, LeaveBubbles
<1>3. RowsWereSent'
  BY DEF OInv, RowsWereSent, OneReply, OTypes, OneView, View, SnapshotsAreOlder, LeaveBubbles
<1>4. SnapshotsAreOlder'
  BY DEF OInv, SnapshotsAreOlder, RowsWereSent, OneReply, OTypes, BubblesAreBacked, LeaveBubbles
<1>5. BubblesAreBacked'
  BY DEF OInv, BubblesAreBacked, OneReply, RowsWereSent, SnapshotsAreOlder, OTypes, OneView, View, LeaveBubbles
<1> QED
  BY <1>1, <1>2, <1>3, <1>4, <1>5 DEF OInv

LEMMA OPollBubbles ==
    ASSUME OInv, PollBubbles
    PROVE  OInv'
<1>1. OTypes'
  BY OptimismAssumption DEF OInv, OTypes, OneView, View, OneReply, PollBubbles, ServerView
<1>2. OneReply'
  BY OptimismAssumption DEF OInv, OneReply, OTypes, PollBubbles, ServerView
<1>3. RowsWereSent'
  BY DEF OInv, RowsWereSent, OneReply, OTypes, OneView, View, SnapshotsAreOlder, PollBubbles, ServerView
<1>4. SnapshotsAreOlder'
  BY DEF OInv, SnapshotsAreOlder, RowsWereSent, OneReply, OTypes, BubblesAreBacked, PollBubbles, ServerView
<1>5. BubblesAreBacked'
  BY DEF OInv, BubblesAreBacked, OneReply, RowsWereSent, SnapshotsAreOlder, OTypes, OneView, View, PollBubbles, ServerView
<1> QED
  BY <1>1, <1>2, <1>3, <1>4, <1>5 DEF OInv

LEMMA ORefreshBubbles ==
    ASSUME OInv, RefreshBubbles
    PROVE  OInv'
<1>1. OTypes'
  BY OptimismAssumption DEF OInv, OTypes, OneView, View, OneReply, RefreshBubbles, ServerView
<1>2. OneReply'
  BY OptimismAssumption DEF OInv, OneReply, OTypes, RefreshBubbles, ServerView
<1>3. RowsWereSent'
  BY DEF OInv, RowsWereSent, OneReply, OTypes, OneView, View, SnapshotsAreOlder, RefreshBubbles, ServerView
<1>4. SnapshotsAreOlder'
  BY DEF OInv, SnapshotsAreOlder, RowsWereSent, OneReply, OTypes, BubblesAreBacked, RefreshBubbles, ServerView
<1>5. BubblesAreBacked'
  BY DEF OInv, BubblesAreBacked, OneReply, RowsWereSent, SnapshotsAreOlder, OTypes, OneView, View, RefreshBubbles, ServerView
<1> QED
  BY <1>1, <1>2, <1>3, <1>4, <1>5 DEF OInv

LEMMA OLandBubbles ==
    ASSUME OInv, LandBubbles
    PROVE  OInv'
<1>1. OTypes'
  BY OptimismAssumption DEF OInv, OTypes, OneView, View, OneReply, LandBubbles
<1>2. OneReply'
  BY OptimismAssumption DEF OInv, OneReply, OTypes, LandBubbles
<1>3. RowsWereSent'
  BY DEF OInv, RowsWereSent, OneReply, OTypes, OneView, View, SnapshotsAreOlder, LandBubbles
<1>4. SnapshotsAreOlder'
  BY DEF OInv, SnapshotsAreOlder, RowsWereSent, OneReply, OTypes, BubblesAreBacked, LandBubbles
<1>5. BubblesAreBacked'
  BY DEF OInv, BubblesAreBacked, OneReply, RowsWereSent, SnapshotsAreOlder, OTypes, OneView, View, LandBubbles
<1> QED
  BY <1>1, <1>2, <1>3, <1>4, <1>5 DEF OInv

LEMMA OPollFails ==
    ASSUME NEW v \in {"polling", "final"}, OInv, PollFails(v)
    PROVE  OInv'
<1>1. OTypes'
  BY OptimismAssumption DEF OInv, OTypes, OneView, View, OneReply, PollFails
<1>2. OneReply'
  BY OptimismAssumption DEF OInv, OneReply, OTypes, PollFails
<1>3. RowsWereSent'
  BY DEF OInv, RowsWereSent, OneReply, OTypes, OneView, View, SnapshotsAreOlder, PollFails
<1>4. SnapshotsAreOlder'
  BY DEF OInv, SnapshotsAreOlder, RowsWereSent, OneReply, OTypes, BubblesAreBacked, PollFails
<1>5. BubblesAreBacked'
  BY DEF OInv, BubblesAreBacked, OneReply, RowsWereSent, SnapshotsAreOlder, OTypes, OneView, View, PollFails
<1> QED
  BY <1>1, <1>2, <1>3, <1>4, <1>5 DEF OInv

LEMMA OReply ==
    ASSUME NEW r \in Replies, OInv, Reply(r)
    PROVE  OInv'
<1>a. WithRow(r) \in SUBSET View /\ OneView(WithRow(r)) /\ (bubbles = {} => \A b \in WithRow(r) : b.opt = {r})
      /\ \A b \in WithRow(r) : r \in b.opt /\ (bubbles = {} \/ \E o \in bubbles : b.opt = o.opt \cup {r})
  <2>1. \E e \in View : /\ WithRow(r) = {e} /\ r \in e.opt
                        /\ (bubbles = {} /\ e.opt = {r}) \/ \E o \in bubbles : e.opt = o.opt \cup {r}
    <3>1. CASE bubbles = {}
      <4>1. WithRow(r) = {[out |-> {}, opt |-> {r}]}
        BY <3>1 DEF WithRow
      <4>2. [out |-> {}, opt |-> {r}] \in View
        BY DEF View
      <4> QED
        BY <3>1, <4>1, <4>2
    <3>2. ASSUME NEW v \in View, bubbles = {v}
          PROVE  \E e \in View : /\ WithRow(r) = {e} /\ r \in e.opt
                                 /\ \E o \in bubbles : e.opt = o.opt \cup {r}
      <4> DEFINE e == [v EXCEPT !.opt = @ \cup {r}]
      <4>1. e \in View /\ e.opt = v.opt \cup {r}
        BY DEF View
      <4>2. WithRow(r) = {e}
        BY <3>2 DEF WithRow
      <4> HIDE DEF e
      <4> QED
        BY <3>2, <4>1, <4>2
    <3> QED
      BY <3>1, <3>2 DEF OInv, OTypes, OneView
  <2>2. PICK e \in View : /\ WithRow(r) = {e} /\ r \in e.opt
                          /\ (bubbles = {} /\ e.opt = {r}) \/ \E o \in bubbles : e.opt = o.opt \cup {r}
    BY <2>1
  <2>3. OneView(WithRow(r)) /\ WithRow(r) \in SUBSET View
    BY <2>2 DEF OneView
  <2>4. ASSUME NEW b \in WithRow(r)
        PROVE  b = e
    BY <2>2, <2>4
  <2> QED
    BY <2>2, <2>3, <2>4
<1>1. OTypes'
  BY <1>a, OptimismAssumption DEF OInv, OTypes, OneView, View, OneReply, Reply, Replying
<1>2. OneReply'
  BY <1>a, OptimismAssumption DEF OInv, OneReply, OTypes, Reply, Replying
<1>3. RowsWereSent'
  <2>1. \A m \in inFlight' : m.at = "stored" => m.reply \in delivered'
    BY DEF OInv, RowsWereSent, Reply
  <2>2. \A b \in bubblePoll' : b.opt = {}
    BY DEF Reply
  <2>3. ASSUME ~overlapped, NEW b \in bubbles', NEW s \in b.opt
        PROVE  s \in delivered \cup failed \/ \E m \in inFlight' : m.reply = s
    <3>1. s = r \/ \E o \in bubbles : s \in o.opt
      BY <1>a, <2>3 DEF Reply
    <3>2. inFlight' = inFlight \cup {[reply |-> r, by |-> opened, previous |-> bubbles, at |-> "posted"]}
      BY DEF Reply
    <3>3. CASE s = r
      <4>1. [reply |-> r, by |-> opened, previous |-> bubbles, at |-> "posted"].reply = r
        OBVIOUS
      <4> QED
        BY <3>2, <3>3, <4>1
    <3>4. CASE \E o \in bubbles : s \in o.opt
      <4>1. s \in delivered \cup failed \/ \E m \in inFlight : m.reply = s
        BY <2>3, <3>4 DEF OInv, RowsWereSent
      <4> QED
        BY <3>2, <4>1
    <3> QED
      BY <3>1, <3>3, <3>4
  <2> QED
    BY <2>1, <2>2, <2>3 DEF RowsWereSent, Reply
<1>4. SnapshotsAreOlder'
  <2>1. ASSUME ~overlapped', NEW m \in inFlight'
        PROVE  /\ m.reply \notin failed'
               /\ \A b \in m.previous : /\ b.opt \subseteq delivered \cup failed /\ b.opt \cap failed = {}
                                        /\ m.reply \notin b.opt
    <3> DEFINE n == [reply |-> r, by |-> opened, previous |-> bubbles, at |-> "posted"]
    <3>1. inFlight = {} /\ ~overlapped /\ inFlight' = {n} /\ failed' = failed
      BY <2>1 DEF Reply
    <3>2. m = n /\ m.reply = r /\ m.previous = bubbles
      BY <3>1
    <3>3. r \notin delivered \cup failed
      BY DEF Reply
    <3> HIDE DEF n
    <3>4. ASSUME NEW b \in bubbles
          PROVE  b.opt \subseteq delivered \cup failed /\ b.opt \cap failed = {}
      BY <3>1 DEF OInv, RowsWereSent, BubblesAreBacked
    <3> QED
      BY <3>1, <3>2, <3>3, <3>4
  <2>2. delivered' = delivered /\ failed' = failed
    BY DEF Reply
  <2> QED
    BY <2>1, <2>2 DEF SnapshotsAreOlder
<1>5. BubblesAreBacked'
  <2>1. ASSUME ~overlapped', NEW b \in bubbles', NEW s \in b.opt
        PROVE  s \notin failed' /\ s \in delivered' \cup {m.reply : m \in inFlight'}
    <3>1. ~overlapped /\ failed' = failed /\ delivered' = delivered /\ bubbles' = WithRow(r)
      BY <2>1 DEF Reply
    <3>2. s = r \/ \E o \in bubbles : s \in o.opt
      BY <1>a, <2>1, <3>1
    <3>3. s \notin failed
      BY <3>1, <3>2 DEF OInv, BubblesAreBacked, Reply
    <3>4. s \in delivered \cup failed \/ \E m \in inFlight' : m.reply = s
      BY <1>3, <2>1, <3>1 DEF RowsWereSent
    <3> QED
      BY <3>1, <3>3, <3>4
  <2> QED
    BY <2>1 DEF BubblesAreBacked
<1> QED
  BY <1>1, <1>2, <1>3, <1>4, <1>5 DEF OInv

LEMMA ODeliverReply ==
    ASSUME NEW m \in inFlight, OInv, DeliverReply(m)
    PROVE  OInv'
<1>1. OTypes'
  BY OptimismAssumption DEF OInv, OTypes, OneView, View, OneReply, DeliverReply
<1>2. OneReply'
  BY OptimismAssumption DEF OInv, OneReply, OTypes, DeliverReply
<1>3. RowsWereSent'
  BY DEF OInv, RowsWereSent, OneReply, OTypes, OneView, View, SnapshotsAreOlder, DeliverReply
<1>4. SnapshotsAreOlder'
  BY DEF OInv, SnapshotsAreOlder, RowsWereSent, OneReply, OTypes, BubblesAreBacked, DeliverReply
<1>5. BubblesAreBacked'
  BY DEF OInv, BubblesAreBacked, OneReply, RowsWereSent, SnapshotsAreOlder, OTypes, OneView, View, DeliverReply
<1> QED
  BY <1>1, <1>2, <1>3, <1>4, <1>5 DEF OInv

LEMMA OReplySucceeds ==
    ASSUME NEW m \in inFlight, OInv, ReplySucceeds(m)
    PROVE  OInv'
<1>1. OTypes'
  BY OptimismAssumption DEF OInv, OTypes, OneView, View, OneReply, ReplySucceeds, ServerView
<1>2. OneReply'
  BY OptimismAssumption DEF OInv, OneReply, OTypes, ReplySucceeds, ServerView
<1>3. RowsWereSent'
  BY DEF OInv, RowsWereSent, OneReply, OTypes, OneView, View, SnapshotsAreOlder, ReplySucceeds, ServerView
<1>4. SnapshotsAreOlder'
  BY DEF OInv, SnapshotsAreOlder, RowsWereSent, OneReply, OTypes, BubblesAreBacked, ReplySucceeds, ServerView
<1>5. BubblesAreBacked'
  BY DEF OInv, BubblesAreBacked, OneReply, RowsWereSent, SnapshotsAreOlder, OTypes, OneView, View, ReplySucceeds, ServerView
<1> QED
  BY <1>1, <1>2, <1>3, <1>4, <1>5 DEF OInv

LEMMA RollbackIsOneView ==
    ASSUME OInv, NEW m \in inFlight
    PROVE  OneView(RolledBack(m))
<1>1. CASE m.previous # {}
  BY <1>1 DEF OInv, OTypes, RolledBack
<1>2. CASE m.previous = {} /\ bubbles = {}
  BY <1>2 DEF RolledBack, OneView
<1>3. ASSUME NEW v \in View, bubbles = {v}, m.previous = {} PROVE OneView(RolledBack(m))
  <2>1. RolledBack(m) = {[v EXCEPT !.opt = {}]} /\ [v EXCEPT !.opt = {}] \in View
    BY <1>3 DEF RolledBack, View
  <2> QED
    BY <2>1 DEF OneView
<1> QED
  BY <1>1, <1>2, <1>3 DEF OInv, OTypes, OneView

LEMMA OReplyFails ==
    ASSUME NEW m \in inFlight, OInv, ReplyFails(m)
    PROVE  OInv'
<1>1. OTypes'
  BY RollbackIsOneView DEF OInv, OTypes, ReplyFails, Restored
<1>2. OneReply'
  BY OptimismAssumption DEF OInv, OneReply, OTypes, ReplyFails, Restored, RolledBack
<1>3. RowsWereSent'
  BY DEF OInv, RowsWereSent, OneReply, OTypes, OneView, View, SnapshotsAreOlder, ReplyFails, Restored, RolledBack
<1>4. SnapshotsAreOlder'
  BY DEF OInv, SnapshotsAreOlder, RowsWereSent, OneReply, OTypes, BubblesAreBacked, ReplyFails, Restored, RolledBack
<1>5. BubblesAreBacked'
  BY DEF OInv, BubblesAreBacked, OneReply, RowsWereSent, SnapshotsAreOlder, OTypes, OneView, View, ReplyFails, Restored, RolledBack
<1> QED
  BY <1>1, <1>2, <1>3, <1>4, <1>5 DEF OInv


LEMMA OneViewCounts == ASSUME NEW q, OneView(q) PROVE q \subseteq View /\ Cardinality(q) <= 1
<1>1. CASE q = {}
  BY <1>1, FS_EmptySet
<1>2. ASSUME NEW v \in View, q = {v} PROVE q \subseteq View /\ Cardinality(q) <= 1
  BY <1>2, FS_Singleton
<1> QED
  BY <1>1, <1>2 DEF OneView

LEMMA BubblesInductive == OptimismSpec => []BubblesInv
<1>1. OptimismInit => OInv
  <2> SUFFICES ASSUME OptimismInit PROVE OInv
    OBVIOUS
  <2>1. OTypes
    <3>1. opened \in 0 .. MaxOpens
      BY OptimismAssumption DEF OptimismInit
    <3> QED
      BY <3>1 DEF OptimismInit, OTypes, OneView
  <2> QED
    BY <2>1 DEF OptimismInit, OInv, OneReply, RowsWereSent, SnapshotsAreOlder, BubblesAreBacked
<1>2. OInv /\ [OptimismNext]_optimismVars => OInv'
  <2> SUFFICES ASSUME OInv, [OptimismNext]_optimismVars PROVE OInv'
    OBVIOUS
  <2>1. CASE UNCHANGED optimismVars
    BY <2>1 DEF optimismVars, OInv, OTypes, OneView, View, OneReply, RowsWereSent, SnapshotsAreOlder, BubblesAreBacked
  <2>2. CASE OptimismNext
    BY <2>2, OOpenBubbles, OLeaveBubbles, OPollBubbles, ORefreshBubbles, OLandBubbles, OPollFails, OReply,
       ODeliverReply, OReplySucceeds, OReplyFails DEF OptimismNext
  <2> QED
    BY <2>1, <2>2
<1>3. OInv => BubblesInv
  BY OneViewCounts DEF OInv, OTypes, BubblesInv, OptimismTypeOK
<1> QED
  BY <1>1, <1>2, <1>3, PTL DEF OptimismSpec
-----------------------------------------------------------------------------
(* The list of conversations.                                              *)

\* A query's data, or what a fetch read: nothing, or one count.
OneCount(q) == q = {} \/ \E n \in 0 .. MaxUnread : q = {n}

LInv ==
    /\ search \in Terms /\ debounced \in Terms
    /\ lists \in [Terms -> SUBSET (0 .. MaxUnread)] /\ \A t \in Terms : OneCount(lists[t])
    /\ answers \in [Terms -> SUBSET (0 .. MaxUnread)] /\ \A t \in Terms : OneCount(answers[t])
    /\ listShown \subseteq Terms
    /\ unread \in 0 .. MaxUnread /\ marking \in Nat /\ marks \in 0 .. MaxMarks

LEMMA ListInductive == ListSpec => []ListTypeOK
<1>1. ListInit => LInv
  BY ListAssumption DEF ListInit, LInv, OneCount
<1>2. LInv /\ [ListNext]_listVars => LInv'
  <2> SUFFICES ASSUME LInv, [ListNext]_listVars PROVE LInv'
    OBVIOUS
  <2> USE DEF LInv
  <2>1. ASSUME NEW t \in Terms, TypeSearch(t) PROVE LInv'
    BY <2>1 DEF TypeSearch, OneCount
  <2>2. ASSUME NEW t \in Terms, LandList(t) PROVE LInv'
    BY <2>2 DEF LandList, OneCount
  <2>3. ASSUME NEW t \in Terms, ListFails(t) PROVE LInv'
    BY <2>3 DEF ListFails, OneCount
  <2>4. CASE SettleSearch
    BY <2>4 DEF SettleSearch, Placeholder, OneCount
  <2>5. CASE FetchList
    BY <2>5 DEF FetchList, OneCount
  <2>6. CASE OpenUnread
    <3>1. lists' \in [Terms -> SUBSET (0 .. MaxUnread)] /\ \A t \in Terms : OneCount(lists'[t])
      BY <2>6, ListAssumption DEF OpenUnread, ClearBadges, OneCount
    <3> QED
      BY <2>6, <3>1, ListAssumption DEF OpenUnread, OneCount
  <2>7. CASE CustomerMessage
    BY <2>7, ListAssumption DEF CustomerMessage, OneCount
  <2>8. ASSUME NEW a \in BOOLEAN, ReadMarked(a) PROVE LInv'
    BY <2>8, ListAssumption DEF ReadMarked, OneCount
  <2>9. CASE UNCHANGED listVars
    BY <2>9 DEF listVars, OneCount
  <2> QED
    BY <2>1, <2>2, <2>3, <2>4, <2>5, <2>6, <2>7, <2>8, <2>9 DEF ListNext
<1>3. LInv => ListTypeOK
  <2> SUFFICES ASSUME LInv, NEW q, OneCount(q) PROVE q \subseteq 0 .. MaxUnread /\ Cardinality(q) <= 1
    BY DEF LInv, ListTypeOK
  <2>1. CASE q = {}
    BY <2>1, FS_EmptySet
  <2>2. ASSUME NEW n \in 0 .. MaxUnread, q = {n} PROVE q \subseteq 0 .. MaxUnread /\ Cardinality(q) <= 1
    BY <2>2, FS_Singleton
  <2> QED
    BY <2>1, <2>2 DEF OneCount
<1> QED
  BY <1>1, <1>2, <1>3, PTL DEF ListSpec

\* Whatever polls, remounts, rollbacks and late failures cross, a bubble beyond
\* the server's rows is of a reply that is delivered or under way and of none
\* reported as failed, as long as no two replies overlap; and every list the
\* inbox holds is one answer of the server (the mutation and the queries of the
\* inbox page).
THEOREM InboxBubblesAreBacked == OptimismSpec /\ ListSpec => []InboxInv
  BY BubblesInductive, ListInductive, PTL DEF InboxInv

-----------------------------------------------------------------------------
(* The plan wizard.                                                        *)

\* What a plan costs is one price, when there is a plan.
LEMMA OnePrice ==
    ASSUME NEW src, NEW id
    PROVE  AtMostOne(PriceOf(Current(src, id)))
<1>1. CASE id \in Listed(src)
  <2>1. PriceOf(Current(src, id)) = {Price[src][id]}
    BY <1>1 DEF Current, PriceOf
  <2> QED
    BY <2>1 DEF AtMostOne
<1>2. CASE id \notin Listed(src)
  <2>1. PriceOf(Current(src, id)) = {}
    BY <1>2 DEF Current, PriceOf
  <2> QED
    BY <2>1 DEF AtMostOne
<1> QED
  BY <1>1, <1>2

\* The type invariant, with the one amount written without counting.
ZTypes ==
    /\ served \in ServerLists /\ source \in {"default", "server"} /\ wizard \in {"plan", "review"}
    /\ selected \in BuiltIn \cup served \cup {NoPlan}
    /\ AtMostOne(amount)
    /\ payOpen \in BOOLEAN /\ fetches \in 0 .. MaxFetches

\* What is selected was pressed last, or is what the link means: its own number
\* among the built-in plans, or the server's plan for it.
Wanted == selected = chosen \/ (link # NoPlan /\ selected \in {link} \cup Linked)

ZInv == ZTypes /\ Wanted /\ PaidPlanIsAsked /\ WalletPriceHolds

\* The dialog's amount after it is shown a plan.
LEMMA ShownAmount ==
    ASSUME AtMostOne(amount), NEW src, NEW id, Show(src, id)
    PROVE  AtMostOne(amount')
  BY OnePrice DEF Show, AmountAfter, AtMostOne

\* A step that leaves the server's list, the link and the request as they are
\* leaves what was said of the request true.
LEMMA RequestStands ==
    ASSUME ZInv, UNCHANGED <<served, link, payRequest>>
    PROVE  PaidPlanIsAsked' /\ WalletPriceHolds'
  BY DEF ZInv, PaidPlanIsAsked, WalletPriceHolds, Linked, AtPosition

\* A plan the link names is one of the server's; without one nothing is moved.
LEMMA ResolvedPlan ==
    /\ Resolve \in served \cup {selected}
    /\ Resolve = selected \/ (link # NoPlan /\ Resolve \in Linked)
<1>1. CASE Linked = {}
  BY <1>1 DEF Resolve
<1>2. CASE Linked # {}
  <2>1. Resolve \in Linked
    BY <1>2 DEF Resolve
  <2>2. link # NoPlan /\ Linked \subseteq served
    BY <1>2 DEF Linked, AtPosition
  <2> QED
    BY <2>1, <2>2
<1> QED
  BY <1>1, <1>2

\* A request that is sent is for the plan the dialog shows.
LEMMA SubmittedPlan ==
    ASSUME ZInv, NEW way \in {"wallet", "bank"}, SubmitPayment(way)
    PROVE  PaidPlanIsAsked' /\ WalletPriceHolds'
<1>1. PICK sum \in Sums(way) :
        payRequest' = {[plan |-> selected, way |-> way, sum |-> sum, shown |-> source, pressed |-> chosen,
                     accepted |-> Accepts(selected, way, sum)]}
  BY DEF SubmitPayment
<1> DEFINE R == [plan |-> selected, way |-> way, sum |-> sum, shown |-> source, pressed |-> chosen,
                 accepted |-> Accepts(selected, way, sum)]
<1>2. payRequest' = {R} /\ Linked' = Linked
  BY <1>1 DEF SubmitPayment, Linked, AtPosition
<1>3. /\ R.plan = selected /\ R.pressed = chosen /\ R.way = way /\ R.shown = source
      /\ R.accepted = Accepts(selected, way, sum)
  OBVIOUS
<1> HIDE DEF R
<1>4. R.accepted => R.plan \in {R.pressed} \cup Linked
  <2> SUFFICES ASSUME R.accepted PROVE selected \in {chosen} \cup Linked
    BY <1>3
  <2>1. selected \in served
    BY <1>3 DEF Accepts
  <2>2. CASE selected = link /\ link # NoPlan
    BY <2>1, <2>2 DEF Linked
  <2> QED
    BY <2>2 DEF ZInv, Wanted
<1>5. R.way = "wallet" /\ R.shown = "server" => R.accepted
  <2> SUFFICES ASSUME way = "wallet", source = "server" PROVE Accepts(selected, way, sum)
    BY <1>3
  <2>1. selected \in served /\ sum = Price["server"][selected]
    BY <1>1 DEF SubmitPayment, Covered, Sums, CurrentPlan, Current, Listed, PriceOf
  <2> QED
    BY <2>1 DEF Accepts
<1> QED
  BY <1>2, <1>4, <1>5 DEF PaidPlanIsAsked, WalletPriceHolds

\* The plan that was pressed or that the link names is the one that is paid, and
\* a wallet's price holds, through fetches that fail, come late or replace the
\* list of plans under a dialog that is open, closed or unmounted
\* (SubscribeContent.tsx, payment/index.tsx).
THEOREM ChosenIsPaid == WizardSpec => []WizardInv
<1>1. WizardInit => ZInv
  <2> SUFFICES ASSUME WizardInit PROVE ZInv
    OBVIOUS
  <2>1. AtMostOne(amount)
    BY OnePrice DEF WizardInit
  <2>2. fetches \in 0 .. MaxFetches
    BY WizardAssumption DEF WizardInit
  <2>3. wizard \in {"plan", "review"} /\ selected \in BuiltIn \cup {NoPlan}
    BY DEF WizardInit
  <2>4. served \in ServerLists /\ source = "default" /\ payOpen = FALSE
    BY DEF WizardInit
  <2>5. ZTypes
    BY <2>1, <2>2, <2>3, <2>4 DEF ZTypes
  <2> QED
    BY <2>5 DEF WizardInit, ZInv, Wanted, PaidPlanIsAsked, WalletPriceHolds
<1>2. ZInv /\ [WizardNext]_wizardVars => ZInv'
  <2> SUFFICES ASSUME ZInv, [WizardNext]_wizardVars PROVE ZInv'
    OBVIOUS
  <2>1. ASSUME NEW id \in BuiltIn \cup served, SelectPlan(id) PROVE ZInv'
    <3>0. Show(source, id)
      BY <2>1 DEF SelectPlan
    <3>1. AtMostOne(amount')
      BY <3>0, ShownAmount DEF ZInv, ZTypes
    <3>2. PaidPlanIsAsked' /\ WalletPriceHolds'
      BY <2>1, RequestStands DEF SelectPlan
    <3>3. selected' = id /\ chosen' = id /\ source' = source
      BY <2>1 DEF SelectPlan, Show
    <3>4. Wanted'
      BY <3>3 DEF Wanted
    <3>5. ZTypes'
      BY <2>1, <3>1, <3>3 DEF SelectPlan, ZInv, ZTypes
    <3> QED
      BY <3>2, <3>4, <3>5 DEF ZInv
  <2>2. ASSUME NEW f \in fetching, PlansArrive(f) PROVE ZInv'
    <3>1. AtMostOne(amount')
      BY <2>2, ShownAmount DEF PlansArrive, ZInv, ZTypes
    <3>2. PaidPlanIsAsked' /\ WalletPriceHolds'
      BY <2>2, RequestStands DEF PlansArrive
    <3>3. selected' = Resolve /\ Linked' = Linked
      BY <2>2 DEF PlansArrive, Show, Linked, AtPosition
    <3>4. ZTypes'
      BY <2>2, <3>1, <3>3, ResolvedPlan DEF PlansArrive, Show, ZInv, ZTypes
    <3>5. Wanted'
      BY <2>2, <3>3, ResolvedPlan DEF PlansArrive, ZInv, Wanted
    <3> QED
      BY <3>2, <3>4, <3>5 DEF ZInv
  <2>3. ASSUME NEW way \in {"wallet", "bank"}, SubmitPayment(way) PROVE ZInv'
    <3>1. ZTypes' /\ Wanted'
      BY <2>3 DEF SubmitPayment, ZInv, ZTypes, Wanted, Linked, AtPosition
    <3> QED
      BY <2>3, <3>1, SubmittedPlan DEF ZInv
  <2>4. CASE ClosePayment \/ TryAgain
    <3>1. AtMostOne(amount')
      BY <2>4, OnePrice DEF ClosePayment, TryAgain, CurrentPlan
    <3>2. PaidPlanIsAsked' /\ WalletPriceHolds'
      BY <2>4, RequestStands DEF ClosePayment, TryAgain
    <3>3. ZTypes' /\ Wanted'
      BY <2>4, <3>1 DEF ClosePayment, TryAgain, ZInv, ZTypes, Wanted, Linked, AtPosition
    <3> QED
      BY <3>2, <3>3 DEF ZInv
  <2>5. ASSUME UNCHANGED <<served, link, source, selected, amount, chosen, payRequest>>,
               wizard' \in {"plan", "review"}, payOpen' \in BOOLEAN, fetches' \in 0 .. MaxFetches
        PROVE  ZInv'
    <3>1. PaidPlanIsAsked' /\ WalletPriceHolds'
      BY <2>5, RequestStands
    <3>2. ZTypes' /\ Wanted'
      BY <2>5 DEF ZInv, ZTypes, Wanted, Linked, AtPosition
    <3> QED
      BY <3>1, <3>2 DEF ZInv
  <2>6. CASE Review \/ BackToPlans \/ Pay
    BY <2>5, <2>6 DEF Review, BackToPlans, Pay, ZInv, ZTypes
  <2>7. CASE RetryPlans
    BY <2>5, <2>7, WizardAssumption DEF RetryPlans, ZInv, ZTypes
  <2>8. ASSUME NEW f \in fetching, PlansMissing(f) \/ FetchAgain(f) PROVE ZInv'
    BY <2>5, <2>8, WizardAssumption DEF PlansMissing, FetchAgain, ZInv, ZTypes
  <2>9. CASE UNCHANGED wizardVars
    BY <2>5, <2>9 DEF wizardVars, ZInv, ZTypes
  <2> QED
    BY <2>1, <2>2, <2>3, <2>4, <2>6, <2>7, <2>8, <2>9 DEF WizardNext
<1>3. ZInv => WizardInv
  <2>1. AtMostOne(amount) => Cardinality(amount) <= 1
    BY OneIsSmall
  <2>2. Wanted => ChosenPlanStands
    BY DEF Wanted, ChosenPlanStands
  <2> QED
    BY <2>1, <2>2 DEF ZInv, ZTypes, WizardInv, WizardTypeOK
<1> QED
  BY <1>1, <1>2, <1>3, PTL DEF WizardSpec
=============================================================================
