---------------------------- MODULE SequenceDrip ----------------------------
(***************************************************************************)
(* The steps of a sequence, sent one after another to each enrolment by    *)
(* the beats that drain process_due_sequence_steps.  A beat recovers stale *)
(* claims, scans the due steps once, and then goes through its list:       *)
(* claim, send, advance.  Beats overlap and die.                           *)
(*                                                                         *)
(* Abstracted: when a delay has passed (a scan finds any set of active     *)
(* enrolments due), the text of a message, the sequence's two counters.    *)
(* The steps of the sequence do not change while it runs.                  *)
(***************************************************************************)
EXTENDS Naturals, FiniteSets, FiniteSetsExt

CONSTANTS
    Enrolments,     \* ids of sequence_subscriptions
    LastStep,       \* the steps have step_order 0 .. LastStep
    Beats,          \* passes that may overlap
    MaxMishaps      \* bound: instances that die or freeze, recoveries and handlers that fail,
                    \* answers lost to a message that was accepted

ASSUME EnrolmentsAssumption == Enrolments \subseteq Nat /\ IsFiniteSet(Enrolments)
ASSUME LastStepAssumption == LastStep \in Nat
ASSUME MaxMishapsAssumption == MaxMishaps \in Nat

VARIABLES
    row,        \* status of an enrolment
    current,    \* its current_step
    claim,      \* its claim marker in bot_state: none, fresh, or older than 600 s
    beat,       \* how far a beat is
    due,        \* the step its scan found due for each enrolment still ahead of it;
                \* during the recovery, that of the claims it found stale
    read,       \* the row that advance() loaded: status and step
    sent,       \* history: copies of a step that reached Facebook
    unrecorded, \* history: sends whose answer was lost or whose outcome was never committed
    overtaken,  \* history: enrolments claimed for a step that was not theirs any more
    robbed,     \* history: enrolments whose live claim a recovery took back
    mishaps

dripRows == <<row, current, claim>>
dripBeats == <<beat, due, read>>
dripHistory == <<sent, unrecorded, overtaken, robbed>>
dripVars == <<dripRows, dripBeats, dripHistory, mishaps>>

Steps == 0 .. LastStep
NoStep == LastStep + 1
Holding == {"claimed", "sent", "refused", "advanced"}
EnrolmentStates == {"absent", "active", "sending", "completed", "unsubscribed", "failed"}

DripTypeOK ==
    /\ row \in [Enrolments -> EnrolmentStates]
    /\ current \in [Enrolments -> Steps]
    /\ claim \in [Enrolments -> {"none", "fresh", "stale"}]
    /\ beat \in [Beats -> {"idle", "recovering", "recovered", "draining"} \cup Holding]
    /\ due \in [Beats -> [Enrolments -> Steps \cup {NoStep}]]
    /\ read \in [Beats -> EnrolmentStates \X Steps]
    /\ sent \in [Enrolments -> [Steps -> Nat]]
    /\ unrecorded \in [Enrolments -> Nat]
    /\ overtaken \subseteq Enrolments /\ robbed \subseteq Enrolments
    /\ mishaps \in 0 .. MaxMishaps

NothingRead == <<"absent", 0>>

DripInit ==
    /\ row = [e \in Enrolments |-> "absent"]
    /\ current = [e \in Enrolments |-> 0]
    /\ claim = [e \in Enrolments |-> "none"]
    /\ beat = [b \in Beats |-> "idle"]
    /\ due = [b \in Beats |-> [e \in Enrolments |-> NoStep]]
    /\ read = [b \in Beats |-> NothingRead]
    /\ sent = [e \in Enrolments |-> [k \in Steps |-> 0]]
    /\ unrecorded = [e \in Enrolments |-> 0]
    /\ overtaken = {} /\ robbed = {}
    /\ mishaps = 0

\* The list of a beat is ordered by enrolment.
Ahead(b) == {e \in Enrolments : due[b][e] # NoStep}
AtHand(b) == Min(Ahead(b))
Holds(b, e) == beat[b] \in Holding /\ e = AtHand(b)

SetRow(e, st) == row' = [row EXCEPT ![e] = st]
Enter(b, phase) == beat' = [beat EXCEPT ![b] = phase]

\* The beat turns to the next item of its list.
NextItem(b) ==
    /\ Enter(b, "draining")
    /\ due' = [due EXCEPT ![b][AtHand(b)] = NoStep]
    /\ read' = [read EXCEPT ![b] = NothingRead]

DropMarker(e) == claim' = [claim EXCEPT ![e] = "none"]

-----------------------------------------------------------------------------
(* The operator enrols a subscriber and takes one out.  The row is never    *)
(* removed, and its unique index refuses a second enrolment.                *)

Subscribe(e) ==
    /\ row[e] = "absent"
    /\ SetRow(e, "active")
    /\ UNCHANGED <<current, claim, dripBeats, dripHistory, mishaps>>

Unsubscribe(e) ==
    /\ row[e] \notin {"absent", "unsubscribed"}
    /\ SetRow(e, "unsubscribed")
    /\ UNCHANGED <<current, claim, dripBeats, dripHistory, mishaps>>

-----------------------------------------------------------------------------
(* One beat.                                                               *)

(* recover_stale_sequence_claims reads the markers, then updates the rows    *)
(* that are still claimed, whoever claimed them since.  The marker stays.    *)
OrphanOnly(e) == row[e] = "sending" /\ claim[e] = "none" \* mutant: only claims without a marker
Recoverable(e) == row[e] = "sending" /\ claim[e] = "stale"

FindStale(b) ==
    /\ beat[b] = "idle"
    /\ due' = [due EXCEPT ![b] = [e \in Enrolments |->
                    IF Recoverable(e) THEN current[e] ELSE NoStep]]
    /\ Enter(b, "recovering")
    /\ UNCHANGED <<dripRows, read, dripHistory, mishaps>>

RecoverClaims(b) ==
    /\ beat[b] = "recovering"
    /\ \/ /\ row' = [e \in Enrolments |->
                        IF e \in Ahead(b) /\ row[e] = "sending" THEN "active" ELSE row[e]]
          /\ robbed' = robbed \cup {e \in Ahead(b) : row[e] = "sending" /\ \E c \in Beats : Holds(c, e)}
          /\ UNCHANGED mishaps
       \/ /\ mishaps < MaxMishaps
          /\ mishaps' = mishaps + 1
          /\ UNCHANGED <<row, robbed>>
    /\ Enter(b, "recovered")
    /\ due' = [due EXCEPT ![b] = [e \in Enrolments |-> NoStep]]
    /\ UNCHANGED <<current, claim, read, sent, unrecorded, overtaken>>

(* get_due_subscriptions *)
ScanDue(b, found) ==
    /\ beat[b] = "recovered"
    /\ found \subseteq {e \in Enrolments : row[e] = "active"}
    /\ due' = [due EXCEPT ![b] = [e \in Enrolments |->
                    IF e \in found THEN current[e] ELSE NoStep]]
    /\ Enter(b, "draining")
    /\ UNCHANGED <<dripRows, read, dripHistory, mishaps>>

EndBeat(b) ==
    /\ beat[b] = "draining"
    /\ Ahead(b) = {}
    /\ Enter(b, "idle")
    /\ UNCHANGED <<dripRows, due, read, dripHistory, mishaps>>

(* The conditional UPDATE and the marker, in one committed transaction. *)
ClaimUnfinished(e) == row[e] \in {"active", "sending"} \* mutant: a claim takes a claimed row
ClaimUnheld(e) == row[e] # "sending" \* mutant: a claim asks only that nobody has one
ClaimMatches(e) == row[e] = "active"

ClaimStep(b) ==
    /\ beat[b] = "draining"
    /\ Ahead(b) # {}
    /\ LET e == AtHand(b) IN
       /\ ClaimMatches(e)
       /\ SetRow(e, "sending")
       /\ claim' = [claim EXCEPT ![e] = "fresh"]
       /\ overtaken' = IF due[b][e] = current[e] THEN overtaken ELSE overtaken \cup {e}
    /\ Enter(b, "claimed")
    /\ UNCHANGED <<current, due, read, sent, unrecorded, robbed, mishaps>>

ClaimLost(b) ==
    /\ beat[b] = "draining"
    /\ Ahead(b) # {}
    /\ ~ClaimMatches(AtHand(b))
    /\ NextItem(b)
    /\ UNCHANGED <<dripRows, dripHistory, mishaps>>

(* _release_sequence_claim, for a tenant without a connected page *)
Release(b) ==
    /\ beat[b] = "claimed"
    /\ LET e == AtHand(b) IN
       IF row[e] = "sending"
       THEN SetRow(e, "active") /\ DropMarker(e)
       ELSE UNCHANGED <<row, claim>>
    /\ NextItem(b)
    /\ UNCHANGED <<current, dripHistory, mishaps>>

(* send_dm of the item's template: POSTs of which the last is answered, or  *)
(* none; each one before may have been accepted all the same.               *)
SendStep(b) ==
    /\ beat[b] = "claimed"
    /\ LET e == AtHand(b) IN
       \E outcome \in {"sent", "refused"}, lost \in 0 .. MaxMishaps - mishaps :
        /\ sent' = [sent EXCEPT ![e][due[b][e]] = @ + lost + (IF outcome = "sent" THEN 1 ELSE 0)]
        /\ unrecorded' = [unrecorded EXCEPT ![e] = @ + lost]
        /\ mishaps' = mishaps + lost
        /\ Enter(b, outcome)
    /\ UNCHANGED <<dripRows, due, read, overtaken, robbed>>

(* advance() loads the row ... *)
LoadRow(b) ==
    /\ beat[b] = "sent"
    /\ read' = [read EXCEPT ![b] = <<row[AtHand(b)], current[AtHand(b)]>>]
    /\ Enter(b, "advanced")
    /\ UNCHANGED <<dripRows, due, dripHistory, mishaps>>

(* ... and what was changed of it is written by the commit: the next step   *)
(* of the row, not of the item; its status only where it was assigned.      *)
CommitStep(b) ==
    /\ beat[b] = "advanced"
    /\ LET e == AtHand(b)
           status == read[b][1]
           step == read[b][2]
       IN
       /\ IF step < LastStep
          THEN /\ current' = [current EXCEPT ![e] = step + 1]
               /\ row' = IF status = "sending" THEN [row EXCEPT ![e] = "active"] ELSE row
          ELSE /\ row' = IF status # "completed" THEN [row EXCEPT ![e] = "completed"] ELSE row
               /\ UNCHANGED current
       /\ DropMarker(e)
    /\ NextItem(b)
    /\ UNCHANGED <<dripHistory, mishaps>>

CommitFailure(b) ==
    /\ beat[b] = "refused"
    /\ SetRow(AtHand(b), "failed")
    /\ DropMarker(AtHand(b))
    /\ NextItem(b)
    /\ UNCHANGED <<current, dripHistory, mishaps>>

-----------------------------------------------------------------------------
(* Exceptions and dying instances.                                         *)

Forget(b) ==
    unrecorded' = IF beat[b] \in {"sent", "refused", "advanced"}
                  THEN [unrecorded EXCEPT ![AtHand(b)] = @ + 1]
                  ELSE unrecorded

(* Anything of an item raises, its claim included: rollback, and the row is *)
(* marked failed, whoever holds it, unless that raises too.                 *)
ItemRaises(b) ==
    /\ beat[b] \in Holding \cup {"draining"}
    /\ Ahead(b) # {}
    /\ \/ SetRow(AtHand(b), "failed") /\ DropMarker(AtHand(b)) /\ UNCHANGED mishaps
       \/ mishaps < MaxMishaps /\ mishaps' = mishaps + 1 /\ UNCHANGED <<row, claim>>
    /\ NextItem(b)
    /\ Forget(b)
    /\ UNCHANGED <<current, sent, overtaken, robbed>>

Die(b) ==
    /\ beat[b] # "idle"
    /\ mishaps < MaxMishaps
    /\ mishaps' = mishaps + 1
    /\ Enter(b, "idle")
    /\ due' = [due EXCEPT ![b] = [e \in Enrolments |-> NoStep]]
    /\ read' = [read EXCEPT ![b] = NothingRead]
    /\ Forget(b)
    /\ UNCHANGED <<dripRows, sent, overtaken, robbed>>

(* 600 seconds pass over a marker; a beat that holds the claim is frozen.   *)
ClaimAges(e) ==
    /\ claim[e] = "fresh"
    /\ \A b \in Beats : ~Holds(b, e)
    /\ claim' = [claim EXCEPT ![e] = "stale"]
    /\ UNCHANGED <<row, current, dripBeats, dripHistory, mishaps>>

ClaimAgesFrozen(e) ==
    /\ claim[e] = "fresh"
    /\ \E b \in Beats : Holds(b, e)
    /\ mishaps < MaxMishaps
    /\ mishaps' = mishaps + 1
    /\ claim' = [claim EXCEPT ![e] = "stale"]
    /\ UNCHANGED <<row, current, dripBeats, dripHistory>>

-----------------------------------------------------------------------------

Drain(b) ==
    \/ RecoverClaims(b)
    \/ \E found \in SUBSET Enrolments : ScanDue(b, found)
    \/ EndBeat(b) \/ ClaimStep(b) \/ ClaimLost(b) \/ Release(b) \/ SendStep(b)
    \/ LoadRow(b) \/ CommitStep(b) \/ CommitFailure(b)

DripNext ==
    \/ \E e \in Enrolments : Subscribe(e) \/ Unsubscribe(e) \/ ClaimAges(e) \/ ClaimAgesFrozen(e)
    \/ \E b \in Beats : FindStale(b) \/ Drain(b) \/ ItemRaises(b) \/ Die(b)

DripSpec == DripInit /\ [][DripNext]_dripVars

(* Beats keep coming, one that runs gets on, and time passes. *)
BeatStarts == \E b \in Beats : FindStale(b)

DripFairness ==
    /\ WF_dripVars(BeatStarts)
    /\ \A b \in Beats : WF_dripVars(Drain(b))
    /\ \A e \in Enrolments : WF_dripVars(ClaimAges(e))

DripFairSpec == DripSpec /\ DripFairness

-----------------------------------------------------------------------------

(* A step that was due is being sent to an enrolment by one beat at a time, *)
(* and what is being sent shows as such unless it was taken out or failed   *)
(* meanwhile: the conditional UPDATE is the only lock.  Only a recovery     *)
(* takes a live claim: of a frozen beat, or of one that claimed after the   *)
(* recovery had read the marker.                                            *)
OneSender ==
    \A e \in Enrolments \ robbed :
        /\ \A b, c \in Beats : Holds(b, e) /\ Holds(c, e) => b = c
        /\ \A b \in Beats : Holds(b, e) => row[e] \in {"sending", "unsubscribed", "failed"}

(* The steps arrive in order and none is left out: every step before the    *)
(* current one has reached the subscriber, none after it has, a completed   *)
(* enrolment got them all, and a step comes twice only when the beat that   *)
(* sent it could not record that.  It does not hold of an enrolment that    *)
(* was claimed on an older scan (StepSentOnce), or robbed of its claim.     *)
StepsInOrder ==
    \A e \in Enrolments \ (overtaken \cup robbed) :
        /\ \A k \in Steps :
            /\ k < current[e] => sent[e][k] > 0
            /\ k > current[e] => sent[e][k] = 0
            /\ sent[e][k] <= 1 + unrecorded[e]
        /\ row[e] = "completed" => \A k \in Steps : sent[e][k] > 0

DripInv == DripTypeOK /\ OneSender /\ StepsInOrder

(* An enrolment moves on by one step at a time, and only past a step that   *)
(* has reached the subscriber, although what is written was read before the *)
(* commit (advance); and no beat sends to one that has completed, though it *)
(* was on its list.                                                         *)
EnrolmentsAdvance ==
    [][\A e \in Enrolments \ robbed' :
        /\ e \notin overtaken' /\ current'[e] # current[e] =>
            current'[e] = current[e] + 1 /\ sent[e][current[e]] > 0
        /\ row[e] = "completed" =>
            row'[e] \in {"completed", "unsubscribed", "failed"} /\ sent'[e] = sent[e]]_dripVars

(* No claim stays for ever: a step whose beat has died is active again      *)
(* after some later beat (recover_stale_sequence_claims).  But a beat that  *)
(* was robbed of its claim drops the marker of its successor, and when that *)
(* dies nobody recovers the row.                                            *)
ClaimsAreRecovered ==
    \A e \in Enrolments : row[e] = "sending" ~> row[e] # "sending" \/ e \in robbed

(* sequence_engine.py:707-709: two overlapping beats can never both send    *)
(* the same step.                                                           *)
StepSentOnce ==
    \A e \in Enrolments, k \in Steps : sent[e][k] <= 1 + unrecorded[e]

=============================================================================
