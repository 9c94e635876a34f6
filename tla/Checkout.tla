------------------------------ MODULE Checkout ------------------------------
(***************************************************************************)
(* The payment dialog of the subscribe page: the form, the request under   *)
(* review, the screens of the decision.  A submission creates a payment on *)
(* the server unless one is pending; an admin decides it; the dialog hears *)
(* of the decision by a pushed event or by polling, only while it waits.   *)
(* Requests and answers of two openings of the dialog overlap.             *)
(***************************************************************************)
EXTENDS Naturals, FiniteSets

CONSTANTS MaxPayments, \* bound: payments created
          MaxReopenings, \* bound: openings of the dialog
          MaxSubmits,  \* bound: submissions
          MaxHides     \* bound: times the tab is hidden

ASSUME CheckoutAssumption == {MaxPayments, MaxReopenings, MaxSubmits, MaxHides} \subseteq Nat

Payments == 1 .. MaxPayments
NoPayment == 0

VARIABLES paymentStatus,     \* server: status[p]: "none", "pending", "verified" or "cancelled"
          open,       \* the dialog is open
          step,       \* the screen shown
          sent,       \* sentRef: a submission has been made
          submitting, \* a request of a button is under way
          paymentId,  \* the payment the dialog is about
          probe,      \* the question asked on opening: {} or {[at, found, current]}
          request,    \* the button's request: {} or {[kind, at, payment]}
          stream,     \* payments with an event stream
          poll,       \* the interval pollRef names: {} or {payment}
          stray,      \* intervals nothing names any more
          asked,      \* polls under way: <<payment, status read>>
          settled,    \* payments whose watcher has decided
          visible, openings, submits, hides,
          misled      \* history: a watcher or a question answered after the dialog had
              \* moved on, or the polls were refused

serverSide == <<paymentStatus>>
watchers == <<stream, poll, stray, asked, settled>>
bounds == <<openings, submits, hides>>
checkoutVars == <<paymentStatus, open, step, sent, submitting, paymentId, probe, request, watchers, visible, bounds, misled>>

Steps == {"form", "pending", "waiting", "approved", "rejected"}
PendingOnes == {p \in Payments : paymentStatus[p] = "pending"}
PendingNow == IF PendingOnes = {} THEN NoPayment ELSE CHOOSE p \in PendingOnes : TRUE
Created == {p \in Payments : paymentStatus[p] # "none"}

CheckoutTypeOK ==
    /\ paymentStatus \in [Payments -> {"none", "pending", "verified", "cancelled"}]
    /\ step \in Steps /\ paymentId \in Payments \cup {NoPayment}
    /\ probe \subseteq [at : 1 .. MaxReopenings, found : SUBSET (Payments \cup {NoPayment}), current : BOOLEAN]
    /\ Cardinality(poll) <= 1
    /\ stream \cup poll \cup stray \cup settled \subseteq Payments

CheckoutInit ==
    /\ paymentStatus = [p \in Payments |-> "none"]
    /\ open = FALSE /\ step = "form" /\ sent = FALSE /\ submitting = FALSE /\ paymentId = NoPayment
    /\ probe = {} /\ request = {} /\ stream = {} /\ poll = {} /\ stray = {} /\ asked = {} /\ settled = {}
    /\ visible = TRUE /\ openings = 0 /\ submits = 0 /\ hides = 0 /\ misled = FALSE

\* What can be pressed.
FormScreen == open /\ visible /\ step = "form"
PendingScreen == open /\ visible /\ step = "pending"
ApprovedScreen == open /\ visible /\ step = "approved"
RejectedScreen == open /\ visible /\ step = "rejected"
-----------------------------------------------------------------------------
\* The watchers: an effect of the waiting step.

StreamOnly(p) ==                                                     \* mutant
    /\ stream' = {p} /\ poll' = {} /\ settled' = settled \ {p}
    /\ UNCHANGED <<stray, asked>>

StartWatching(p) ==
    /\ stream' = {p} /\ poll' = {p} /\ settled' = settled \ {p}
    /\ UNCHANGED <<stray, asked>>
Cleanup == stream' = {} /\ poll' = {}

\* A watcher settles once; it closes whatever the dialog listens to.
Decide(p, screen) ==
    /\ p \notin settled /\ settled' = settled \cup {p}
    /\ Cleanup /\ step' = screen
    /\ misled' = (misled \/ step # "waiting" \/ paymentId # p)
ScreenOf(s) == IF s = "verified" THEN "approved" ELSE "rejected"

StreamDelivers(p) ==
    /\ p \in stream /\ paymentStatus[p] \in {"verified", "cancelled"}
    /\ Decide(p, ScreenOf(paymentStatus[p]))
    /\ UNCHANGED <<paymentStatus, open, sent, submitting, paymentId, probe, request, stray, asked, visible, bounds>>

StreamBreaks(p) ==
    /\ p \in stream /\ stream' = stream \ {p}
    /\ UNCHANGED <<paymentStatus, open, step, sent, submitting, paymentId, probe, request, poll, stray, asked, settled,
                   visible, bounds, misled>>

AskStatus(p) ==
    /\ p \in poll \cup stray /\ asked = {} /\ p \notin settled
    /\ asked' = {<<p, paymentStatus[p]>>}
    /\ UNCHANGED <<paymentStatus, open, step, sent, submitting, paymentId, probe, request, stream, poll, stray, settled,
                   visible, bounds, misled>>

StatusAnswers(a) ==
    /\ asked' = asked \ {a}
    /\ IF a[2] # "pending" /\ a[1] \notin settled
       THEN Decide(a[1], ScreenOf(a[2]))
       ELSE UNCHANGED <<step, stream, poll, settled, misled>>
    /\ UNCHANGED <<paymentStatus, open, sent, submitting, paymentId, probe, request, stray, visible, bounds>>

\* Three polls refused in a row count as a rejection.
PollsRefused(p) ==
    /\ p \in poll \cup stray /\ p \notin settled
    /\ settled' = settled \cup {p} /\ Cleanup /\ step' = "rejected" /\ misled' = TRUE
    /\ UNCHANGED <<paymentStatus, open, sent, submitting, paymentId, probe, request, stray, asked, visible, bounds>>

\* The tab: hidden stops the named interval, visible starts one whether or not
\* there is one (a decision may have been asked for in a hidden tab).
HidePage ==
    /\ visible /\ hides < MaxHides /\ hides' = hides + 1 /\ visible' = FALSE
    /\ poll' = {}
    /\ UNCHANGED <<paymentStatus, open, step, sent, submitting, paymentId, probe, request, stream, stray, asked, settled,
                   openings, submits, misled>>
Watching == step = "waiting" /\ paymentId # NoPayment /\ paymentId \notin settled
ShowTab ==
    /\ ~visible /\ visible' = TRUE
    /\ IF Watching THEN poll' = {paymentId} /\ stray' = stray \cup poll ELSE UNCHANGED <<poll, stray>>
    /\ UNCHANGED <<paymentStatus, open, step, sent, submitting, paymentId, probe, request, stream, asked, settled,
                   bounds, misled>>
-----------------------------------------------------------------------------
\* Opening and closing.

OpenDialog ==
    /\ ~open /\ visible /\ openings < MaxReopenings /\ openings' = openings + 1 /\ open' = TRUE
    /\ probe' = probe \cup {[at |-> openings', found |-> {}, current |-> TRUE]}
    /\ UNCHANGED <<paymentStatus, step, sent, submitting, paymentId, request, watchers, visible, submits, hides, misled>>

ProbeReads(q) ==
    /\ q.found = {} /\ probe' = (probe \ {q}) \cup {[q EXCEPT !.found = {PendingNow}]}
    /\ UNCHANGED <<paymentStatus, open, step, sent, submitting, paymentId, request, watchers, visible, bounds, misled>>

\* Its failure counts as "nothing pending"; an answer after closing is dropped;
\* a step the user has moved to is kept, the payment it is about is not: the
\* effect of the waiting step starts again for the other one.
StepAfterProbe == IF step = "form" THEN "pending" ELSE step
ProbeAnswers(q) ==
    /\ q.found # {} /\ probe' = probe \ {q}
    /\ IF q.current /\ q.found # {NoPayment}
       THEN LET p == CHOOSE p \in q.found : TRUE IN
            /\ step' = StepAfterProbe /\ paymentId' = p
            /\ misled' = (misled \/ (step \notin {"form", "pending"} /\ p # paymentId))
            /\ IF step = "waiting" /\ p # paymentId THEN StartWatching(p) ELSE UNCHANGED watchers
       ELSE UNCHANGED <<step, paymentId, misled, watchers>>
    /\ UNCHANGED <<paymentStatus, open, sent, submitting, request, visible, bounds>>
ProbeFails(q) ==
    /\ probe' = probe \ {q}
    /\ UNCHANGED <<paymentStatus, open, step, sent, submitting, paymentId, request, watchers, visible, bounds, misled>>

Forget == sent' = FALSE /\ step' = "form" /\ paymentId' = NoPayment

CloseDialog ==
    /\ open /\ visible /\ open' = FALSE /\ step # "approved"
    /\ Forget /\ Cleanup
    /\ probe' = {[q EXCEPT !.current = FALSE] : q \in probe}
    /\ UNCHANGED <<paymentStatus, submitting, request, stray, asked, settled, visible, bounds, misled>>

\* "Continue" closes without resetting anything.
Continue ==
    /\ ApprovedScreen /\ open' = FALSE
    /\ probe' = {[q EXCEPT !.current = FALSE] : q \in probe}
    /\ UNCHANGED <<paymentStatus, step, sent, submitting, paymentId, request, watchers, visible, bounds, misled>>

RetryAfterRejection ==
    /\ RejectedScreen /\ Forget
    /\ UNCHANGED <<paymentStatus, open, submitting, probe, request, watchers, visible, bounds, misled>>
-----------------------------------------------------------------------------
\* The buttons.

SubmitIfUnsent == ~sent                                              \* mutant
CanSubmit == ~sent /\ ~submitting

Submit ==
    /\ FormScreen /\ CanSubmit
    /\ submits < MaxSubmits /\ submits' = submits + 1
    /\ sent' = TRUE /\ submitting' = TRUE
    /\ request' = request \cup {[kind |-> "create", at |-> "sent", payment |-> NoPayment, nr |-> submits']}
    /\ UNCHANGED <<paymentStatus, open, step, paymentId, probe, watchers, visible, openings, hides, misled>>

\* The server creates a payment unless one is pending.
CreatePayment(r) ==
    /\ r.kind = "create" /\ r.at = "sent"
    /\ IF PendingOnes # {} THEN /\ request' = (request \ {r}) \cup {[r EXCEPT !.at = "refused"]}
                                /\ UNCHANGED paymentStatus
       ELSE /\ Created # Payments
            /\ LET p == Cardinality(Created) + 1 IN
               /\ paymentStatus' = [paymentStatus EXCEPT ![p] = "pending"]
               /\ request' = (request \ {r}) \cup {[r EXCEPT !.at = "created", !.payment = p]}
    /\ UNCHANGED <<open, step, sent, submitting, paymentId, probe, watchers, visible, bounds, misled>>

PaymentCreated(r) ==
    /\ r.at = "created" /\ request' = request \ {r}
    /\ paymentId' = r.payment /\ step' = "waiting" /\ submitting' = FALSE
    /\ StartWatching(r.payment)
    /\ UNCHANGED <<paymentStatus, open, sent, probe, visible, bounds, misled>>

\* "A request is pending" is a state: ask which, and show it.
PendingRefusal(r) ==
    /\ r.kind = "create" /\ r.at = "refused" /\ request' = (request \ {r}) \cup {[r EXCEPT !.at = "probing"]}
    /\ sent' = FALSE
    /\ UNCHANGED <<paymentStatus, open, step, submitting, paymentId, probe, watchers, visible, bounds, misled>>
ShowPending(r) ==
    /\ r.kind = "create" /\ r.at = "probing" /\ request' = request \ {r}
    /\ \/ paymentId' = IF PendingNow = NoPayment THEN paymentId ELSE PendingNow
       \/ paymentId' = paymentId   \* the question failed
    /\ step' = "pending" /\ submitting' = FALSE
    /\ UNCHANGED <<paymentStatus, open, sent, probe, watchers, visible, bounds, misled>>

SubmitFails(r) ==
    /\ r.kind = "create" /\ r.at \in {"sent", "created"} /\ request' = request \ {r}
    /\ sent' = FALSE /\ submitting' = FALSE
    /\ UNCHANGED <<paymentStatus, open, step, paymentId, probe, watchers, visible, bounds, misled>>

CancelPending ==
    /\ PendingScreen /\ ~submitting /\ submitting' = TRUE
    /\ request' = request \cup {[kind |-> "cancel", at |-> "sent", payment |-> paymentId, nr |-> 0]}
    /\ UNCHANGED <<paymentStatus, open, step, sent, paymentId, probe, watchers, visible, bounds, misled>>

\* Without an id the server cancels the one that is pending.
CancelPayment(r) ==
    /\ r.kind = "cancel" /\ r.at = "sent"
    /\ LET p == IF r.payment = NoPayment THEN PendingNow ELSE r.payment IN
       IF p \in PendingOnes
       THEN /\ paymentStatus' = [paymentStatus EXCEPT ![p] = "cancelled"]
            /\ request' = (request \ {r}) \cup {[r EXCEPT !.at = "cancelled"]}
       ELSE /\ request' = (request \ {r}) \cup {[r EXCEPT !.at = "refused"]}
            /\ UNCHANGED paymentStatus
    /\ UNCHANGED <<open, step, sent, submitting, paymentId, probe, watchers, visible, bounds, misled>>

Cancelled(r) ==
    /\ r.at = "cancelled" /\ request' = request \ {r}
    /\ Forget /\ submitting' = FALSE
    /\ UNCHANGED <<paymentStatus, open, probe, watchers, visible, bounds, misled>>

\* Refused or lost: ask what is pending, and fall back to the form when nothing is.
CancelFails(r) ==
    /\ r.kind = "cancel" /\ r.at \in {"refused", "cancelled", "sent"} /\ request' = request \ {r}
    /\ submitting' = FALSE
    /\ \E found \in {PendingNow, NoPayment} :
          paymentId' = found /\ step' = IF found = NoPayment THEN "form" ELSE step
    /\ UNCHANGED <<paymentStatus, open, sent, probe, watchers, visible, bounds, misled>>

\* The admin.
AdminDecides(p) ==
    /\ paymentStatus[p] = "pending" /\ \E s \in {"verified", "cancelled"} : paymentStatus' = [paymentStatus EXCEPT ![p] = s]
    /\ UNCHANGED <<open, step, sent, submitting, paymentId, probe, request, watchers, visible, bounds, misled>>

CheckoutNext ==
    \/ OpenDialog \/ CloseDialog \/ Continue \/ RetryAfterRejection \/ Submit \/ CancelPending \/ HidePage \/ ShowTab
    \/ \E p \in Payments : StreamDelivers(p) \/ StreamBreaks(p) \/ AskStatus(p) \/ PollsRefused(p) \/ AdminDecides(p)
    \/ \E a \in asked : StatusAnswers(a)
    \/ \E q \in probe : ProbeReads(q) \/ ProbeAnswers(q) \/ ProbeFails(q)
    \/ \E r \in request : CreatePayment(r) \/ PaymentCreated(r) \/ PendingRefusal(r) \/ ShowPending(r) \/ SubmitFails(r)
                          \/ CancelPayment(r) \/ Cancelled(r) \/ CancelFails(r)

\* Timers run, the browser delivers events, and a request of a button is
\* answered or given up; the user comes back to the tab.
WatchersAsk == \E p \in Payments : AskStatus(p) \/ StreamDelivers(p)
WatchersHear == \E a \in asked : StatusAnswers(a)
ProbeGoesOn == \E q \in probe : ProbeReads(q) \/ ProbeAnswers(q)
RequestEnds ==
    \E r \in request : PaymentCreated(r) \/ PendingRefusal(r) \/ ShowPending(r) \/ SubmitFails(r)
                        \/ Cancelled(r) \/ CancelFails(r)

CheckoutSpec ==
    /\ CheckoutInit /\ [][CheckoutNext]_checkoutVars
    /\ WF_checkoutVars(WatchersAsk) /\ WF_checkoutVars(WatchersHear)
    /\ WF_checkoutVars(ProbeGoesOn) /\ WF_checkoutVars(RequestEnds) /\ WF_checkoutVars(ShowTab)
-----------------------------------------------------------------------------
\* One request of a button at a time, closing and reopening the dialog included.
OneRequestAtATime == Cardinality(request) <= 1 /\ (request # {} => submitting)

\* A decision shown is the decision of the payment the dialog is about, unless
\* a watcher or a question of an earlier moment answered late, or the polls
\* were refused.
ShownDecisionIsTrue ==
    ~misled => /\ step = "approved" => paymentStatus[paymentId] = "verified"
               /\ step = "rejected" => paymentStatus[paymentId] = "cancelled"

\* A dialog that waits hears of the decision.
WaitingHears ==
    []<>(step = "waiting" /\ ~misled => paymentStatus[paymentId] = "pending")

\* Once misled always misled: what the properties say ends there.
CheckoutUnmisled == ~misled

\* The decision of a request that was left to wait reaches the dialog when it
\* is opened again.
DecisionKeepsFlowing ==
    [](open /\ step = "pending" /\ PendingOnes = {} => <>(~open \/ step # "pending"))

\* One request at a time, and no screen claims a decision that was not made.
CheckoutInv == CheckoutTypeOK /\ OneRequestAtATime /\ ShownDecisionIsTrue
=============================================================================
