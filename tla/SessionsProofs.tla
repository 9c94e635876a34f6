--------------------------- MODULE SessionsProofs ---------------------------
(***************************************************************************)
(* The payment dialog and the two sessions, for every number of payments,  *)
(* openings, submissions, tokens and accounts.                             *)
(***************************************************************************)
EXTENDS MCClient, FiniteSetTheorems, TLAPS

-----------------------------------------------------------------------------
(* The payment dialog.                                                     *)

Found == Created \cup {NoPayment}

KScreen ==
    /\ paymentStatus \in [Payments -> {"none", "pending", "verified", "cancelled"}]
    /\ step \in Steps /\ paymentId \in Payments \cup {NoPayment}
    /\ {open, sent, submitting, visible, misled} \subseteq BOOLEAN

KWatchers ==
    /\ poll = {} \/ \E p \in Payments : poll = {p}
    /\ stream \cup stray \cup settled \subseteq Payments

Questions == [at : 1 .. MaxReopenings, found : SUBSET (Payments \cup {NoPayment}), current : BOOLEAN]
KProbe == probe \subseteq Questions /\ openings \in 0 .. MaxReopenings

KRequest ==
    /\ submits \in Nat
    /\ request \subseteq [kind : {"create", "cancel"}, at : {"sent", "created", "refused", "probing", "cancelled"},
                          payment : Payments \cup {NoPayment}, nr : Nat]

\* The server hands out payments in their order.
HandedOut == \E k \in 0 .. MaxPayments : Created = 1 .. k

\* Whatever the dialog names exists.
NamesExist ==
    /\ stream \cup poll \cup stray \subseteq Created /\ paymentId \in Found
    /\ \A q \in probe : q.found = {} \/ \E p \in Found : q.found = {p}
    /\ \A r \in request : r.payment \in Found /\ (r.at = "created" => r.payment \in Created)

\* A decision a poll has read is the one that was made.
AnswersTrue ==
    \A a \in asked : /\ a[1] \in Created
                     /\ a[2] = "pending" \/ (a[2] \in {"verified", "cancelled"} /\ paymentStatus[a[1]] = a[2])

OneRequest == request = {} \/ \E r \in request : request = {r}

\* While a button's request is under way the dialog waits for no decision.
RequestScreen == request # {} => submitting /\ (~misled => step \in {"form", "pending"})

DecisionShown == ~misled /\ step \in {"approved", "rejected"} => paymentId \in Payments

KInv == KScreen /\ KWatchers /\ KProbe /\ KRequest /\ HandedOut /\ NamesExist /\ AnswersTrue /\ OneRequest /\ RequestScreen /\ DecisionShown
        /\ ShownDecisionIsTrue

\* What the server finds pending exists.
LEMMA PendingExists ==
    ASSUME KScreen
    PROVE  PendingNow \in Found /\ Found \subseteq Payments \cup {NoPayment}
  BY DEF KScreen, PendingNow, PendingOnes, Found, Created

\* A new payment is the next one.
LEMMA NextPayment ==
    ASSUME KScreen, HandedOut, Created # Payments
    PROVE  LET p == Cardinality(Created) + 1 IN
           p \in Payments \ Created /\ Created \cup {p} = 1 .. p
<1>1. PICK k \in 0 .. MaxPayments : Created = 1 .. k
  BY DEF HandedOut
<1>2. Cardinality(Created) = k
  BY <1>1, FS_Interval, CheckoutAssumption
<1>3. k + 1 \in Payments
  BY <1>1, CheckoutAssumption DEF Payments
<1> QED
  BY <1>1, <1>2, <1>3, CheckoutAssumption

\* A question that is no longer current was one with the same answer.
LEMMA Uncurrent ==
    ASSUME KProbe, probe' = {[q EXCEPT !.current = FALSE] : q \in probe}
    PROVE  \A q \in probe' : \E o \in probe : q.found = o.found
<1> SUFFICES ASSUME NEW q \in probe'
             PROVE  \E o \in probe : q.found = o.found
  OBVIOUS
<1>1. PICK o \in probe : q = [o EXCEPT !.current = FALSE]
  OBVIOUS
<1>2. o \in Questions
  BY DEF KProbe
<1> QED
  BY <1>1, <1>2 DEF Questions

LEMMA KOpenDialog ==
    ASSUME KInv, OpenDialog
    PROVE  KInv'
<1>1. KWatchers' /\ KRequest' /\ HandedOut' /\ AnswersTrue' /\ OneRequest' /\ RequestScreen'
      /\ DecisionShown' /\ ShownDecisionIsTrue'
  BY DEF KInv, OpenDialog, watchers, bounds, KWatchers, KRequest, HandedOut, Created, AnswersTrue,
        OneRequest, RequestScreen, DecisionShown, ShownDecisionIsTrue
<1>2. [at |-> openings', found |-> {}, current |-> TRUE] \in Questions /\ openings' \in 0 .. MaxReopenings
  BY CheckoutAssumption DEF KInv, KProbe, OpenDialog, Questions
<1>3. KScreen'
  BY DEF KInv, KScreen, KWatchers, KProbe, KRequest, Steps, NamesExist, Found, AnswersTrue, Created,
        OpenDialog, watchers, bounds, Payments, NoPayment
<1>4. KProbe'
  BY <1>2 DEF KInv, KProbe, OpenDialog
<1>5. NamesExist'
  BY DEF KInv, NamesExist, Found, Created, KScreen, KWatchers, KProbe, Questions, KRequest, OneRequest,
        AnswersTrue, OpenDialog, watchers, bounds, Payments, NoPayment
<1> QED
  BY <1>1, <1>3, <1>4, <1>5 DEF KInv

LEMMA KCloseDialog ==
    ASSUME KInv, CloseDialog
    PROVE  KInv'
<1>1. KRequest' /\ HandedOut' /\ AnswersTrue' /\ OneRequest'
  BY DEF KInv, CloseDialog, watchers, bounds, KRequest, HandedOut, Created, AnswersTrue, OneRequest,
        Forget, Cleanup
<1>2. KScreen'
  BY DEF KInv, KScreen, KWatchers, KProbe, KRequest, Steps, NamesExist, Found, AnswersTrue, Created,
        CloseDialog, watchers, bounds, Payments, NoPayment, Forget, Cleanup
<1>3. KWatchers'
  BY DEF KInv, KWatchers, KScreen, NamesExist, Found, AnswersTrue, Created, KRequest, CloseDialog,
        watchers, bounds, Payments, NoPayment, Forget, Cleanup
<1>4. KProbe'
  BY CheckoutAssumption DEF KInv, KProbe, Questions, KScreen, CloseDialog, watchers, bounds, Payments,
        NoPayment, Forget, Cleanup
<1>5. NamesExist'
  <2>1. \A q \in probe' : \E o \in probe : q.found = o.found
    BY Uncurrent DEF KInv, CloseDialog
  <2> QED
    BY <2>1 DEF KInv, NamesExist, Found, Created, CloseDialog, watchers, NoPayment, Forget, Cleanup
<1>6. RequestScreen'
  BY DEF KInv, RequestScreen, OneRequest, DecisionShown, NamesExist, KScreen, Steps, CloseDialog,
        watchers, bounds, Payments, NoPayment, Forget, Cleanup
<1>7. DecisionShown'
  BY DEF KInv, DecisionShown, KScreen, KRequest, RequestScreen, Steps, NamesExist, Found, Created,
        AnswersTrue, CloseDialog, watchers, bounds, Payments, NoPayment, Forget, Cleanup
<1>8. ShownDecisionIsTrue'
  BY DEF KInv, ShownDecisionIsTrue, DecisionShown, RequestScreen, KScreen, Steps, AnswersTrue,
        NamesExist, Found, Created, CloseDialog, watchers, bounds, Payments, NoPayment, Forget, Cleanup
<1> QED
  BY <1>1, <1>2, <1>3, <1>4, <1>5, <1>6, <1>7, <1>8 DEF KInv

LEMMA KContinue ==
    ASSUME KInv, Continue
    PROVE  KInv'
<1>1. KWatchers' /\ KRequest' /\ HandedOut' /\ AnswersTrue' /\ OneRequest' /\ RequestScreen'
      /\ DecisionShown' /\ ShownDecisionIsTrue'
  BY DEF KInv, Continue, watchers, bounds, KWatchers, KRequest, HandedOut, Created, AnswersTrue,
        OneRequest, RequestScreen, DecisionShown, ShownDecisionIsTrue, ApprovedScreen
<1>2. KScreen'
  BY DEF KInv, KScreen, KWatchers, KProbe, KRequest, Steps, NamesExist, Found, AnswersTrue, Created,
        Continue, watchers, bounds, Payments, NoPayment, ApprovedScreen
<1>3. KProbe'
  BY CheckoutAssumption DEF KInv, KProbe, Questions, KScreen, Continue, watchers, bounds, Payments,
        NoPayment, ApprovedScreen
<1>4. NamesExist'
  <2>1. \A q \in probe' : \E o \in probe : q.found = o.found
    BY Uncurrent DEF KInv, Continue
  <2> QED
    BY <2>1 DEF KInv, NamesExist, Found, Created, Continue, watchers, NoPayment
<1> QED
  BY <1>1, <1>2, <1>3, <1>4 DEF KInv

LEMMA KRetryAfterRejection ==
    ASSUME KInv, RetryAfterRejection
    PROVE  KInv'
<1>1. KWatchers' /\ KProbe' /\ KRequest' /\ HandedOut' /\ AnswersTrue' /\ OneRequest'
  BY DEF KInv, RetryAfterRejection, watchers, bounds, KWatchers, KProbe, KRequest, HandedOut, Created,
        AnswersTrue, OneRequest, RejectedScreen, Forget
<1>2. KScreen'
  BY DEF KInv, KScreen, KWatchers, KProbe, KRequest, Steps, NamesExist, Found, AnswersTrue, Created,
        RetryAfterRejection, watchers, bounds, Payments, NoPayment, RejectedScreen, Forget
<1>3. NamesExist'
  BY DEF KInv, NamesExist, Found, Created, KScreen, KWatchers, KProbe, Questions, KRequest, OneRequest,
        AnswersTrue, RetryAfterRejection, watchers, bounds, Payments, NoPayment, RejectedScreen, Forget
<1>4. RequestScreen'
  BY DEF KInv, RequestScreen, OneRequest, DecisionShown, NamesExist, KScreen, Steps,
        RetryAfterRejection, watchers, bounds, Payments, NoPayment, RejectedScreen, Forget
<1>5. DecisionShown'
  BY DEF KInv, DecisionShown, KScreen, KRequest, RequestScreen, Steps, NamesExist, Found, Created,
        AnswersTrue, RetryAfterRejection, watchers, bounds, Payments, NoPayment, RejectedScreen, Forget
<1>6. ShownDecisionIsTrue'
  BY DEF KInv, ShownDecisionIsTrue, DecisionShown, RequestScreen, KScreen, Steps, AnswersTrue,
        NamesExist, Found, Created, RetryAfterRejection, watchers, bounds, Payments, NoPayment,
        RejectedScreen, Forget
<1> QED
  BY <1>1, <1>2, <1>3, <1>4, <1>5, <1>6 DEF KInv

LEMMA KSubmit ==
    ASSUME KInv, Submit
    PROVE  KInv'
<1>1. KWatchers' /\ KProbe' /\ HandedOut' /\ AnswersTrue' /\ DecisionShown' /\ ShownDecisionIsTrue'
  BY DEF KInv, Submit, watchers, bounds, KWatchers, KProbe, HandedOut, Created, AnswersTrue,
        DecisionShown, ShownDecisionIsTrue, FormScreen, CanSubmit
<1>2. KScreen'
  BY DEF KInv, KScreen, KWatchers, KProbe, KRequest, Steps, NamesExist, Found, AnswersTrue, Created,
        Submit, watchers, bounds, Payments, NoPayment, FormScreen, CanSubmit
<1>3. KRequest'
  BY CheckoutAssumption DEF KInv, KRequest, KScreen, Created, Submit, watchers, bounds, Payments,
        NoPayment, FormScreen, CanSubmit
<1>4. NamesExist'
  BY DEF KInv, NamesExist, Found, Created, KScreen, KWatchers, KProbe, Questions, KRequest, OneRequest,
        AnswersTrue, Submit, watchers, bounds, Payments, NoPayment, FormScreen, CanSubmit
<1>5. OneRequest'
  BY DEF KInv, OneRequest, RequestScreen, Submit, watchers, bounds, Payments, NoPayment, FormScreen,
        CanSubmit
<1>6. RequestScreen'
  BY DEF KInv, RequestScreen, OneRequest, DecisionShown, NamesExist, KScreen, Steps, Submit, watchers,
        bounds, Payments, NoPayment, FormScreen, CanSubmit
<1> QED
  BY <1>1, <1>2, <1>3, <1>4, <1>5, <1>6 DEF KInv

LEMMA KCancelPending ==
    ASSUME KInv, CancelPending
    PROVE  KInv'
<1>1. KWatchers' /\ KProbe' /\ HandedOut' /\ AnswersTrue' /\ DecisionShown' /\ ShownDecisionIsTrue'
  BY DEF KInv, CancelPending, watchers, bounds, KWatchers, KProbe, HandedOut, Created, AnswersTrue,
        DecisionShown, ShownDecisionIsTrue, PendingScreen
<1>2. KScreen'
  BY DEF KInv, KScreen, KWatchers, KProbe, KRequest, Steps, NamesExist, Found, AnswersTrue, Created,
        CancelPending, watchers, bounds, Payments, NoPayment, PendingScreen
<1>3. KRequest'
  BY CheckoutAssumption DEF KInv, KRequest, KScreen, Created, CancelPending, watchers, bounds,
        Payments, NoPayment, PendingScreen
<1>4. NamesExist'
  BY DEF KInv, NamesExist, Found, Created, KScreen, KWatchers, KProbe, Questions, KRequest, OneRequest,
        AnswersTrue, CancelPending, watchers, bounds, Payments, NoPayment, PendingScreen
<1>5. OneRequest'
  BY DEF KInv, OneRequest, RequestScreen, CancelPending, watchers, bounds, Payments, NoPayment,
        PendingScreen
<1>6. RequestScreen'
  BY DEF KInv, RequestScreen, OneRequest, DecisionShown, NamesExist, KScreen, Steps, CancelPending,
        watchers, bounds, Payments, NoPayment, PendingScreen
<1> QED
  BY <1>1, <1>2, <1>3, <1>4, <1>5, <1>6 DEF KInv

LEMMA KHidePage ==
    ASSUME KInv, HidePage
    PROVE  KInv'
<1>1. KProbe' /\ KRequest' /\ HandedOut' /\ AnswersTrue' /\ OneRequest' /\ RequestScreen'
      /\ DecisionShown' /\ ShownDecisionIsTrue'
  BY DEF KInv, HidePage, watchers, bounds, KProbe, KRequest, HandedOut, Created, AnswersTrue,
        OneRequest, RequestScreen, DecisionShown, ShownDecisionIsTrue
<1>2. KScreen'
  BY DEF KInv, KScreen, KWatchers, KProbe, KRequest, Steps, NamesExist, Found, AnswersTrue, Created,
        HidePage, watchers, bounds, Payments, NoPayment
<1>3. KWatchers'
  BY DEF KInv, KWatchers, KScreen, NamesExist, Found, AnswersTrue, Created, KRequest, HidePage,
        watchers, bounds, Payments, NoPayment
<1>4. NamesExist'
  BY DEF KInv, NamesExist, Found, Created, KScreen, KWatchers, KProbe, Questions, KRequest, OneRequest,
        AnswersTrue, HidePage, watchers, bounds, Payments, NoPayment
<1> QED
  BY <1>1, <1>2, <1>3, <1>4 DEF KInv

LEMMA KShowTab ==
    ASSUME KInv, ShowTab
    PROVE  KInv'
<1>1. KProbe' /\ KRequest' /\ HandedOut' /\ AnswersTrue' /\ OneRequest' /\ RequestScreen'
      /\ DecisionShown' /\ ShownDecisionIsTrue'
  BY DEF KInv, ShowTab, watchers, bounds, KProbe, KRequest, HandedOut, Created, AnswersTrue,
        OneRequest, RequestScreen, DecisionShown, ShownDecisionIsTrue, Watching
<1>2. KScreen'
  BY DEF KInv, KScreen, KWatchers, KProbe, KRequest, Steps, NamesExist, Found, AnswersTrue, Created,
        ShowTab, watchers, bounds, Payments, NoPayment, Watching
<1>3. KWatchers'
  BY DEF KInv, KWatchers, KScreen, NamesExist, Found, AnswersTrue, Created, KRequest, ShowTab,
        watchers, bounds, Payments, NoPayment, Watching
<1>4. NamesExist'
  BY DEF KInv, NamesExist, Found, Created, KScreen, KWatchers, KProbe, Questions, KRequest, OneRequest,
        AnswersTrue, ShowTab, watchers, bounds, Payments, NoPayment, Watching
<1> QED
  BY <1>1, <1>2, <1>3, <1>4 DEF KInv

LEMMA KStreamDelivers ==
    ASSUME NEW p \in Payments, KInv, StreamDelivers(p)
    PROVE  KInv'
<1>1. KProbe' /\ KRequest' /\ HandedOut' /\ AnswersTrue' /\ OneRequest'
  BY DEF KInv, StreamDelivers, watchers, bounds, KProbe, KRequest, HandedOut, Created, AnswersTrue,
        OneRequest, Decide, Cleanup, ScreenOf
<1>2. KScreen'
  BY DEF KInv, KScreen, KWatchers, KProbe, KRequest, Steps, NamesExist, Found, AnswersTrue, Created,
        StreamDelivers, watchers, bounds, Payments, NoPayment, Decide, Cleanup, ScreenOf
<1>3. KWatchers'
  BY DEF KInv, KWatchers, KScreen, NamesExist, Found, AnswersTrue, Created, KRequest, StreamDelivers,
        watchers, bounds, Payments, NoPayment, Decide, Cleanup, ScreenOf
<1>4. NamesExist'
  BY DEF KInv, NamesExist, Found, Created, KScreen, KWatchers, KProbe, Questions, KRequest, OneRequest,
        AnswersTrue, StreamDelivers, watchers, bounds, Payments, NoPayment, Decide, Cleanup, ScreenOf
<1>5. RequestScreen'
  BY DEF KInv, RequestScreen, OneRequest, DecisionShown, NamesExist, KScreen, Steps, StreamDelivers,
        watchers, bounds, Payments, NoPayment, Decide, Cleanup, ScreenOf
<1>6. DecisionShown'
  BY DEF KInv, DecisionShown, KScreen, KRequest, RequestScreen, Steps, NamesExist, Found, Created,
        AnswersTrue, StreamDelivers, watchers, bounds, Payments, NoPayment, Decide, Cleanup, ScreenOf
<1>7. ShownDecisionIsTrue'
  BY DEF KInv, ShownDecisionIsTrue, DecisionShown, RequestScreen, KScreen, Steps, AnswersTrue,
        NamesExist, Found, Created, StreamDelivers, watchers, bounds, Payments, NoPayment, Decide,
        Cleanup, ScreenOf
<1> QED
  BY <1>1, <1>2, <1>3, <1>4, <1>5, <1>6, <1>7 DEF KInv

LEMMA KStreamBreaks ==
    ASSUME NEW p \in Payments, KInv, StreamBreaks(p)
    PROVE  KInv'
<1>1. KScreen' /\ KProbe' /\ KRequest' /\ HandedOut' /\ AnswersTrue' /\ OneRequest'
      /\ RequestScreen' /\ DecisionShown' /\ ShownDecisionIsTrue'
  BY DEF KInv, StreamBreaks, watchers, bounds, KScreen, KProbe, KRequest, HandedOut, Created,
        AnswersTrue, OneRequest, RequestScreen, DecisionShown, ShownDecisionIsTrue
<1>2. KWatchers'
  BY DEF KInv, KWatchers, KScreen, NamesExist, Found, AnswersTrue, Created, KRequest, StreamBreaks,
        watchers, bounds, Payments, NoPayment
<1>3. NamesExist'
  BY DEF KInv, NamesExist, Found, Created, KScreen, KWatchers, KProbe, Questions, KRequest, OneRequest,
        AnswersTrue, StreamBreaks, watchers, bounds, Payments, NoPayment
<1> QED
  BY <1>1, <1>2, <1>3 DEF KInv

LEMMA KAskStatus ==
    ASSUME NEW p \in Payments, KInv, AskStatus(p)
    PROVE  KInv'
<1>1. KScreen' /\ KWatchers' /\ KProbe' /\ KRequest' /\ HandedOut' /\ NamesExist'
      /\ OneRequest' /\ RequestScreen' /\ DecisionShown' /\ ShownDecisionIsTrue'
  BY DEF KInv, AskStatus, watchers, bounds, KScreen, KWatchers, KProbe, KRequest, HandedOut, Created,
        NamesExist, Found, OneRequest, RequestScreen, DecisionShown, ShownDecisionIsTrue
<1>2. AnswersTrue'
  BY DEF KInv, AnswersTrue, NamesExist, Created, Found, KScreen, AskStatus, watchers, bounds, Payments,
        NoPayment
<1> QED
  BY <1>1, <1>2 DEF KInv

LEMMA KPollsRefused ==
    ASSUME NEW p \in Payments, KInv, PollsRefused(p)
    PROVE  KInv'
<1>1. KProbe' /\ KRequest' /\ HandedOut' /\ AnswersTrue' /\ OneRequest'
  BY DEF KInv, PollsRefused, watchers, bounds, KProbe, KRequest, HandedOut, Created, AnswersTrue,
        OneRequest, Cleanup
<1>2. KScreen'
  BY DEF KInv, KScreen, KWatchers, KProbe, KRequest, Steps, NamesExist, Found, AnswersTrue, Created,
        PollsRefused, watchers, bounds, Payments, NoPayment, Cleanup
<1>3. KWatchers'
  BY DEF KInv, KWatchers, KScreen, NamesExist, Found, AnswersTrue, Created, KRequest, PollsRefused,
        watchers, bounds, Payments, NoPayment, Cleanup
<1>4. NamesExist'
  BY DEF KInv, NamesExist, Found, Created, KScreen, KWatchers, KProbe, Questions, KRequest, OneRequest,
        AnswersTrue, PollsRefused, watchers, bounds, Payments, NoPayment, Cleanup
<1>5. RequestScreen'
  BY DEF KInv, RequestScreen, OneRequest, DecisionShown, NamesExist, KScreen, Steps, PollsRefused,
        watchers, bounds, Payments, NoPayment, Cleanup
<1>6. DecisionShown'
  BY DEF KInv, DecisionShown, KScreen, KRequest, RequestScreen, Steps, NamesExist, Found, Created,
        AnswersTrue, PollsRefused, watchers, bounds, Payments, NoPayment, Cleanup
<1>7. ShownDecisionIsTrue'
  BY DEF KInv, ShownDecisionIsTrue, DecisionShown, RequestScreen, KScreen, Steps, AnswersTrue,
        NamesExist, Found, Created, PollsRefused, watchers, bounds, Payments, NoPayment, Cleanup
<1> QED
  BY <1>1, <1>2, <1>3, <1>4, <1>5, <1>6, <1>7 DEF KInv

LEMMA KAdminDecides ==
    ASSUME NEW p \in Payments, KInv, AdminDecides(p)
    PROVE  KInv'
<1>1. KWatchers' /\ KProbe' /\ KRequest' /\ OneRequest' /\ RequestScreen' /\ DecisionShown'
  BY DEF KInv, AdminDecides, watchers, bounds, KWatchers, KProbe, KRequest, OneRequest, RequestScreen,
        DecisionShown, PendingOnes
<1>2. KScreen'
  BY DEF KInv, KScreen, KWatchers, KProbe, KRequest, Steps, NamesExist, Found, AnswersTrue, Created,
        AdminDecides, watchers, bounds, Payments, NoPayment, PendingOnes
<1>3. HandedOut'
  BY DEF KInv, HandedOut, Created, KScreen, AdminDecides, watchers, bounds, Payments, NoPayment,
        PendingOnes
<1>4. NamesExist'
  BY DEF KInv, NamesExist, Found, Created, KScreen, KWatchers, KProbe, Questions, KRequest, OneRequest,
        AnswersTrue, AdminDecides, watchers, bounds, Payments, NoPayment, PendingOnes
<1>5. AnswersTrue'
  BY DEF KInv, AnswersTrue, NamesExist, Created, Found, KScreen, AdminDecides, watchers, bounds,
        Payments, NoPayment, PendingOnes
<1>6. ShownDecisionIsTrue'
  BY DEF KInv, ShownDecisionIsTrue, DecisionShown, RequestScreen, KScreen, Steps, AnswersTrue,
        NamesExist, Found, Created, AdminDecides, watchers, bounds, Payments, NoPayment, PendingOnes
<1> QED
  BY <1>1, <1>2, <1>3, <1>4, <1>5, <1>6 DEF KInv

LEMMA KStatusAnswers ==
    ASSUME NEW a \in asked, KInv, StatusAnswers(a)
    PROVE  KInv'
<1>1. KProbe' /\ KRequest' /\ HandedOut' /\ OneRequest'
  BY DEF KInv, StatusAnswers, watchers, bounds, KProbe, KRequest, HandedOut, Created, OneRequest,
        Decide, Cleanup, ScreenOf
<1>2. KScreen'
  BY DEF KInv, KScreen, KWatchers, KProbe, KRequest, Steps, NamesExist, Found, AnswersTrue, Created,
        StatusAnswers, watchers, bounds, Payments, NoPayment, Decide, Cleanup, ScreenOf
<1>3. KWatchers'
  BY DEF KInv, KWatchers, KScreen, NamesExist, Found, AnswersTrue, Created, KRequest, StatusAnswers,
        watchers, bounds, Payments, NoPayment, Decide, Cleanup, ScreenOf
<1>4. NamesExist'
  BY DEF KInv, NamesExist, Found, Created, KScreen, KWatchers, KProbe, Questions, KRequest, OneRequest,
        AnswersTrue, StatusAnswers, watchers, bounds, Payments, NoPayment, Decide, Cleanup, ScreenOf
<1>5. AnswersTrue'
  BY DEF KInv, AnswersTrue, NamesExist, Created, Found, KScreen, StatusAnswers, watchers, bounds,
        Payments, NoPayment, Decide, Cleanup, ScreenOf
<1>6. RequestScreen'
  BY DEF KInv, RequestScreen, OneRequest, DecisionShown, NamesExist, KScreen, Steps, StatusAnswers,
        watchers, bounds, Payments, NoPayment, Decide, Cleanup, ScreenOf
<1>7. DecisionShown'
  BY DEF KInv, DecisionShown, KScreen, KRequest, RequestScreen, Steps, NamesExist, Found, Created,
        AnswersTrue, StatusAnswers, watchers, bounds, Payments, NoPayment, Decide, Cleanup, ScreenOf
<1>8. ShownDecisionIsTrue'
  BY DEF KInv, ShownDecisionIsTrue, DecisionShown, RequestScreen, KScreen, Steps, AnswersTrue,
        NamesExist, Found, Created, StatusAnswers, watchers, bounds, Payments, NoPayment, Decide,
        Cleanup, ScreenOf
<1> QED
  BY <1>1, <1>2, <1>3, <1>4, <1>5, <1>6, <1>7, <1>8 DEF KInv

LEMMA KProbeReads ==
    ASSUME NEW q \in probe, KInv, ProbeReads(q)
    PROVE  KInv'
<1>1. KScreen' /\ KWatchers' /\ KRequest' /\ HandedOut' /\ AnswersTrue' /\ OneRequest'
      /\ RequestScreen' /\ DecisionShown' /\ ShownDecisionIsTrue'
  BY DEF KInv, ProbeReads, watchers, bounds, KScreen, KWatchers, KRequest, HandedOut, Created,
        AnswersTrue, OneRequest, RequestScreen, DecisionShown, ShownDecisionIsTrue, PendingNow,
        PendingOnes
<1>2. [q EXCEPT !.found = {PendingNow}] \in Questions
  BY PendingExists DEF KInv, KProbe, Questions
<1>3. KProbe'
  BY <1>2 DEF KInv, KProbe, ProbeReads, bounds
<1>4. NamesExist'
  BY DEF KInv, NamesExist, Found, Created, KScreen, KWatchers, KProbe, Questions, KRequest, OneRequest,
        AnswersTrue, ProbeReads, watchers, bounds, Payments, NoPayment, PendingNow, PendingOnes
<1> QED
  BY <1>1, <1>3, <1>4 DEF KInv

LEMMA KProbeAnswers ==
    ASSUME NEW q \in probe, KInv, ProbeAnswers(q)
    PROVE  KInv'
<1>1. KRequest' /\ HandedOut' /\ OneRequest'
  BY DEF KInv, ProbeAnswers, watchers, bounds, KRequest, HandedOut, Created, OneRequest,
        StepAfterProbe, StartWatching
<1>2. q.current /\ q.found # {NoPayment} => (CHOOSE p \in q.found : TRUE) \in Found
  BY DEF KInv, NamesExist, ProbeAnswers
<1>3. Found \subseteq Payments \cup {NoPayment}
  BY PendingExists DEF KInv
<1>4. KScreen'
  BY <1>2, <1>3 DEF KInv, KScreen, Steps, ProbeAnswers, StepAfterProbe
<1>5. KWatchers'
  BY DEF KInv, KWatchers, KScreen, NamesExist, Found, AnswersTrue, Created, KRequest, ProbeAnswers,
        watchers, bounds, Payments, NoPayment, StepAfterProbe, StartWatching
<1>6. KProbe'
  BY CheckoutAssumption DEF KInv, KProbe, Questions, KScreen, ProbeAnswers, watchers, bounds, Payments,
        NoPayment, StepAfterProbe, StartWatching
<1>7. NamesExist'
  BY <1>2, <1>3 DEF KInv, NamesExist, ProbeAnswers, StartWatching, watchers, Found, Created
<1>8. AnswersTrue'
  BY DEF KInv, AnswersTrue, NamesExist, Created, Found, KScreen, ProbeAnswers, watchers, bounds,
        Payments, NoPayment, StepAfterProbe, StartWatching
<1>9. RequestScreen'
  BY DEF KInv, RequestScreen, OneRequest, DecisionShown, NamesExist, KScreen, Steps, ProbeAnswers,
        watchers, bounds, Payments, NoPayment, StepAfterProbe, StartWatching
<1>10. DecisionShown'
  BY DEF KInv, DecisionShown, KScreen, KRequest, RequestScreen, Steps, NamesExist, Found, Created,
        AnswersTrue, ProbeAnswers, watchers, bounds, Payments, NoPayment, StepAfterProbe, StartWatching
<1>11. ShownDecisionIsTrue'
  BY DEF KInv, ShownDecisionIsTrue, DecisionShown, RequestScreen, KScreen, Steps, AnswersTrue,
        NamesExist, Found, Created, ProbeAnswers, watchers, bounds, Payments, NoPayment,
        StepAfterProbe, StartWatching
<1> QED
  BY <1>1, <1>4, <1>5, <1>6, <1>7, <1>8, <1>9, <1>10, <1>11 DEF KInv

LEMMA KProbeFails ==
    ASSUME NEW q \in probe, KInv, ProbeFails(q)
    PROVE  KInv'
<1>1. KScreen' /\ KWatchers' /\ KRequest' /\ HandedOut' /\ AnswersTrue' /\ OneRequest'
      /\ RequestScreen' /\ DecisionShown' /\ ShownDecisionIsTrue'
  BY DEF KInv, ProbeFails, watchers, bounds, KScreen, KWatchers, KRequest, HandedOut, Created,
        AnswersTrue, OneRequest, RequestScreen, DecisionShown, ShownDecisionIsTrue
<1>2. KProbe'
  BY CheckoutAssumption DEF KInv, KProbe, Questions, KScreen, ProbeFails, watchers, bounds, Payments,
        NoPayment
<1>3. NamesExist'
  BY DEF KInv, NamesExist, Found, Created, KScreen, KWatchers, KProbe, Questions, KRequest, OneRequest,
        AnswersTrue, ProbeFails, watchers, bounds, Payments, NoPayment
<1> QED
  BY <1>1, <1>2, <1>3 DEF KInv

LEMMA KCreatePayment ==
    ASSUME NEW r \in request, KInv, CreatePayment(r)
    PROVE  KInv'
<1>1. KWatchers' /\ KProbe' /\ DecisionShown'
  BY DEF KInv, CreatePayment, watchers, bounds, KWatchers, KProbe, DecisionShown, PendingOnes
<1>2. \/ /\ request' = (request \ {r}) \cup {[r EXCEPT !.at = "refused"]}
         /\ UNCHANGED paymentStatus
      \/ \E p \in Payments \ Created :
            /\ paymentStatus' = [paymentStatus EXCEPT ![p] = "pending"]
            /\ request' = (request \ {r}) \cup {[r EXCEPT !.at = "created", !.payment = p]}
            /\ Created \cup {p} = 1 .. p
  BY NextPayment DEF KInv, CreatePayment
<1>3. \/ request' = (request \ {r}) \cup {[r EXCEPT !.at = "refused"]} /\ Created' = Created
      \/ \E p \in Payments :
            /\ request' = (request \ {r}) \cup {[r EXCEPT !.at = "created", !.payment = p]}
            /\ Created' = Created \cup {p} /\ Created' = 1 .. p
  <2>1. CASE UNCHANGED paymentStatus
    BY <1>2, <2>1 DEF KInv, KScreen, Created
  <2>2. CASE paymentStatus' # paymentStatus
    <3>1. PICK p \in Payments \ Created :
             /\ paymentStatus' = [paymentStatus EXCEPT ![p] = "pending"]
             /\ request' = (request \ {r}) \cup {[r EXCEPT !.at = "created", !.payment = p]}
             /\ Created \cup {p} = 1 .. p
      BY <1>2, <2>2
    <3>2. Created' = Created \cup {p}
      BY <3>1 DEF KInv, KScreen, Created
    <3> QED
      BY <3>1, <3>2
  <2> QED
    BY <2>1, <2>2
<1>4. r \in [kind : {"create", "cancel"}, at : {"sent", "created", "refused", "probing", "cancelled"},
              payment : Payments \cup {NoPayment}, nr : Nat]
  BY DEF KInv, KRequest
<1>5. KScreen'
  BY DEF KInv, KScreen, KWatchers, KProbe, KRequest, Steps, NamesExist, Found, AnswersTrue, Created,
        CreatePayment, watchers, bounds, Payments, NoPayment, PendingOnes
<1>6. KRequest'
  BY <1>2, <1>4 DEF KInv, KRequest, CreatePayment, bounds
<1>7. HandedOut'
  <2>1. Created' = Created \/ \E p \in Payments : Created' = 1 .. p
    BY <1>3
  <2>2. CASE Created' = Created
    BY <2>2 DEF KInv, HandedOut
  <2>3. CASE \E p \in Payments : Created' = 1 .. p
    <3>1. Payments \subseteq 0 .. MaxPayments
      BY CheckoutAssumption DEF Payments
    <3> QED
      BY <2>3, <3>1 DEF HandedOut
  <2> QED
    BY <2>1, <2>2, <2>3
<1>8. NamesExist'
  BY <1>3, <1>4 DEF KInv, NamesExist, Found, CreatePayment, watchers
<1>9. AnswersTrue'
  BY <1>2, <1>3 DEF KInv, AnswersTrue, KScreen, CreatePayment, watchers, Created
<1>10. OneRequest'
  BY DEF KInv, OneRequest, RequestScreen, CreatePayment, watchers, bounds, Payments, NoPayment,
        PendingOnes
<1>11. RequestScreen'
  BY DEF KInv, RequestScreen, OneRequest, DecisionShown, NamesExist, KScreen, Steps, CreatePayment,
        watchers, bounds, Payments, NoPayment, PendingOnes
<1>12. ShownDecisionIsTrue'
  BY DEF KInv, ShownDecisionIsTrue, DecisionShown, RequestScreen, KScreen, Steps, AnswersTrue,
        NamesExist, Found, Created, CreatePayment, watchers, bounds, Payments, NoPayment, PendingOnes
<1> QED
  BY <1>1, <1>5, <1>6, <1>7, <1>8, <1>9, <1>10, <1>11, <1>12 DEF KInv

LEMMA KPaymentCreated ==
    ASSUME NEW r \in request, KInv, PaymentCreated(r)
    PROVE  KInv'
<1>1. KProbe' /\ HandedOut'
  BY DEF KInv, PaymentCreated, watchers, bounds, KProbe, HandedOut, Created, StartWatching
<1>2. KScreen'
  BY DEF KInv, KScreen, KWatchers, KProbe, KRequest, Steps, NamesExist, Found, AnswersTrue, Created,
        PaymentCreated, watchers, bounds, Payments, NoPayment, StartWatching
<1>3. KWatchers'
  BY DEF KInv, KWatchers, KScreen, NamesExist, Found, AnswersTrue, Created, KRequest, PaymentCreated,
        watchers, bounds, Payments, NoPayment, StartWatching
<1>4. KRequest'
  BY CheckoutAssumption DEF KInv, KRequest, KScreen, Created, PaymentCreated, watchers, bounds,
        Payments, NoPayment, StartWatching
<1>5. NamesExist'
  BY DEF KInv, NamesExist, Found, Created, KScreen, KWatchers, KProbe, Questions, KRequest, OneRequest,
        AnswersTrue, PaymentCreated, watchers, bounds, Payments, NoPayment, StartWatching
<1>6. AnswersTrue'
  BY DEF KInv, AnswersTrue, NamesExist, Created, Found, KScreen, PaymentCreated, watchers, bounds,
        Payments, NoPayment, StartWatching
<1>7. OneRequest'
  BY DEF KInv, OneRequest, RequestScreen, PaymentCreated, watchers, bounds, Payments, NoPayment,
        StartWatching
<1>8. RequestScreen'
  BY DEF KInv, RequestScreen, OneRequest, DecisionShown, NamesExist, KScreen, Steps, PaymentCreated,
        watchers, bounds, Payments, NoPayment, StartWatching
<1>9. DecisionShown'
  BY DEF KInv, DecisionShown, KScreen, KRequest, RequestScreen, Steps, NamesExist, Found, Created,
        AnswersTrue, PaymentCreated, watchers, bounds, Payments, NoPayment, StartWatching
<1>10. ShownDecisionIsTrue'
  BY DEF KInv, ShownDecisionIsTrue, DecisionShown, RequestScreen, KScreen, Steps, AnswersTrue,
        NamesExist, Found, Created, PaymentCreated, watchers, bounds, Payments, NoPayment, StartWatching
<1> QED
  BY <1>1, <1>2, <1>3, <1>4, <1>5, <1>6, <1>7, <1>8, <1>9, <1>10 DEF KInv

LEMMA KPendingRefusal ==
    ASSUME NEW r \in request, KInv, PendingRefusal(r)
    PROVE  KInv'
<1>1. KWatchers' /\ KProbe' /\ HandedOut' /\ AnswersTrue' /\ DecisionShown' /\ ShownDecisionIsTrue'
  BY DEF KInv, PendingRefusal, watchers, bounds, KWatchers, KProbe, HandedOut, Created, AnswersTrue,
        DecisionShown, ShownDecisionIsTrue
<1>2. KScreen'
  BY DEF KInv, KScreen, KWatchers, KProbe, KRequest, Steps, NamesExist, Found, AnswersTrue, Created,
        PendingRefusal, watchers, bounds, Payments, NoPayment
<1>3. KRequest'
  BY CheckoutAssumption DEF KInv, KRequest, KScreen, Created, PendingRefusal, watchers, bounds,
        Payments, NoPayment
<1>4. NamesExist'
  BY DEF KInv, NamesExist, Found, Created, KScreen, KWatchers, KProbe, Questions, KRequest, OneRequest,
        AnswersTrue, PendingRefusal, watchers, bounds, Payments, NoPayment
<1>5. OneRequest'
  BY DEF KInv, OneRequest, RequestScreen, PendingRefusal, watchers, bounds, Payments, NoPayment
<1>6. RequestScreen'
  BY DEF KInv, RequestScreen, OneRequest, DecisionShown, NamesExist, KScreen, Steps, PendingRefusal,
        watchers, bounds, Payments, NoPayment
<1> QED
  BY <1>1, <1>2, <1>3, <1>4, <1>5, <1>6 DEF KInv

LEMMA KShowPending ==
    ASSUME NEW r \in request, KInv, ShowPending(r)
    PROVE  KInv'
<1>1. KWatchers' /\ KProbe' /\ HandedOut' /\ AnswersTrue'
  BY DEF KInv, ShowPending, watchers, bounds, KWatchers, KProbe, HandedOut, Created, AnswersTrue,
        PendingNow, PendingOnes
<1>2. KScreen'
  BY DEF KInv, KScreen, KWatchers, KProbe, KRequest, Steps, NamesExist, Found, AnswersTrue, Created,
        ShowPending, watchers, bounds, Payments, NoPayment, PendingNow, PendingOnes
<1>3. KRequest'
  BY CheckoutAssumption DEF KInv, KRequest, KScreen, Created, ShowPending, watchers, bounds, Payments,
        NoPayment, PendingNow, PendingOnes
<1>4. NamesExist'
  BY DEF KInv, NamesExist, Found, Created, KScreen, KWatchers, KProbe, Questions, KRequest, OneRequest,
        AnswersTrue, ShowPending, watchers, bounds, Payments, NoPayment, PendingNow, PendingOnes
<1>5. OneRequest'
  BY DEF KInv, OneRequest, RequestScreen, ShowPending, watchers, bounds, Payments, NoPayment,
        PendingNow, PendingOnes
<1>6. RequestScreen'
  BY DEF KInv, RequestScreen, OneRequest, DecisionShown, NamesExist, KScreen, Steps, ShowPending,
        watchers, bounds, Payments, NoPayment, PendingNow, PendingOnes
<1>7. DecisionShown'
  BY DEF KInv, DecisionShown, KScreen, KRequest, RequestScreen, Steps, NamesExist, Found, Created,
        AnswersTrue, ShowPending, watchers, bounds, Payments, NoPayment, PendingNow, PendingOnes
<1>8. ShownDecisionIsTrue'
  BY DEF KInv, ShownDecisionIsTrue, DecisionShown, RequestScreen, KScreen, Steps, AnswersTrue,
        NamesExist, Found, Created, ShowPending, watchers, bounds, Payments, NoPayment, PendingNow,
        PendingOnes
<1> QED
  BY <1>1, <1>2, <1>3, <1>4, <1>5, <1>6, <1>7, <1>8 DEF KInv

LEMMA KSubmitFails ==
    ASSUME NEW r \in request, KInv, SubmitFails(r)
    PROVE  KInv'
<1>1. KWatchers' /\ KProbe' /\ HandedOut' /\ AnswersTrue' /\ DecisionShown' /\ ShownDecisionIsTrue'
  BY DEF KInv, SubmitFails, watchers, bounds, KWatchers, KProbe, HandedOut, Created, AnswersTrue,
        DecisionShown, ShownDecisionIsTrue
<1>2. KScreen'
  BY DEF KInv, KScreen, KWatchers, KProbe, KRequest, Steps, NamesExist, Found, AnswersTrue, Created,
        SubmitFails, watchers, bounds, Payments, NoPayment
<1>3. KRequest'
  BY CheckoutAssumption DEF KInv, KRequest, KScreen, Created, SubmitFails, watchers, bounds, Payments,
        NoPayment
<1>4. NamesExist'
  BY DEF KInv, NamesExist, Found, Created, KScreen, KWatchers, KProbe, Questions, KRequest, OneRequest,
        AnswersTrue, SubmitFails, watchers, bounds, Payments, NoPayment
<1>5. OneRequest'
  BY DEF KInv, OneRequest, RequestScreen, SubmitFails, watchers, bounds, Payments, NoPayment
<1>6. RequestScreen'
  BY DEF KInv, RequestScreen, OneRequest, DecisionShown, NamesExist, KScreen, Steps, SubmitFails,
        watchers, bounds, Payments, NoPayment
<1> QED
  BY <1>1, <1>2, <1>3, <1>4, <1>5, <1>6 DEF KInv

LEMMA KCancelPayment ==
    ASSUME NEW r \in request, KInv, CancelPayment(r)
    PROVE  KInv'
<1>1. KWatchers' /\ KProbe' /\ DecisionShown'
  BY DEF KInv, CancelPayment, watchers, bounds, KWatchers, KProbe, DecisionShown, PendingOnes,
        PendingNow
<1>2. \/ /\ request' = (request \ {r}) \cup {[r EXCEPT !.at = "refused"]}
         /\ UNCHANGED paymentStatus
      \/ /\ request' = (request \ {r}) \cup {[r EXCEPT !.at = "cancelled"]}
         /\ \E p \in PendingOnes : paymentStatus' = [paymentStatus EXCEPT ![p] = "cancelled"]
  BY DEF CancelPayment
<1>3. Created' = Created
  BY <1>2 DEF KInv, KScreen, Created, PendingOnes
<1>4. r \in [kind : {"create", "cancel"}, at : {"sent", "created", "refused", "probing", "cancelled"},
              payment : Payments \cup {NoPayment}, nr : Nat]
  BY DEF KInv, KRequest
<1>5. KScreen'
  BY DEF KInv, KScreen, KWatchers, KProbe, KRequest, Steps, NamesExist, Found, AnswersTrue, Created,
        CancelPayment, watchers, bounds, Payments, NoPayment, PendingOnes, PendingNow
<1>6. KRequest'
  BY <1>2, <1>4 DEF KInv, KRequest, CancelPayment, bounds
<1>7. HandedOut'
  BY <1>3 DEF KInv, HandedOut
<1>8. NamesExist'
  BY <1>2, <1>3, <1>4 DEF KInv, NamesExist, Found, CancelPayment, watchers
<1>9. AnswersTrue'
  BY DEF KInv, AnswersTrue, NamesExist, Created, Found, KScreen, CancelPayment, watchers, bounds,
        Payments, NoPayment, PendingOnes, PendingNow
<1>10. OneRequest'
  BY DEF KInv, OneRequest, RequestScreen, CancelPayment, watchers, bounds, Payments, NoPayment,
        PendingOnes, PendingNow
<1>11. RequestScreen'
  BY DEF KInv, RequestScreen, OneRequest, DecisionShown, NamesExist, KScreen, Steps, CancelPayment,
        watchers, bounds, Payments, NoPayment, PendingOnes, PendingNow
<1>12. ShownDecisionIsTrue'
  BY DEF KInv, ShownDecisionIsTrue, DecisionShown, RequestScreen, KScreen, Steps, AnswersTrue,
        NamesExist, Found, Created, CancelPayment, watchers, bounds, Payments, NoPayment, PendingOnes,
        PendingNow
<1> QED
  BY <1>1, <1>5, <1>6, <1>7, <1>8, <1>9, <1>10, <1>11, <1>12 DEF KInv

LEMMA KCancelled ==
    ASSUME NEW r \in request, KInv, Cancelled(r)
    PROVE  KInv'
<1>1. KWatchers' /\ KProbe' /\ HandedOut' /\ AnswersTrue'
  BY DEF KInv, Cancelled, watchers, bounds, KWatchers, KProbe, HandedOut, Created, AnswersTrue, Forget
<1>2. KScreen'
  BY DEF KInv, KScreen, KWatchers, KProbe, KRequest, Steps, NamesExist, Found, AnswersTrue, Created,
        Cancelled, watchers, bounds, Payments, NoPayment, Forget
<1>3. KRequest'
  BY CheckoutAssumption DEF KInv, KRequest, KScreen, Created, Cancelled, watchers, bounds, Payments,
        NoPayment, Forget
<1>4. NamesExist'
  BY DEF KInv, NamesExist, Found, Created, KScreen, KWatchers, KProbe, Questions, KRequest, OneRequest,
        AnswersTrue, Cancelled, watchers, bounds, Payments, NoPayment, Forget
<1>5. OneRequest'
  BY DEF KInv, OneRequest, RequestScreen, Cancelled, watchers, bounds, Payments, NoPayment, Forget
<1>6. RequestScreen'
  BY DEF KInv, RequestScreen, OneRequest, DecisionShown, NamesExist, KScreen, Steps, Cancelled,
        watchers, bounds, Payments, NoPayment, Forget
<1>7. DecisionShown'
  BY DEF KInv, DecisionShown, KScreen, KRequest, RequestScreen, Steps, NamesExist, Found, Created,
        AnswersTrue, Cancelled, watchers, bounds, Payments, NoPayment, Forget
<1>8. ShownDecisionIsTrue'
  BY DEF KInv, ShownDecisionIsTrue, DecisionShown, RequestScreen, KScreen, Steps, AnswersTrue,
        NamesExist, Found, Created, Cancelled, watchers, bounds, Payments, NoPayment, Forget
<1> QED
  BY <1>1, <1>2, <1>3, <1>4, <1>5, <1>6, <1>7, <1>8 DEF KInv

LEMMA KCancelFails ==
    ASSUME NEW r \in request, KInv, CancelFails(r)
    PROVE  KInv'
<1>1. KWatchers' /\ KProbe' /\ HandedOut' /\ AnswersTrue'
  BY DEF KInv, CancelFails, watchers, bounds, KWatchers, KProbe, HandedOut, Created, AnswersTrue,
        PendingNow, PendingOnes
<1>2. KScreen'
  BY DEF KInv, KScreen, KWatchers, KProbe, KRequest, Steps, NamesExist, Found, AnswersTrue, Created,
        CancelFails, watchers, bounds, Payments, NoPayment, PendingNow, PendingOnes
<1>3. KRequest'
  BY CheckoutAssumption DEF KInv, KRequest, KScreen, Created, CancelFails, watchers, bounds, Payments,
        NoPayment, PendingNow, PendingOnes
<1>4. NamesExist'
  BY DEF KInv, NamesExist, Found, Created, KScreen, KWatchers, KProbe, Questions, KRequest, OneRequest,
        AnswersTrue, CancelFails, watchers, bounds, Payments, NoPayment, PendingNow, PendingOnes
<1>5. OneRequest'
  BY DEF KInv, OneRequest, RequestScreen, CancelFails, watchers, bounds, Payments, NoPayment,
        PendingNow, PendingOnes
<1>6. RequestScreen'
  BY DEF KInv, RequestScreen, OneRequest, DecisionShown, NamesExist, KScreen, Steps, CancelFails,
        watchers, bounds, Payments, NoPayment, PendingNow, PendingOnes
<1>7. DecisionShown'
  BY DEF KInv, DecisionShown, KScreen, KRequest, RequestScreen, Steps, NamesExist, Found, Created,
        AnswersTrue, CancelFails, watchers, bounds, Payments, NoPayment, PendingNow, PendingOnes
<1>8. ShownDecisionIsTrue'
  BY DEF KInv, ShownDecisionIsTrue, DecisionShown, RequestScreen, KScreen, Steps, AnswersTrue,
        NamesExist, Found, Created, CancelFails, watchers, bounds, Payments, NoPayment, PendingNow,
        PendingOnes
<1> QED
  BY <1>1, <1>2, <1>3, <1>4, <1>5, <1>6, <1>7, <1>8 DEF KInv

\* No decision is shown that the server has not made, and none of the payment
\* of another opening, whatever its stream, its polls and its check answer and
\* when (useCheckoutPayment, checkout-machine.ts).
THEOREM NoDecisionIsInvented == CheckoutSpec => []CheckoutInv
<1>1. CheckoutInit => KInv
  <2> SUFFICES ASSUME CheckoutInit PROVE KInv
    OBVIOUS
  <2>1. Created = 1 .. 0
    BY DEF CheckoutInit, Created
  <2> QED
    <3>1. KScreen /\ KWatchers /\ KRequest /\ NamesExist /\ AnswersTrue
      BY DEF CheckoutInit, KScreen, Steps, KWatchers, KRequest, NamesExist, Found, AnswersTrue, NoPayment
    <3>2. KProbe
      BY CheckoutAssumption DEF CheckoutInit, KProbe
    <3>3. HandedOut
      BY <2>1, CheckoutAssumption DEF HandedOut
    <3> QED
      BY <3>1, <3>2, <3>3 DEF CheckoutInit, KInv, OneRequest, RequestScreen, DecisionShown, ShownDecisionIsTrue
<1>2. KInv /\ [CheckoutNext]_checkoutVars => KInv'
  <2> SUFFICES ASSUME KInv, [CheckoutNext]_checkoutVars PROVE KInv'
    OBVIOUS
  <2>1. CASE UNCHANGED checkoutVars
    BY <2>1 DEF checkoutVars, watchers, bounds, KInv, KScreen, KWatchers, KProbe, KRequest, HandedOut, NamesExist, Found,
       Created, AnswersTrue, OneRequest, RequestScreen, DecisionShown, ShownDecisionIsTrue
  <2>2. CASE CheckoutNext
    BY <2>2, KOpenDialog, KCloseDialog, KContinue, KRetryAfterRejection, KSubmit, KCancelPending, KHidePage, KShowTab,
       KStreamDelivers, KStreamBreaks, KAskStatus, KPollsRefused, KAdminDecides, KStatusAnswers, KProbeReads, KProbeAnswers,
       KProbeFails, KCreatePayment, KPaymentCreated, KPendingRefusal, KShowPending, KSubmitFails, KCancelPayment,
       KCancelled, KCancelFails DEF CheckoutNext
  <2> QED
    BY <2>1, <2>2
<1>3. KInv => CheckoutInv
  <2> SUFFICES ASSUME KInv PROVE CheckoutInv
    OBVIOUS
  <2>1. Cardinality(poll) <= 1
    <3>1. poll = {} \/ \E p \in Payments : poll = {p}
      BY DEF KInv, KWatchers
    <3>2. Cardinality({}) = 0 /\ \A p \in Payments : Cardinality({p}) = 1
      BY FS_EmptySet, FS_Singleton
    <3> QED
      BY <3>1, <3>2
  <2>2. OneRequestAtATime
    BY FS_EmptySet, FS_Singleton DEF KInv, OneRequest, RequestScreen, OneRequestAtATime
  <2>3. CheckoutTypeOK
    BY <2>1 DEF KInv, KScreen, KWatchers, KProbe, Questions, CheckoutTypeOK
  <2> QED
    BY <2>2, <2>3 DEF KInv, CheckoutInv
<1> QED
  BY <1>1, <1>2, <1>3, PTL DEF CheckoutSpec

-----------------------------------------------------------------------------
(* The session of the mobile application.                                  *)

\* The store is emptied before the screens say so, or by a wipe under way; a
\* login that is storing fills it while the screens still say the opposite.
StoreEmptied == status = "unauthenticated" /\ signing # "storing" /\ ~wiping => secureStore = 0
MInv == MobileTypeOK /\ StoreEmptied

LEMMA MLogouts ==
    /\ NoLogout \in Logouts
    /\ \A o \in OrNone : \A st \in {"no", "asking", "clearing"} : [stage |-> st, token |-> o] \in Logouts
  BY DEF NoLogout, Logouts, OrNone

LEMMA MOrphaned == ASSUME MInv, NEW rs, rs \subseteq requests PROVE Orphaned(rs) \subseteq Requests
  BY DEF MInv, MobileTypeOK, Orphaned, Requests

LEMMA MRestore == ASSUME MInv, Restore PROVE MInv'
<1>1. MobileTypeOK'
  <2>1. Req("boot", secureStore) \in Requests
    BY DEF MInv, MobileTypeOK, Req, Requests
  <2> QED
    BY <2>1 DEF MInv, MobileTypeOK, Restore, SignedOut, backendVars, OrNone
<1>2. StoreEmptied'
  BY DEF MInv, StoreEmptied, Restore, shownVars, backendVars, SignedOut, Req
<1> QED
  BY <1>1, <1>2 DEF MInv

LEMMA MRestartApp == ASSUME MInv, RestartApp PROVE MInv'
<1>1. MobileTypeOK'
  <2>1. outs' \in [1 .. MaxOuts -> Logouts] /\ changes' \in 0 .. MaxChanges
    BY MLogouts, MobileSessionAssumption DEF MInv, MobileTypeOK, RestartApp
  <2> QED
    BY <2>1 DEF MInv, MobileTypeOK, RestartApp, OrNone
<1>2. StoreEmptied'
  BY DEF MInv, StoreEmptied, RestartApp, shownVars, backendVars
<1> QED
  BY <1>1, <1>2 DEF MInv

LEMMA MLogin == ASSUME MInv, Login PROVE MInv'
<1>1. MobileTypeOK'
  BY MobileSessionAssumption DEF MInv, MobileTypeOK, OrNone, Tokens, Requests, Login, shownVars,
        backendVars
<1>2. StoreEmptied'
  BY DEF MInv, StoreEmptied, Login, shownVars, backendVars
<1> QED
  BY <1>1, <1>2 DEF MInv

LEMMA MLoginRefused == ASSUME MInv, LoginRefused PROVE MInv'
<1>1. MobileTypeOK'
  BY MobileSessionAssumption DEF MInv, MobileTypeOK, OrNone, Tokens, Requests, LoginRefused, shownVars,
        backendVars
<1>2. StoreEmptied'
  BY DEF MInv, StoreEmptied, LoginRefused, shownVars, backendVars
<1> QED
  BY <1>1, <1>2 DEF MInv

LEMMA MLoginAnswered == ASSUME MInv, LoginAnswered PROVE MInv'
<1>1. MobileTypeOK'
  BY MobileSessionAssumption DEF MInv, MobileTypeOK, OrNone, Tokens, Requests, LoginAnswered,
        shownVars, backendVars
<1>2. StoreEmptied'
  BY DEF MInv, StoreEmptied, LoginAnswered, shownVars, backendVars
<1> QED
  BY <1>1, <1>2 DEF MInv

LEMMA MSessionStored == ASSUME MInv, SessionStored PROVE MInv'
<1>1. MobileTypeOK'
  BY MobileSessionAssumption DEF MInv, MobileTypeOK, OrNone, Tokens, Requests, SessionStored,
        shownVars, backendVars
<1>2. StoreEmptied'
  BY DEF MInv, StoreEmptied, SessionStored, shownVars, backendVars
<1> QED
  BY <1>1, <1>2 DEF MInv

LEMMA MPressLogout == ASSUME MInv, PressLogout PROVE MInv'
<1>1. MobileTypeOK'
  <2>1. presses' \in 1 .. MaxOuts
    BY MobileSessionAssumption DEF MInv, MobileTypeOK, PressLogout
  <2>2. 0 \in OrNone /\ bearer \in OrNone
    BY DEF MInv, MobileTypeOK, OrNone
  <2>3. outs' \in [1 .. MaxOuts -> Logouts]
    <3>1. [stage |-> "asking", token |-> bearer] \in Logouts /\ [stage |-> "clearing", token |-> 0] \in Logouts
      BY <2>2, MLogouts
    <3> QED
      BY <2>1, <3>1 DEF MInv, MobileTypeOK, PressLogout
  <2>4. requests' \subseteq Requests /\ rechecked' \in BOOLEAN
    <3>1. CASE UNCHANGED <<requests, rechecked>>
      BY <3>1 DEF MInv, MobileTypeOK
    <3>2. CASE ClearCache(requests)
      BY <3>2, MOrphaned DEF ClearCache
    <3> QED
      BY <3>1, <3>2 DEF PressLogout
  <2>5. presses' \in 0 .. MaxOuts
    BY <2>1
  <2> QED
    BY <2>3, <2>4, <2>5 DEF MInv, MobileTypeOK, PressLogout, shownVars, backendVars
<1>2. StoreEmptied'
  BY DEF MInv, StoreEmptied, PressLogout, shownVars, backendVars
<1> QED
  BY <1>1, <1>2 DEF MInv

LEMMA MRevoke == ASSUME NEW i \in 1 .. MaxOuts, MInv, Revoke(i) PROVE MInv'
<1>1. MobileTypeOK'
  BY DEF MInv, MobileTypeOK, Revoke, shownVars, backendVars
<1>2. StoreEmptied'
  BY DEF MInv, StoreEmptied, Revoke, shownVars, backendVars
<1> QED
  BY <1>1, <1>2 DEF MInv

LEMMA MLogoutGoesOn == ASSUME NEW i \in 1 .. MaxOuts, MInv, LogoutGoesOn(i) PROVE MInv'
<1>1. MobileTypeOK'
  <2>1. outs' \in [1 .. MaxOuts -> Logouts]
    <3>1. [outs[i] EXCEPT !.stage = "clearing"] \in Logouts
      BY DEF MInv, MobileTypeOK, Logouts
    <3> QED
      BY <3>1 DEF MInv, MobileTypeOK, LogoutGoesOn
  <2>2. requests' \subseteq Requests
    BY MOrphaned DEF LogoutGoesOn, ClearCache
  <2> QED
    BY <2>1, <2>2 DEF MInv, MobileTypeOK, LogoutGoesOn, ClearCache, shownVars, backendVars, OrNone
<1>2. StoreEmptied'
  BY DEF MInv, StoreEmptied, LogoutGoesOn, shownVars, backendVars, ClearCache, Orphaned
<1> QED
  BY <1>1, <1>2 DEF MInv

LEMMA MLogoutEnds == ASSUME NEW i \in 1 .. MaxOuts, MInv, LogoutEnds(i) PROVE MInv'
<1>1. MobileTypeOK'
  <2>1. outs' \in [1 .. MaxOuts -> Logouts]
    BY MLogouts DEF MInv, MobileTypeOK, LogoutEnds
  <2> QED
    BY <2>1 DEF MInv, MobileTypeOK, LogoutEnds, SignedOut, shownVars, backendVars, OrNone
<1>2. StoreEmptied'
  BY DEF MInv, StoreEmptied, LogoutEnds, shownVars, backendVars, SignedOut
<1> QED
  BY <1>1, <1>2 DEF MInv

LEMMA MAskScreen == ASSUME MInv, AskScreen PROVE MInv'
<1>1. MobileTypeOK'
  BY MobileSessionAssumption DEF MInv, MobileTypeOK, OrNone, Tokens, Requests, AskScreen, shownVars,
        backendVars, Req
<1>2. StoreEmptied'
  BY DEF MInv, StoreEmptied, AskScreen, shownVars, backendVars, Req
<1> QED
  BY <1>1, <1>2 DEF MInv

LEMMA MServe == ASSUME NEW r \in requests, MInv, Serve(r) PROVE MInv'
<1>1. MobileTypeOK'
  <2>1. [r EXCEPT !.answer = UserCheck(r.token)] \in Requests
    BY DEF MInv, MobileTypeOK, Requests, UserCheck
  <2>2. requests' \subseteq Requests
    BY <2>1 DEF MInv, MobileTypeOK, Serve
  <2> QED
    BY <2>2 DEF MInv, MobileTypeOK, OrNone, Tokens, Serve, shownVars, backendVars
<1>2. StoreEmptied'
  BY DEF MInv, StoreEmptied, Serve, shownVars, backendVars, UserCheck
<1> QED
  BY <1>1, <1>2 DEF MInv

LEMMA MGiveUp == ASSUME NEW r \in requests, MInv, GiveUp(r) PROVE MInv'
<1>1. MobileTypeOK'
  BY MobileSessionAssumption DEF MInv, MobileTypeOK, OrNone, Tokens, Requests, GiveUp, shownVars,
        backendVars
<1>2. StoreEmptied'
  BY DEF MInv, StoreEmptied, GiveUp, shownVars, backendVars
<1> QED
  BY <1>1, <1>2 DEF MInv

LEMMA MLand200 == ASSUME NEW r \in requests, MInv, Land200(r) PROVE MInv'
<1>1. MobileTypeOK'
  BY MobileSessionAssumption DEF MInv, MobileTypeOK, OrNone, Tokens, Requests, Land200, shownVars,
        backendVars
<1>2. StoreEmptied'
  BY DEF MInv, StoreEmptied, Land200, shownVars, backendVars
<1> QED
  BY <1>1, <1>2 DEF MInv

LEMMA MLand401 == ASSUME NEW r \in requests, MInv, Land401(r) PROVE MInv'
<1>1. MobileTypeOK'
  <2>1. Orphaned(requests \ {r}) \subseteq Requests
    BY MOrphaned
  <2> QED
    BY <2>1 DEF MInv, MobileTypeOK, Land401, ClearCache, SignedOut, shownVars, backendVars, OrNone
<1>2. StoreEmptied'
  BY DEF MInv, StoreEmptied, Land401, shownVars, backendVars, ClearCache, Orphaned, SignedOut
<1> QED
  BY <1>1, <1>2 DEF MInv

LEMMA MLand403 == ASSUME NEW r \in requests, MInv, Land403(r) PROVE MInv'
<1>1. MobileTypeOK'
  BY MobileSessionAssumption DEF MInv, MobileTypeOK, OrNone, Tokens, Requests, Land403, shownVars,
        backendVars
<1>2. StoreEmptied'
  BY DEF MInv, StoreEmptied, Land403, shownVars, backendVars
<1> QED
  BY <1>1, <1>2 DEF MInv

LEMMA MReinstated == ASSUME MInv, Reinstated PROVE MInv'
<1>1. MobileTypeOK'
  <2>1. requests' \subseteq Requests
    BY MOrphaned DEF Reinstated, ClearCache
  <2> QED
    BY <2>1 DEF MInv, MobileTypeOK, Reinstated, ClearCache, shownVars, backendVars
<1>2. StoreEmptied'
  BY DEF MInv, StoreEmptied, Reinstated, ClearCache, shownVars, backendVars
<1> QED
  BY <1>1, <1>2 DEF MInv

LEMMA MWiped == ASSUME MInv, Wiped PROVE MInv'
<1>1. MobileTypeOK'
  BY MobileSessionAssumption DEF MInv, MobileTypeOK, OrNone, Tokens, Requests, Wiped, shownVars,
        backendVars
<1>2. StoreEmptied'
  BY DEF MInv, StoreEmptied, Wiped, shownVars, backendVars
<1> QED
  BY <1>1, <1>2 DEF MInv

LEMMA MDedupeEnds == ASSUME MInv, DedupeEnds PROVE MInv'
<1>1. MobileTypeOK'
  BY MobileSessionAssumption DEF MInv, MobileTypeOK, OrNone, Tokens, Requests, DedupeEnds, shownVars,
        backendVars
<1>2. StoreEmptied'
  BY DEF MInv, StoreEmptied, DedupeEnds, shownVars, backendVars
<1> QED
  BY <1>1, <1>2 DEF MInv

LEMMA MExpires == ASSUME NEW t \in Tokens, MInv, Expires(t) PROVE MInv'
<1>1. MobileTypeOK'
  BY MobileSessionAssumption DEF MInv, MobileTypeOK, OrNone, Tokens, Requests, Expires, shownVars,
        backendVars
<1>2. StoreEmptied'
  BY DEF MInv, StoreEmptied, Expires, shownVars, backendVars
<1> QED
  BY <1>1, <1>2 DEF MInv

LEMMA MTurnTenant == ASSUME MInv, TurnTenant PROVE MInv'
<1>1. MobileTypeOK'
  BY MobileSessionAssumption DEF MInv, MobileTypeOK, OrNone, Tokens, Requests, TurnTenant, shownVars,
        backendVars
<1>2. StoreEmptied'
  BY DEF MInv, StoreEmptied, TurnTenant, shownVars, backendVars
<1> QED
  BY <1>1, <1>2 DEF MInv

-----------------------------------------------------------------------------
(* The session of the browser's tab.                                       *)

\* Only a mounted dashboard saves, and only somebody is admitted to it.
SavesWhileMounted == place # "dashboard" => save = "none"
DashboardHasCookie == place = "dashboard" => cookie # Nobody
WInv == SessionTypeOK /\ LoginFindsNoLeftovers /\ SavesWhileMounted /\ DashboardHasCookie

LEMMA WVisit == ASSUME WInv, Visit PROVE WInv'
<1>1. SessionTypeOK'
  BY DEF WInv, SessionTypeOK, DashboardHasCookie, Kinds, Forms, Visit, tabVars, serverVars, Load,
        Mount, Admitted, LoginWipe, Hydrated
<1>2. LoginFindsNoLeftovers'
  BY DEF WInv, LoginFindsNoLeftovers, SavesWhileMounted, SessionTypeOK, Kinds, Forms, Visit, tabVars,
        serverVars, Load, Mount, Admitted, LoginWipe, Hydrated
<1>3. SavesWhileMounted'
  BY DEF WInv, SavesWhileMounted, Forms, Visit, tabVars, serverVars, Load, Mount, Admitted, LoginWipe,
        Hydrated
<1>4. DashboardHasCookie'
  BY DEF WInv, DashboardHasCookie, SessionTypeOK, Forms, Visit, tabVars, serverVars, Load, Mount,
        Admitted, LoginWipe, Hydrated
<1> QED
  BY <1>1, <1>2, <1>3, <1>4 DEF WInv

LEMMA WFollow == ASSUME WInv, Follow PROVE WInv'
<1>1. SessionTypeOK'
  BY DEF WInv, SessionTypeOK, DashboardHasCookie, Kinds, Forms, Follow, tabVars, serverVars, Mount,
        LoginWipe, Hydrated
<1>2. LoginFindsNoLeftovers'
  BY DEF WInv, LoginFindsNoLeftovers, SavesWhileMounted, SessionTypeOK, Kinds, Forms, Follow, tabVars,
        serverVars, Mount, LoginWipe, Hydrated
<1>3. SavesWhileMounted'
  BY DEF WInv, SavesWhileMounted, Forms, Follow, tabVars, serverVars, Mount, LoginWipe, Hydrated
<1>4. DashboardHasCookie'
  BY DEF WInv, DashboardHasCookie, SessionTypeOK, Forms, Follow, tabVars, serverVars, Mount, LoginWipe,
        Hydrated
<1> QED
  BY <1>1, <1>2, <1>3, <1>4 DEF WInv

LEMMA WAsk == ASSUME NEW k \in Kinds, WInv, Ask(k) PROVE WInv'
<1>1. SessionTypeOK'
  BY DEF WInv, SessionTypeOK, DashboardHasCookie, Kinds, Forms, Ask, tabVars, serverVars, Verdict
<1>2. LoginFindsNoLeftovers'
  BY DEF WInv, LoginFindsNoLeftovers, SavesWhileMounted, SessionTypeOK, Kinds, Forms, Ask, tabVars,
        serverVars, Verdict
<1>3. SavesWhileMounted'
  BY DEF WInv, SavesWhileMounted, Forms, Ask, tabVars, serverVars, Verdict
<1>4. DashboardHasCookie'
  BY DEF WInv, DashboardHasCookie, SessionTypeOK, Forms, Ask, tabVars, serverVars, Verdict
<1> QED
  BY <1>1, <1>2, <1>3, <1>4 DEF WInv

LEMMA WLandPage == ASSUME WInv, LandPage PROVE WInv'
<1>1. SessionTypeOK'
  BY DEF WInv, SessionTypeOK, DashboardHasCookie, Kinds, Forms, LandPage, tabVars, serverVars,
        Announces, ExpiryJourney, Armed
<1>2. LoginFindsNoLeftovers'
  BY DEF WInv, LoginFindsNoLeftovers, SavesWhileMounted, SessionTypeOK, Kinds, Forms, LandPage,
        tabVars, serverVars, Announces, ExpiryJourney, Armed
<1>3. SavesWhileMounted'
  BY DEF WInv, SavesWhileMounted, Forms, LandPage, tabVars, serverVars, Announces, ExpiryJourney, Armed
<1>4. DashboardHasCookie'
  BY DEF WInv, DashboardHasCookie, SessionTypeOK, Forms, LandPage, tabVars, serverVars, Announces,
        ExpiryJourney, Armed
<1> QED
  BY <1>1, <1>2, <1>3, <1>4 DEF WInv

LEMMA WLandGate == ASSUME WInv, LandGate PROVE WInv'
<1>1. SessionTypeOK'
  BY DEF WInv, SessionTypeOK, DashboardHasCookie, Kinds, Forms, LandGate, tabVars, serverVars, Armed
<1>2. LoginFindsNoLeftovers'
  BY DEF WInv, LoginFindsNoLeftovers, SavesWhileMounted, SessionTypeOK, Kinds, Forms, LandGate,
        tabVars, serverVars, Armed
<1>3. SavesWhileMounted'
  BY DEF WInv, SavesWhileMounted, Forms, LandGate, tabVars, serverVars, Armed
<1>4. DashboardHasCookie'
  BY DEF WInv, DashboardHasCookie, SessionTypeOK, Forms, LandGate, tabVars, serverVars, Armed
<1> QED
  BY <1>1, <1>2, <1>3, <1>4 DEF WInv

LEMMA WGateLeaves == ASSUME WInv, GateLeaves PROVE WInv'
<1>1. SessionTypeOK'
  BY DEF WInv, SessionTypeOK, DashboardHasCookie, Kinds, Forms, GateLeaves, tabVars, serverVars, Load,
        Mount, Admitted, LoginWipe, Hydrated
<1>2. LoginFindsNoLeftovers'
  BY DEF WInv, LoginFindsNoLeftovers, SavesWhileMounted, SessionTypeOK, Kinds, Forms, GateLeaves,
        tabVars, serverVars, Load, Mount, Admitted, LoginWipe, Hydrated
<1>3. SavesWhileMounted'
  BY DEF WInv, SavesWhileMounted, Forms, GateLeaves, tabVars, serverVars, Load, Mount, Admitted,
        LoginWipe, Hydrated
<1>4. DashboardHasCookie'
  BY DEF WInv, DashboardHasCookie, SessionTypeOK, Forms, GateLeaves, tabVars, serverVars, Load, Mount,
        Admitted, LoginWipe, Hydrated
<1> QED
  BY <1>1, <1>2, <1>3, <1>4 DEF WInv

LEMMA WLandCheck == ASSUME WInv, LandCheck PROVE WInv'
<1>1. SessionTypeOK'
  BY DEF WInv, SessionTypeOK, DashboardHasCookie, Kinds, Forms, LandCheck, tabVars, serverVars, Load,
        Mount, Admitted, LoginWipe, Hydrated
<1>2. LoginFindsNoLeftovers'
  BY DEF WInv, LoginFindsNoLeftovers, SavesWhileMounted, SessionTypeOK, Kinds, Forms, LandCheck,
        tabVars, serverVars, Load, Mount, Admitted, LoginWipe, Hydrated
<1>3. SavesWhileMounted'
  BY DEF WInv, SavesWhileMounted, Forms, LandCheck, tabVars, serverVars, Load, Mount, Admitted,
        LoginWipe, Hydrated
<1>4. DashboardHasCookie'
  BY DEF WInv, DashboardHasCookie, SessionTypeOK, Forms, LandCheck, tabVars, serverVars, Load, Mount,
        Admitted, LoginWipe, Hydrated
<1> QED
  BY <1>1, <1>2, <1>3, <1>4 DEF WInv

LEMMA WLandStray == ASSUME WInv, LandStray PROVE WInv'
<1>1. SessionTypeOK'
  BY DEF WInv, SessionTypeOK, DashboardHasCookie, Kinds, Forms, LandStray, tabVars, serverVars,
        Announces, ExpiryJourney, Armed
<1>2. LoginFindsNoLeftovers'
  BY DEF WInv, LoginFindsNoLeftovers, SavesWhileMounted, SessionTypeOK, Kinds, Forms, LandStray,
        tabVars, serverVars, Announces, ExpiryJourney, Armed
<1>3. SavesWhileMounted'
  BY DEF WInv, SavesWhileMounted, Forms, LandStray, tabVars, serverVars, Announces, ExpiryJourney, Armed
<1>4. DashboardHasCookie'
  BY DEF WInv, DashboardHasCookie, SessionTypeOK, Forms, LandStray, tabVars, serverVars, Announces,
        ExpiryJourney, Armed
<1> QED
  BY <1>1, <1>2, <1>3, <1>4 DEF WInv

LEMMA WFlush == ASSUME WInv, Flush PROVE WInv'
<1>1. SessionTypeOK'
  BY DEF WInv, SessionTypeOK, DashboardHasCookie, Kinds, Forms, Flush, tabVars, serverVars, Payload
<1>2. LoginFindsNoLeftovers'
  BY DEF WInv, LoginFindsNoLeftovers, SavesWhileMounted, SessionTypeOK, Kinds, Forms, Flush, tabVars,
        serverVars, Payload
<1>3. SavesWhileMounted'
  BY DEF WInv, SavesWhileMounted, Forms, Flush, tabVars, serverVars, Payload
<1>4. DashboardHasCookie'
  BY DEF WInv, DashboardHasCookie, SessionTypeOK, Forms, Flush, tabVars, serverVars, Payload
<1> QED
  BY <1>1, <1>2, <1>3, <1>4 DEF WInv

LEMMA WRedirect == ASSUME WInv, Redirect PROVE WInv'
<1>1. SessionTypeOK'
  BY DEF WInv, SessionTypeOK, DashboardHasCookie, Kinds, Forms, Redirect, tabVars, serverVars, Load,
        Mount, Admitted, LoginWipe, Hydrated
<1>2. LoginFindsNoLeftovers'
  BY DEF WInv, LoginFindsNoLeftovers, SavesWhileMounted, SessionTypeOK, Kinds, Forms, Redirect,
        tabVars, serverVars, Load, Mount, Admitted, LoginWipe, Hydrated
<1>3. SavesWhileMounted'
  BY DEF WInv, SavesWhileMounted, Forms, Redirect, tabVars, serverVars, Load, Mount, Admitted,
        LoginWipe, Hydrated
<1>4. DashboardHasCookie'
  BY DEF WInv, DashboardHasCookie, SessionTypeOK, Forms, Redirect, tabVars, serverVars, Load, Mount,
        Admitted, LoginWipe, Hydrated
<1> QED
  BY <1>1, <1>2, <1>3, <1>4 DEF WInv

LEMMA WWindowEnds == ASSUME WInv, WindowEnds PROVE WInv'
<1>1. SessionTypeOK'
  BY DEF WInv, SessionTypeOK, DashboardHasCookie, Kinds, Forms, WindowEnds, tabVars, serverVars
<1>2. LoginFindsNoLeftovers'
  BY DEF WInv, LoginFindsNoLeftovers, SavesWhileMounted, SessionTypeOK, Kinds, Forms, WindowEnds,
        tabVars, serverVars
<1>3. SavesWhileMounted'
  BY DEF WInv, SavesWhileMounted, Forms, WindowEnds, tabVars, serverVars
<1>4. DashboardHasCookie'
  BY DEF WInv, DashboardHasCookie, SessionTypeOK, Forms, WindowEnds, tabVars, serverVars
<1> QED
  BY <1>1, <1>2, <1>3, <1>4 DEF WInv

LEMMA WLand == ASSUME WInv, Land PROVE WInv'
<1>1. SessionTypeOK'
  BY DEF WInv, SessionTypeOK, DashboardHasCookie, Kinds, Forms, Land, tabVars, serverVars, Load, Mount,
        Admitted, LoginWipe, Hydrated
<1>2. LoginFindsNoLeftovers'
  BY DEF WInv, LoginFindsNoLeftovers, SavesWhileMounted, SessionTypeOK, Kinds, Forms, Land, tabVars,
        serverVars, Load, Mount, Admitted, LoginWipe, Hydrated
<1>3. SavesWhileMounted'
  BY DEF WInv, SavesWhileMounted, Forms, Land, tabVars, serverVars, Load, Mount, Admitted, LoginWipe,
        Hydrated
<1>4. DashboardHasCookie'
  BY DEF WInv, DashboardHasCookie, SessionTypeOK, Forms, Land, tabVars, serverVars, Load, Mount,
        Admitted, LoginWipe, Hydrated
<1> QED
  BY <1>1, <1>2, <1>3, <1>4 DEF WInv

LEMMA WSubmitCredentials == ASSUME WInv, SubmitCredentials PROVE WInv'
<1>1. SessionTypeOK'
  BY DEF WInv, SessionTypeOK, DashboardHasCookie, Kinds, Forms, SubmitCredentials, tabVars, serverVars
<1>2. LoginFindsNoLeftovers'
  BY DEF WInv, LoginFindsNoLeftovers, SavesWhileMounted, SessionTypeOK, Kinds, Forms,
        SubmitCredentials, tabVars, serverVars
<1>3. SavesWhileMounted'
  BY DEF WInv, SavesWhileMounted, Forms, SubmitCredentials, tabVars, serverVars
<1>4. DashboardHasCookie'
  BY DEF WInv, DashboardHasCookie, SessionTypeOK, Forms, SubmitCredentials, tabVars, serverVars
<1> QED
  BY <1>1, <1>2, <1>3, <1>4 DEF WInv

LEMMA WAnswered == ASSUME WInv, Answered PROVE WInv'
<1>1. SessionTypeOK'
  BY DEF WInv, SessionTypeOK, DashboardHasCookie, Kinds, Forms, Answered, tabVars, serverVars, Refused,
        SignedIn
<1>2. LoginFindsNoLeftovers'
  BY DEF WInv, LoginFindsNoLeftovers, SavesWhileMounted, SessionTypeOK, Kinds, Forms, Answered,
        tabVars, serverVars, Refused, SignedIn
<1>3. SavesWhileMounted'
  BY DEF WInv, SavesWhileMounted, Forms, Answered, tabVars, serverVars, Refused, SignedIn
<1>4. DashboardHasCookie'
  BY DEF WInv, DashboardHasCookie, SessionTypeOK, Forms, Answered, tabVars, serverVars, Refused,
        SignedIn
<1> QED
  BY <1>1, <1>2, <1>3, <1>4 DEF WInv

LEMMA WLockoutEnds == ASSUME WInv, LockoutEnds PROVE WInv'
<1>1. SessionTypeOK'
  BY DEF WInv, SessionTypeOK, DashboardHasCookie, Kinds, Forms, LockoutEnds, tabVars, serverVars
<1>2. LoginFindsNoLeftovers'
  BY DEF WInv, LoginFindsNoLeftovers, SavesWhileMounted, SessionTypeOK, Kinds, Forms, LockoutEnds,
        tabVars, serverVars
<1>3. SavesWhileMounted'
  BY DEF WInv, SavesWhileMounted, Forms, LockoutEnds, tabVars, serverVars
<1>4. DashboardHasCookie'
  BY DEF WInv, DashboardHasCookie, SessionTypeOK, Forms, LockoutEnds, tabVars, serverVars
<1> QED
  BY <1>1, <1>2, <1>3, <1>4 DEF WInv

LEMMA WLogout == ASSUME WInv, Logout PROVE WInv'
<1>1. SessionTypeOK'
  BY DEF WInv, SessionTypeOK, DashboardHasCookie, Kinds, Forms, Logout, tabVars, serverVars, Mount,
        LoginWipe, Hydrated
<1>2. LoginFindsNoLeftovers'
  BY DEF WInv, LoginFindsNoLeftovers, SavesWhileMounted, SessionTypeOK, Kinds, Forms, Logout, tabVars,
        serverVars, Mount, LoginWipe, Hydrated
<1>3. SavesWhileMounted'
  BY DEF WInv, SavesWhileMounted, Forms, Logout, tabVars, serverVars, Mount, LoginWipe, Hydrated
<1>4. DashboardHasCookie'
  BY DEF WInv, DashboardHasCookie, SessionTypeOK, Forms, Logout, tabVars, serverVars, Mount, LoginWipe,
        Hydrated
<1> QED
  BY <1>1, <1>2, <1>3, <1>4 DEF WInv

LEMMA WLogoutSuspended == ASSUME WInv, LogoutSuspended PROVE WInv'
<1>1. SessionTypeOK'
  BY DEF WInv, SessionTypeOK, DashboardHasCookie, Kinds, Forms, LogoutSuspended, tabVars, serverVars,
        Load, Mount, Admitted, LoginWipe, Hydrated
<1>2. LoginFindsNoLeftovers'
  BY DEF WInv, LoginFindsNoLeftovers, SavesWhileMounted, SessionTypeOK, Kinds, Forms, LogoutSuspended,
        tabVars, serverVars, Load, Mount, Admitted, LoginWipe, Hydrated
<1>3. SavesWhileMounted'
  BY DEF WInv, SavesWhileMounted, Forms, LogoutSuspended, tabVars, serverVars, Load, Mount, Admitted,
        LoginWipe, Hydrated
<1>4. DashboardHasCookie'
  BY DEF WInv, DashboardHasCookie, SessionTypeOK, Forms, LogoutSuspended, tabVars, serverVars, Load,
        Mount, Admitted, LoginWipe, Hydrated
<1> QED
  BY <1>1, <1>2, <1>3, <1>4 DEF WInv

LEMMA WExpire == ASSUME WInv, Expire PROVE WInv'
<1>1. SessionTypeOK'
  BY DEF WInv, SessionTypeOK, DashboardHasCookie, Kinds, Forms, Expire, tabVars, serverVars
<1>2. LoginFindsNoLeftovers'
  BY DEF WInv, LoginFindsNoLeftovers, SavesWhileMounted, SessionTypeOK, Kinds, Forms, Expire, tabVars,
        serverVars
<1>3. SavesWhileMounted'
  BY DEF WInv, SavesWhileMounted, Forms, Expire, tabVars, serverVars
<1>4. DashboardHasCookie'
  BY DEF WInv, DashboardHasCookie, SessionTypeOK, Forms, Expire, tabVars, serverVars
<1> QED
  BY <1>1, <1>2, <1>3, <1>4 DEF WInv

LEMMA WSuspend == ASSUME WInv, Suspend PROVE WInv'
<1>1. SessionTypeOK'
  BY DEF WInv, SessionTypeOK, DashboardHasCookie, Kinds, Forms, Suspend, tabVars, serverVars
<1>2. LoginFindsNoLeftovers'
  BY DEF WInv, LoginFindsNoLeftovers, SavesWhileMounted, SessionTypeOK, Kinds, Forms, Suspend, tabVars,
        serverVars
<1>3. SavesWhileMounted'
  BY DEF WInv, SavesWhileMounted, Forms, Suspend, tabVars, serverVars
<1>4. DashboardHasCookie'
  BY DEF WInv, DashboardHasCookie, SessionTypeOK, Forms, Suspend, tabVars, serverVars
<1> QED
  BY <1>1, <1>2, <1>3, <1>4 DEF WInv

\* A device whose user is signed out keeps no token for the next start, and a
\* tab that is asked to sign in holds nothing of the session before: not by a
\* late answer, a failed sign-out, an overlapping storage write or another
\* tab's login (session.ts of the application, the web's AuthGuard and api.ts).
THEOREM SessionsHold == MobileSpec /\ SessionSpec => []SessionsInv
<1>1. MobileInit => MInv
  <2> SUFFICES ASSUME MobileInit PROVE MInv
    OBVIOUS
  <2>1. valid \subseteq 1 .. issued /\ issued \in OrNone /\ secureStore \in OrNone
    BY MobileSessionAssumption DEF MobileInit, OrNone, Tokens
  <2>2. changes \in 0 .. MaxChanges /\ presses \in 0 .. MaxOuts /\ outs \in [1 .. MaxOuts -> Logouts]
    BY MLogouts, MobileSessionAssumption DEF MobileInit
  <2> QED
    BY <2>1, <2>2 DEF MobileInit, MInv, MobileTypeOK, OrNone, StoreEmptied
<1>2. MInv /\ [MobileNext]_mobileVars => MInv'
  <2> SUFFICES ASSUME MInv, [MobileNext]_mobileVars PROVE MInv'
    OBVIOUS
  <2>1. CASE UNCHANGED mobileVars
    BY <2>1 DEF mobileVars, MInv, MobileTypeOK, StoreEmptied
  <2>2. CASE MobileNext
    BY <2>2, MRestore, MRestartApp, MLogin, MLoginRefused, MLoginAnswered, MSessionStored,
        MPressLogout, MRevoke, MLogoutGoesOn, MLogoutEnds, MAskScreen, MServe, MGiveUp, MLand200,
        MLand401, MLand403, MReinstated, MWiped, MDedupeEnds, MExpires, MTurnTenant DEF MobileNext, MobileTasks
  <2> QED
    BY <2>1, <2>2
<1>3. SessionInit => WInv
  BY DEF SessionInit, WInv, SessionTypeOK, LoginFindsNoLeftovers, SavesWhileMounted, DashboardHasCookie
<1>4. WInv /\ [SessionNext]_sessionVars => WInv'
  <2> SUFFICES ASSUME WInv, [SessionNext]_sessionVars PROVE WInv'
    OBVIOUS
  <2>1. CASE UNCHANGED sessionVars
    BY <2>1 DEF sessionVars, tabVars, serverVars, WInv, SessionTypeOK, LoginFindsNoLeftovers, SavesWhileMounted,
       DashboardHasCookie
  <2>2. CASE SessionNext
    BY <2>2, WVisit, WFollow, WAsk, WLandPage, WLandGate, WGateLeaves, WLandCheck, WLandStray, WFlush,
        WRedirect, WWindowEnds, WLand, WSubmitCredentials, WAnswered, WLockoutEnds, WLogout,
        WLogoutSuspended, WExpire, WSuspend DEF SessionNext
  <2> QED
    BY <2>1, <2>2
<1>5. MInv /\ WInv => SessionsInv
  BY DEF MInv, StoreEmptied, WInv, SessionsInv, MobileInv, NothingIsKept, TabInv
<1> QED
  BY <1>1, <1>2, <1>3, <1>4, <1>5, PTL DEF MobileSpec, SessionSpec
=============================================================================
