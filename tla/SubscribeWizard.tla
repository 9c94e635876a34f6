--------------------------- MODULE SubscribeWizard ---------------------------
(***************************************************************************)
(* The subscribe page around the payment dialog: built-in plans are shown  *)
(* at once and replaced by the server's when they arrive; a plan is chosen *)
(* (or named by the link), reviewed and paid for.  The dialog is mounted   *)
(* as soon as there is a chosen plan, and its bank amount starts from the  *)
(* price of that moment (what is typed over it is left out).               *)
(***************************************************************************)
EXTENDS Naturals, FiniteSets

CONSTANTS BuiltIn,     \* ids of the built-in plans
          ServerLists, \* lists of ids the server may have
          Price,       \* Price[source][id]
          NoPlan,
          MaxFetches   \* bound: requests for the plans

ASSUME WizardAssumption == MaxFetches \in Nat \ {0}

VARIABLES served,    \* the server's list
          link,      \* the plan named by the link, or NoPlan
          source,    \* the list shown: "default" or "server"
          banner,    \* the plans could not be loaded
          selected, wizard, payOpen,
          amount,    \* the dialog's bank amount; {} when it is not mounted
          fetching,  \* requests for the plans: [nr, tries]
          fetches,
          chosen,    \* history: the last plan pressed
          payRequest    \* history: the payment request sent last

wizardVars == <<served, link, source, banner, selected, wizard, payOpen, amount, fetching, fetches, chosen, payRequest>>

Listed(src) == IF src = "server" THEN served ELSE BuiltIn
Current(src, id) == IF id \in Listed(src) THEN {<<id, Price[src][id]>>} ELSE {}
CurrentPlan == Current(source, selected)
PriceOf(plan) == {p[2] : p \in plan}

\* The dialog covers the page while it is open and mounted.
Covered == payOpen /\ CurrentPlan # {}

\* useState(price) counts once per mount.
AmountAfter(plan) ==
    IF plan = {} THEN {} ELSE IF amount = {} THEN PriceOf(plan) ELSE amount

WizardTypeOK ==
    /\ served \in ServerLists /\ source \in {"default", "server"} /\ wizard \in {"plan", "review"}
    /\ selected \in BuiltIn \cup served \cup {NoPlan} /\ Cardinality(amount) <= 1
    /\ payOpen \in BOOLEAN /\ fetches \in 0 .. MaxFetches

WizardInit ==
    /\ served \in ServerLists /\ link \in BuiltIn \cup {NoPlan}
    /\ source = "default" /\ banner = FALSE /\ selected = link
    /\ wizard = (IF link = NoPlan THEN "plan" ELSE "review")
    /\ payOpen = FALSE /\ amount = PriceOf(Current("default", link))
    /\ fetching = {[nr |-> 1, tries |-> 2]} /\ fetches = 1
    /\ chosen = NoPlan /\ payRequest = {}

\* The dialog sees the plan it is given next.
Show(src, id) == source' = src /\ selected' = id /\ amount' = AmountAfter(Current(src, id))

SelectPlan(id) ==
    /\ wizard = "plan" /\ ~Covered /\ id \in Listed(source)
    /\ Show(source, id) /\ chosen' = id
    /\ UNCHANGED <<served, link, banner, wizard, payOpen, fetching, fetches, payRequest>>

Review ==
    /\ wizard = "plan" /\ ~Covered /\ selected # NoPlan /\ wizard' = "review"
    /\ UNCHANGED <<served, link, source, banner, selected, payOpen, amount, fetching, fetches, chosen, payRequest>>
BackToPlans ==
    /\ wizard = "review" /\ ~Covered /\ wizard' = "plan"
    /\ UNCHANGED <<served, link, source, banner, selected, payOpen, amount, fetching, fetches, chosen, payRequest>>

Pay ==
    /\ wizard = "review" /\ ~payOpen /\ CurrentPlan # {} /\ payOpen' = TRUE
    /\ UNCHANGED <<served, link, source, banner, selected, wizard, amount, fetching, fetches, chosen, payRequest>>
ClosePayment ==
    /\ Covered /\ payOpen' = FALSE /\ amount' = PriceOf(CurrentPlan)
    /\ UNCHANGED <<served, link, source, banner, selected, wizard, fetching, fetches, chosen, payRequest>>
-----------------------------------------------------------------------------
\* The server's check of the plan and of its price: a wallet's amount has to
\* be the price, a bank's at least half of it.
Accepts(id, way, sum) ==
    /\ id \in served
    /\ IF way = "wallet" THEN sum = Price["server"][id] ELSE sum = 0 \/ 2 * sum >= Price["server"][id]
Filed(id, sum) == IF sum = 0 THEN Price["server"][id] ELSE sum

\* A wallet pays the price that is shown, a bank the dialog's amount.
Sums(way) == IF way = "wallet" THEN PriceOf(CurrentPlan) ELSE amount
BankSums(way) == amount                                                \* mutant

\* handleSent; whether a request is under way or pending already is Checkout's.
SubmitPayment(way) ==
    /\ Covered
    /\ \E sum \in Sums(way) :
          payRequest' = {[plan |-> selected, way |-> way, sum |-> sum, shown |-> source, pressed |-> chosen,
                       accepted |-> Accepts(selected, way, sum)]}
    /\ UNCHANGED <<served, link, source, banner, selected, wizard, payOpen, amount, fetching, fetches, chosen>>
\* Back to the form after a rejection.
TryAgain ==
    /\ Covered /\ (\E r \in payRequest : r.accepted) /\ amount' = PriceOf(CurrentPlan)
    /\ UNCHANGED <<served, link, source, banner, selected, wizard, payOpen, fetching, fetches, chosen, payRequest>>
-----------------------------------------------------------------------------
FirstServed == IF selected \in served THEN selected                    \* mutant
               ELSE CHOOSE id \in served : \A other \in served : id <= other

\* The plans arrive: an empty list keeps what is shown; the link's plan is
\* looked up again, by id, then by position, and selected.
AtPosition(n) == {id \in served : Cardinality({x \in served : x <= id}) = n}
Linked == IF link = NoPlan THEN {} ELSE IF link \in served THEN {link} ELSE AtPosition(link)
Resolve == IF Linked = {} THEN selected ELSE CHOOSE id \in Linked : TRUE

PlansArrive(f) ==
    /\ fetching' = fetching \ {f}
    /\ banner' = FALSE
    /\ Show("server", Resolve)
    /\ UNCHANGED <<served, link, wizard, payOpen, fetches, chosen, payRequest>>
\* An empty answer, or the last failure.
PlansMissing(f) ==
    /\ fetching' = fetching \ {f} /\ banner' = TRUE
    /\ UNCHANGED <<served, link, source, selected, wizard, payOpen, amount, fetches, chosen, payRequest>>
\* The first failure is retried after a second.
FetchAgain(f) ==
    /\ f.tries = 2 /\ fetches < MaxFetches /\ fetches' = fetches + 1
    /\ fetching' = (fetching \ {f}) \cup {[nr |-> fetches', tries |-> 1]}
    /\ UNCHANGED <<served, link, source, banner, selected, wizard, payOpen, amount, chosen, payRequest>>
RetryPlans ==
    /\ banner /\ wizard = "plan" /\ ~Covered /\ banner' = FALSE
    /\ fetches < MaxFetches /\ fetches' = fetches + 1
    /\ fetching' = fetching \cup {[nr |-> fetches', tries |-> 1]}
    /\ UNCHANGED <<served, link, source, selected, wizard, payOpen, amount, chosen, payRequest>>

WizardNext ==
    \/ \E id \in BuiltIn \cup served : SelectPlan(id)
    \/ Review \/ BackToPlans \/ Pay \/ ClosePayment \/ RetryPlans \/ TryAgain
    \/ \E way \in {"wallet", "bank"} : SubmitPayment(way)
    \/ \E f \in fetching : PlansArrive(f) \/ PlansMissing(f) \/ FetchAgain(f)

WizardSpec == WizardInit /\ [][WizardNext]_wizardVars
-----------------------------------------------------------------------------
\* Without a link, the plan pressed last stays the selected one, whatever arrives.
ChosenPlanStands == link = NoPlan /\ chosen # NoPlan => selected = chosen

\* A request that is accepted is for the plan that was pressed last or for the
\* one the link names among the server's: no list that arrives, under an open
\* dialog or not, puts a third one in its place.
PaidPlanIsAsked ==
    \A r \in payRequest : r.accepted => r.plan \in {r.pressed} \cup Linked

\* While the server's plans are shown, no wallet's request is refused for its
\* plan or its price, whatever was selected, shown or closed before.
WalletPriceHolds ==
    \A r \in payRequest : r.way = "wallet" /\ r.shown = "server" => r.accepted

\* The plan that was asked for is the one that is paid.
WizardInv == WizardTypeOK /\ ChosenPlanStands /\ PaidPlanIsAsked /\ WalletPriceHolds

\* What the bank's form says of the server (payment-instructions.tsx:204): a
\* request is filed at the price of its plan.
ServerEnforcesPrice ==
    \A r \in payRequest : r.accepted => Filed(r.plan, r.sum) = Price["server"][r.plan]
=============================================================================
