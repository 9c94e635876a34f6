------------------------------- MODULE MCClient -------------------------------
(***************************************************************************)
(* The parts of the clients where timers, polls and late answers must get  *)
(* somewhere, and nowhere else: the inbox's bubbles and its list, the flow *)
(* studio, the plan wizard and the payment dialog, the session in a        *)
(* browser tab and that of the mobile application.  They share no state:   *)
(* one of them is at work in each behaviour.                               *)
(***************************************************************************)
EXTENDS InboxOptimism, InboxList, FlowStudio, SubscribeWizard, MobileSession, WebSession, Checkout

VARIABLE part   \* which of them is at work in this behaviour

Parts == {"optimism", "list", "studio", "wizard", "mobile", "web", "checkout"}

\* The others rest.
Still(p) ==
    /\ part = p /\ UNCHANGED part
    /\ p # "optimism" => UNCHANGED optimismVars
    /\ p # "list" => UNCHANGED listVars
    /\ p # "studio" => UNCHANGED studioVars
    /\ p # "wizard" => UNCHANGED wizardVars
    /\ p # "mobile" => UNCHANGED mobileVars
    /\ p # "web" => UNCHANGED sessionVars
    /\ p # "checkout" => UNCHANGED checkoutVars

\* The server's prices: one as built in, the others not.
MCPrice == [src \in {"default", "server"} |->
              [i \in 1 .. 3 |-> IF src = "default" \/ i = 1 THEN i ELSE i + 10]]

\* An inbox list that is loaded.
ListAtRest ==
    /\ search = (CHOOSE t \in Terms : TRUE) /\ debounced = search /\ listShown = {search}
    /\ lists = [t \in Terms |-> {0}] /\ answers = [t \in Terms |-> {}]
    /\ unread = 0 /\ marking = 0 /\ marks = 0

MCInit ==
    /\ part \in Parts
    /\ OptimismInit
    /\ IF part = "list" THEN ListInit ELSE ListAtRest
    /\ StudioInit /\ (part # "studio" => ~strays /\ draft = CHOOSE v \in Versions : TRUE)
    /\ WizardInit /\ (part # "wizard" => served = BuiltIn /\ link = NoPlan)
    /\ MobileInit /\ (part # "mobile" => issued = 0 /\ ~banned)
    /\ SessionInit /\ (part # "web" => known = {})
    /\ CheckoutInit

MCNext ==
    \/ Still("optimism") /\ OptimismNext
    \/ Still("list") /\ ListNext
    \/ Still("studio") /\ StudioNext
    \/ Still("wizard") /\ WizardNext
    \/ Still("mobile") /\ MobileNext
    \/ Still("web") /\ SessionNext
    \/ Still("checkout") /\ CheckoutNext

mcVars == <<part, optimismVars, listVars, studioVars, wizardVars, mobileVars, sessionVars, checkoutVars>>

\* The fairness of each part's specification, while it is the one at work.  The
\* part does not change, so strong fairness of all answers, each of which changes
\* what is under way, is that of each part's.
ServerAnswers ==
    \/ Still("optimism") /\ LandBubbles
    \/ Still("list") /\ \E t \in Terms : LandList(t)
    \/ Still("mobile") /\ ServerServes
MCFairness ==
    /\ WF_optimismVars(part = "optimism" /\ PollBubbles)
    /\ WF_listVars(part = "list" /\ SettleSearch) /\ WF_listVars(part = "list" /\ FetchList)
    /\ WF_studioVars(part = "studio" /\ AutosaveTimer) /\ WF_studioVars(part = "studio" /\ PutAnswers)
    /\ WF_mobileVars(part = "mobile" /\ MobileTimers) /\ WF_mobileVars(part = "mobile" /\ MobileTasks)
    /\ WF_mobileVars(part = "mobile" /\ Reinstated) /\ WF_mobileVars(part = "mobile" /\ AskScreen)
    /\ WF_mobileVars(part = "mobile" /\ AnswersLand)
    /\ WF_sessionVars(part = "web" /\ Ask("me")) /\ WF_sessionVars(part = "web" /\ GateHears)
    /\ WF_sessionVars(part = "web" /\ Redirect)
    /\ WF_checkoutVars(part = "checkout" /\ WatchersAsk) /\ WF_checkoutVars(part = "checkout" /\ WatchersHear)
    /\ WF_checkoutVars(part = "checkout" /\ ProbeGoesOn) /\ WF_checkoutVars(part = "checkout" /\ RequestEnds)
    /\ WF_checkoutVars(part = "checkout" /\ ShowTab)
    /\ SF_<<bubblePoll, answers, requests>>(ServerAnswers)

MCSpec == MCInit /\ [][MCNext]_mcVars /\ MCFairness
-----------------------------------------------------------------------------
\* At most so many openings, submissions and changes of the tab together.
CheckoutBound == openings + submits + hides <= 4

\* The inbox shows no reply that failed or that nobody sent; its lists are typed.
InboxInv == BubblesInv /\ ListTypeOK

\* Its bubbles and its list arrive at what the server has.
InboxSettles == OptimismEnds /\ ListSettles

\* What a tab or the application keeps tells of no session but its own.
SessionsInv == MobileInv /\ TabInv

\* The application, and the gate of a tab, end where the server has the session
\* and its suspension.
SessionsCatchUp == MobileCatchesUp /\ GateCatchesUp
==============================================================================
