------------------------------- MODULE MCPages -------------------------------
(***************************************************************************)
(* The pages on which something is written or chosen: the inbox (its       *)
(* browser history, its composer, its handoff panel, its scroll), the      *)
(* forms of billing and payment, the onboarding wizard, the bot's          *)
(* behaviour.  They share no state (the parts of the inbox but the         *)
(* selected thread, which each models for itself): one of them is at work  *)
(* in each behaviour.                                                      *)
(***************************************************************************)
EXTENDS TLC,
        InboxHistory, InboxDrafts, InboxHandoff, InboxScroll,
        UpgradeForm, PaymentForm, Onboarding, BotBehavior

VARIABLE part   \* which of them is at work in this behaviour

Parts == {"history", "drafts", "handoff", "scroll",
          "upgrade", "payment", "onboarding", "behavior"}

\* The others rest where they start.
Still(p) ==
    /\ part = p /\ UNCHANGED part
    /\ p # "history" => UNCHANGED historyVars
    /\ p # "drafts" => UNCHANGED draftsVars
    /\ p # "handoff" => UNCHANGED handoffVars
    /\ p # "scroll" => UNCHANGED scrollVars
    /\ p # "upgrade" => UNCHANGED upgradeVars
    /\ p # "payment" => UNCHANGED paymentFormVars
    /\ p # "onboarding" => UNCHANGED wizardVars
    /\ p # "behavior" => UNCHANGED behaviorVars

\* Operators, values and accounts are interchangeable: one to begin with is enough.
FirstOperator == CHOOSE u \in Operators : TRUE
FirstValue == CHOOSE v \in Values : TRUE
FirstAccount == CHOOSE a \in Accounts : TRUE

MCInit ==
    /\ part \in Parts
    /\ HistoryInit /\ (part # "history" => shownId = NoThread)
    /\ DraftsInit /\ me = FirstOperator
    /\ HandoffInit /\ (\A f \in Fields : truth[f] = FirstValue) /\ (part # "handoff" => canEdit)
    /\ ScrollInit
    /\ UpgradeInit
    /\ FormInit /\ (part # "payment" => price = 1)
    /\ OnboardingInit /\ account = FirstAccount
    /\ BehaviorInit /\ (part # "behavior" => \A f \in BehaviorFields : held[f] = 0)

MCNext ==
    \/ Still("history") /\ HistoryNext
    \/ Still("drafts") /\ DraftsNext
    \/ Still("handoff") /\ HandoffNext
    \/ Still("scroll") /\ ScrollNext
    \/ Still("upgrade") /\ UpgradeNext
    \/ Still("payment") /\ FormNext
    \/ Still("onboarding") /\ OnboardingNext
    \/ Still("behavior") /\ BehaviorNext

\* Bound: a reply is suggested while no other call of the wizard is under way,
\* and of a wizard left behind the calls are of one kind and visit.
OnboardingBound ==
    /\ suggesting => saving = "none" /\ ~skipping /\ late = {}
    /\ \A c, d \in late : c = d

mcVars == <<part, historyVars, draftsVars, handoffVars, scrollVars,
            upgradeVars, paymentFormVars, wizardVars, behaviorVars>>

MCSpec == MCInit /\ [][MCNext]_mcVars
-----------------------------------------------------------------------------
\* The open thread: its panel is honest, and the pill of its scroll exact.
ThreadInv == HandoffInv /\ ScrollInv

\* Whatever form the operator is shown, once filled in it is accepted, and
\* what it sends it sends once, with what belongs to it; no step of the
\* onboarding is passed unearned.
FormsInv ==
    /\ UpgradeTypeOK /\ OneUpgradeAtATime
    /\ FormTypeOK /\ FilledFormIsAccepted /\ NoWalletAboveCap /\ ReceiptIsOfThisForm
    /\ OnboardingInv
==============================================================================
