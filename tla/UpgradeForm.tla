----------------------------- MODULE UpgradeForm -----------------------------
(***************************************************************************)
(* The upgrade dialog of the billing page: a plan, a way to pay (the wallet *)
(* tabs are closed above the wallets' cap), the fields of that way, and one *)
(* request at a time, a double click included.                              *)
(***************************************************************************)
EXTENDS Naturals, FiniteSets

CONSTANTS MaxPosts  \* bound: requests sent

ASSUME UpgradeAssumption == MaxPosts \in Nat

VARIABLES upgradeOpen, plan, provider, phoneIn, bankIn,
          upgradeSent,  \* upgradeSentRef, read and written at once
          pendingShown, \* isPending as rendered
          upgrading,    \* requests under way: the way to pay of each
          misdirected,  \* history: a request paid another way than the form shown
          posts

upgradeVars == <<upgradeOpen, plan, provider, phoneIn, bankIn, upgradeSent, pendingShown, upgrading, misdirected, posts>>

Providers == {"liyana", "madar", "bank"}
RequiresBank == plan = "aboveCap"
EffectiveProvider == IF RequiresBank /\ provider # "bank" THEN "bank" ELSE provider

UpgradeTypeOK ==
    /\ plan \in {"none", "belowCap", "aboveCap"} /\ provider \in Providers
    /\ upgradeOpen \in BOOLEAN /\ phoneIn \in BOOLEAN /\ bankIn \in BOOLEAN /\ posts \in 0 .. MaxPosts

UpgradeInit ==
    /\ upgradeOpen = FALSE /\ plan = "none" /\ provider = "liyana" /\ phoneIn = FALSE /\ bankIn = FALSE
    /\ upgradeSent = FALSE /\ pendingShown = FALSE /\ upgrading = {} /\ misdirected = FALSE
    /\ posts = 0

\* All but the second half of a double click comes after the next rendering.
Rendered == pendingShown = (upgrading # {})

OpenUpgrade ==
    /\ Rendered /\ ~upgradeOpen /\ upgradeOpen' = TRUE /\ plan' = "none" /\ upgradeSent' = FALSE
    /\ UNCHANGED <<provider, phoneIn, bankIn, pendingShown, upgrading, misdirected, posts>>
CloseUpgrade ==
    /\ Rendered /\ upgradeOpen /\ upgradeOpen' = FALSE
    /\ UNCHANGED <<plan, provider, phoneIn, bankIn, upgradeSent, pendingShown, upgrading, misdirected, posts>>
ChoosePlan(p) ==
    /\ Rendered /\ upgradeOpen /\ plan' = p
    /\ UNCHANGED <<upgradeOpen, provider, phoneIn, bankIn, upgradeSent, pendingShown, upgrading, misdirected, posts>>
ChooseProvider(w) ==
    /\ Rendered /\ upgradeOpen /\ plan # "none" /\ (RequiresBank => w = "bank") /\ provider' = w
    /\ UNCHANGED <<upgradeOpen, plan, phoneIn, bankIn, upgradeSent, pendingShown, upgrading, misdirected, posts>>
\* Only the fields of the way shown can be filled in.
FillFields ==
    /\ Rendered /\ upgradeOpen /\ plan # "none"
    /\ IF EffectiveProvider = "bank" THEN bankIn' = TRUE /\ UNCHANGED phoneIn ELSE phoneIn' = TRUE /\ UNCHANGED bankIn
    /\ UNCHANGED <<upgradeOpen, plan, provider, upgradeSent, pendingShown, upgrading, misdirected, posts>>

Validates == IF provider # "bank" THEN phoneIn ELSE bankIn

\* A click before the next rendering finds the button as it was.
MayUpgrade == ~upgradeSent
SubmitUpgrade ==
    /\ upgradeOpen /\ plan # "none" /\ ~pendingShown
    /\ MayUpgrade /\ Validates
    /\ posts < MaxPosts /\ posts' = posts + 1
    /\ upgradeSent' = TRUE /\ upgrading' = upgrading \cup {<<posts', provider>>}
    /\ misdirected' = (misdirected \/ provider # EffectiveProvider)
    /\ UNCHANGED <<upgradeOpen, plan, provider, phoneIn, bankIn, pendingShown>>
ShowPendingUpgrade ==
    /\ ~Rendered /\ pendingShown' = (upgrading # {})
    /\ UNCHANGED <<upgradeOpen, plan, provider, phoneIn, bankIn, upgradeSent, upgrading, misdirected, posts>>
UpgradeSucceeds(r) ==
    /\ upgrading' = upgrading \ {r}
    /\ upgradeSent' = FALSE /\ upgradeOpen' = FALSE /\ plan' = "none" /\ phoneIn' = FALSE /\ bankIn' = FALSE
    /\ UNCHANGED <<provider, pendingShown, misdirected, posts>>
UpgradeFails(r) ==
    /\ upgrading' = upgrading \ {r} /\ upgradeSent' = FALSE
    /\ UNCHANGED <<upgradeOpen, plan, provider, phoneIn, bankIn, pendingShown, misdirected, posts>>

UpgradeNext ==
    \/ OpenUpgrade \/ CloseUpgrade \/ FillFields \/ SubmitUpgrade \/ ShowPendingUpgrade
    \/ \E p \in {"belowCap", "aboveCap"} : ChoosePlan(p)
    \/ \E w \in Providers : ChooseProvider(w)
    \/ \E r \in upgrading : UpgradeSucceeds(r) \/ UpgradeFails(r)
UpgradeSpec == UpgradeInit /\ [][UpgradeNext]_upgradeVars
-----------------------------------------------------------------------------
\* A double click, or a click after closing and reopening the dialog, sends no
\* second request while one is under way.
OneUpgradeAtATime == Cardinality(upgrading) <= 1

\* Above the cap the dialog switches to the bank: the form that is shown, once
\* filled in, is the one that is checked and sent.
ShownFormIsSent ==
    /\ ~misdirected
    /\ upgradeOpen /\ RequiresBank /\ bankIn => Validates
=============================================================================
