----------------------------- MODULE Onboarding -----------------------------
(***************************************************************************)
(* The onboarding wizard (OnboardingWizard.tsx) behind the gate of the     *)
(* dashboard (AuthGuard.tsx), over the onboarding routes of the server:    *)
(* five steps, two of which save before they advance, a step index kept in *)
(* the browser's local storage, and two exits the server is told about.    *)
(* The gate decides from what the tab's cache holds of /api/me; a call     *)
(* that a route of the application leaves behind is still answered.        *)
(***************************************************************************)
EXTENDS Naturals

CONSTANTS
    Accounts,   \* accounts that use this browser, one after the other
    MaxWizardMounts   \* bound on the visits of the dashboard

ASSUME OnboardingBounds == MaxWizardMounts \in Nat

Welcome == 0
Connect == 1
FirstRule == 2
Plans == 3
Done == 4
WizardSteps == Welcome .. Done

VARIABLES
    account,    \* who is signed in
    wizard,     \* "away" before the gate decides, "open", or "closed" by an exit
    at,         \* the step shown
    key,        \* the persisted step; 0 stands for an absent key as well
    saving,     \* the save in flight: "page", "rule", "done" or "none"
    failure,    \* the save whose failure is shown, or "none"
    filled,     \* the forms filled in: "link" (page id and token), "rule" (keyword and reply)
    suggesting, \* the suggestion of a reply is being asked for
    skipping,   \* the skip call is in flight
    warned,     \* the exit's failure was announced
    saved,      \* per account, what the server holds of "page", "rule" and "done"
    passed,     \* per account, the saves it chose to go on without
    told,       \* what the cached answer of /api/me says: "none", "pending", "done"
    late,       \* calls in flight of a wizard that a route of the application left
    mounts

inputVars == <<filled, suggesting>>
exitVars == <<wizard, skipping, warned>>
placeVars == <<account, mounts, told, late>>
wizardVars == <<at, key, saving, failure, saved, passed, inputVars, exitVars, placeVars>>

SaveOf(s) == CASE s = Connect -> "page" [] s = FirstRule -> "rule" [] s = Done -> "done"
                  [] OTHER -> "none"

-----------------------------------------------------------------------------
(* The steps *)

\* readPersistedStep: an index of a later step, or a fresh start.
Resumed == IF key \in Connect .. Done THEN key ELSE Welcome

\* The form of a step.
FormOf(s) == CASE s = Connect -> {"link"} [] s = FirstRule -> {"rule"} [] OTHER -> {}

\* A step transition clears the verdict of the one before.
MoveTo(s) == at' = s /\ failure' = IF s = at THEN failure ELSE "none"

Usable == wizard = "open" /\ saving = "none"

\* "Next" on a step without a save.
Advance ==
    /\ Usable /\ SaveOf(at) = "none"
    /\ MoveTo(at + 1)
    /\ UNCHANGED <<key, saving, saved, passed, inputVars, exitVars, placeVars>>

\* "Next", or the alert's retry: post the step's fields once they are all
\* there; without them only the field errors change.
Save ==
    /\ Usable /\ SaveOf(at) # "none" /\ FormOf(at) \subseteq filled
    /\ saving' = SaveOf(at)
    /\ failure' = IF at = Done THEN failure ELSE "none"
    /\ UNCHANGED <<at, key, saved, passed, inputVars, exitVars, placeVars>>

\* What the server did with a call whose answer may be lost.
Stored(what) == saved' = [saved EXCEPT ![account] = @ \cup {what}]
Handled(what) == saved' = saved \/ Stored(what)

\* A save succeeds: go on from wherever "Back" has led meanwhile.
SaveLands ==
    /\ wizard = "open" /\ saving \in {"page", "rule"}
    /\ Stored(saving)
    /\ saving' = "none"
    /\ MoveTo(at + 1)
    /\ UNCHANGED <<key, passed, inputVars, exitVars, placeVars>>

GoOnUnsaved ==                                                         \* mutant
    /\ wizard = "open" /\ saving \in {"page", "rule"}
    /\ Handled(saving)
    /\ saving' = "none" /\ MoveTo(at + 1)
    /\ UNCHANGED <<key, passed, inputVars, exitVars, placeVars>>

\* A save is refused, or its answer is lost: stay, and say what was not saved.
SaveFails ==
    /\ wizard = "open" /\ saving \in {"page", "rule"}
    /\ Handled(saving)
    /\ failure' = saving /\ saving' = "none"
    /\ UNCHANGED <<at, key, passed, inputVars, exitVars, placeVars>>

\* The alert of the step at hand names what was not saved and offers to go on
\* without it, with no regard to a call in flight.
Alerted == failure # "none" /\ failure = SaveOf(at)

ContinueAnyway ==
    /\ wizard = "open" /\ Alerted
    /\ passed' = [passed EXCEPT ![account] = @ \cup {failure}]
    /\ at' = at + 1 /\ failure' = "none"
    /\ UNCHANGED <<key, saving, saved, inputVars, exitVars, placeVars>>

\* The plans step may be left for the last one at once.
SkipSetup ==
    /\ wizard = "open" /\ at = Plans
    /\ MoveTo(Done)
    /\ UNCHANGED <<key, saving, saved, passed, inputVars, exitVars, placeVars>>

\* "Back" and Escape stay available while a save is in flight.
Back ==
    /\ wizard = "open" /\ at > Welcome
    /\ MoveTo(at - 1)
    /\ UNCHANGED <<key, saving, saved, passed, inputVars, exitVars, placeVars>>

-----------------------------------------------------------------------------
(* The exits *)

\* "Back" on the first step skips: forget the step, close, tell the server.
Skip ==
    /\ wizard = "open" /\ at = Welcome
    /\ key' = 0 /\ wizard' = "closed" /\ skipping' = TRUE
    /\ UNCHANGED <<at, saving, failure, saved, passed, warned, inputVars, placeVars>>

SkipLands ==
    /\ skipping /\ skipping' = FALSE
    /\ \/ Stored("done") /\ UNCHANGED warned
       \/ Handled("done") /\ warned' = TRUE
    /\ UNCHANGED <<at, key, saving, failure, passed, wizard, inputVars, placeVars>>

\* Completing closes the wizard whether or not the call succeeded.
CompleteLands ==
    /\ wizard = "open" /\ saving = "done"
    /\ \/ Stored("done") /\ UNCHANGED warned
       \/ Handled("done") /\ warned' = TRUE
    /\ key' = 0 /\ wizard' = "closed" /\ saving' = "none"
    /\ UNCHANGED <<at, failure, passed, skipping, inputVars, placeVars>>

\* A save that "Back" and "Skip" have left behind answers a wizard that is
\* closed: only the end of the last step says something.
AnsweredAfterExit ==
    /\ wizard = "closed" /\ saving # "none" /\ saving' = "none"
    /\ \/ Stored(saving) /\ UNCHANGED warned
       \/ Handled(saving) /\ warned' = (warned \/ saving = "done")
    /\ key' = IF saving = "done" THEN 0 ELSE key
    /\ UNCHANGED <<at, failure, passed, wizard, skipping, inputVars, placeVars>>

-----------------------------------------------------------------------------
(* The two forms *)

FillIn ==
    /\ wizard = "open"
    /\ \E f \in FormOf(at) : filled' \in {filled \cup {f}, filled \ {f}} \ {filled}
    /\ UNCHANGED <<at, key, saving, failure, saved, passed, suggesting, exitVars, placeVars>>

\* A reply is suggested for a keyword, and filled in at whatever step its answer
\* finds the wizard, which completes the form if the keyword is still there.
Suggest ==
    /\ wizard = "open" /\ at = FirstRule /\ ~suggesting
    /\ suggesting' = TRUE
    /\ UNCHANGED <<at, key, saving, failure, saved, passed, filled, exitVars, placeVars>>

SuggestLands ==
    /\ suggesting /\ suggesting' = FALSE
    /\ filled' \in {filled, filled \cup {"rule"}}
    /\ UNCHANGED <<at, key, saving, failure, saved, passed, exitVars, placeVars>>

-----------------------------------------------------------------------------
(* The browser *)

\* Hiding the tab persists the step; so do the plans opened in a new tab and the
\* last step's shortcuts, which leave the wizard open over the page they push.
HideTab == wizard = "open" /\ key' = at
OpenPlans == at = Plans /\ HideTab
TakeShortcut == at = Done /\ HideTab

Persist ==
    /\ HideTab \/ OpenPlans \/ TakeShortcut
    /\ UNCHANGED <<at, saving, failure, saved, passed, inputVars, exitVars, placeVars>>

Pending == ({saving} \ {"none"}) \cup (IF skipping THEN {"skip"} ELSE {})
EffectOf(call) == IF call = "skip" THEN "done" ELSE call
LateCalls == [mount : 1 .. MaxWizardMounts, call : {"page", "rule", "done", "skip"}]

\* The wizard's own state goes with it.
Gone ==
    /\ wizard' = "away" /\ skipping' = FALSE /\ warned' = FALSE
    /\ at' = Welcome /\ saving' = "none" /\ failure' = "none"
    /\ filled' = {} /\ suggesting' = FALSE

\* A route of the application (the plans in this tab, the browser's "back")
\* persists nothing and keeps the cache and the calls in flight.
LeaveByRoute ==
    /\ wizard # "away" /\ Gone
    /\ late' = late \cup {[mount |-> mounts, call |-> c] : c \in Pending}
    /\ UNCHANGED <<key, saved, passed, account, mounts, told>>

\* Nobody is there to hear the answer, but the end of the last step forgets the
\* persisted step, that of a later visit included.
LateAnswer(c) ==
    /\ late' = late \ {c}
    /\ Handled(EffectOf(c.call))
    /\ key' = IF c.call = "done" THEN 0 ELSE key
    /\ UNCHANGED <<at, saving, failure, passed, inputVars, exitVars, account, mounts, told>>

\* The page is unloaded: an open wizard persists its step, unless the browser
\* is killed, and the calls in flight may still be served.
Unload ==
    /\ wizard # "away" \/ told # "none" \/ late # {}
    /\ Gone /\ key' \in IF wizard = "open" THEN {at, key} ELSE {key}
    /\ \E served \in SUBSET (Pending \cup {c.call : c \in late}) :
          saved' = [saved EXCEPT ![account] = @ \cup {EffectOf(c) : c \in served}]
    /\ told' = "none" /\ late' = {}
    /\ UNCHANGED <<passed, account, mounts>>

\* What /api/me answers of an account.
Told(a) == IF "done" \in saved[a] THEN "done" ELSE "pending"

\* useMe asks again, every minute or when a stale answer is used.
MeAnswers ==
    /\ told # "none" /\ told' = Told(account)
    /\ UNCHANGED <<at, key, saving, failure, saved, passed, inputVars, exitVars, account, mounts, late>>

\* Someone opens the dashboard, who signed in on a fresh page (both ways in
\* reload it) or comes back by a route: the gate shows the wizard if the
\* cached answer, or the first one, says that the onboarding is pending.
Enter ==
    /\ wizard = "away" /\ mounts < MaxWizardMounts
    /\ mounts' = mounts + 1
    /\ IF told = "none" /\ late = {} THEN account' \in Accounts ELSE account' = account
    /\ told' = IF told = "none" THEN Told(account') ELSE told
    /\ told' = "pending"
    /\ wizard' = "open" /\ at' = Resumed
    /\ UNCHANGED <<key, saving, failure, saved, passed, inputVars, skipping, warned, late>>

-----------------------------------------------------------------------------
OnboardingInit ==
    /\ account \in Accounts /\ wizard = "away" /\ at = Welcome /\ key = 0
    /\ saving = "none" /\ failure = "none"
    /\ filled = {} /\ suggesting = FALSE /\ told = "none" /\ late = {}
    /\ skipping = FALSE /\ warned = FALSE
    /\ saved = [a \in Accounts |-> {}] /\ passed = [a \in Accounts |-> {}]
    /\ mounts = 0

OnboardingNext ==
    \/ Advance \/ Save \/ SaveLands \/ SaveFails \/ ContinueAnyway \/ SkipSetup \/ Back
    \/ Skip \/ SkipLands \/ CompleteLands \/ AnsweredAfterExit
    \/ FillIn \/ Suggest \/ SuggestLands
    \/ Persist \/ LeaveByRoute \/ Unload \/ Enter \/ MeAnswers
    \/ \E c \in late : LateAnswer(c)

OnboardingSpec == OnboardingInit /\ [][OnboardingNext]_wizardVars

-----------------------------------------------------------------------------
(* Properties *)

\* Every variable stays in its type.
OnboardingTypeOK ==
    /\ account \in Accounts
    /\ wizard \in {"away", "open", "closed"}
    /\ {at, key} \subseteq WizardSteps
    /\ {saving, failure} \subseteq {"page", "rule", "done", "none"}
    /\ {suggesting, skipping, warned} \subseteq BOOLEAN
    /\ filled \subseteq {"link", "rule"}
    /\ told \in {"none", "pending", "done"} /\ late \subseteq LateCalls
    /\ mounts \in 0 .. MaxWizardMounts /\ (wizard # "away" => mounts > 0)
    /\ saved \in [Accounts -> SUBSET {"page", "rule", "done"}]
    /\ passed \in [Accounts -> SUBSET {"page", "rule"}]

\* The saves that lie before a step, and those an account has made or knowingly
\* given up.
Before(s) == {SaveOf(t) : t \in {u \in {Connect, FirstRule} : u < s}}
Earned(a) == saved[a] \cup passed[a]

\* No failure, late answer, "Back" or reload carries the wizard, or the step
\* it persists, past a save nobody of this browser made or gave up.
StepsAreEarned ==
    \A s \in {at, key} : Before(s) \subseteq UNION {Earned(a) : a \in Accounts}

\* After an exit the server knows of it, is being told, or the user was told
\* that it does not; and no step is left to resume.
ExitIsRecordedOrSaid ==
    wizard = "closed" =>
        /\ "done" \in saved[account] \/ skipping \/ warned
        /\ key = 0

\* "The resumed step never runs deeper than what its preceding saves actually
\* reached" (OnboardingWizard.tsx:131-133), for whoever is signed in.
ResumedStepIsOwn == wizard = "open" => Before(at) \subseteq Earned(account)

\* The wizard never claims a setup that was not made or given up.
OnboardingInv == OnboardingTypeOK /\ StepsAreEarned /\ ExitIsRecordedOrSaid
=============================================================================
