----------------------------- MODULE WebSession -----------------------------
(***************************************************************************)
(* The web application's session in one browser tab: the fetch wrapper's   *)
(* expiry journey (lib/csrf-client.ts), the cache persister                *)
(* (lib/query-persist.ts), the gate around the dashboard (AuthGuard.tsx),  *)
(* the login and register pages and the dashboard's logout.                *)
(*                                                                         *)
(* The token cookie and the tab's session storage outlive a page load; the *)
(* query cache, the timers and the requests in flight do not.  Data is     *)
(* abstracted to the account it was read for.                              *)
(***************************************************************************)
EXTENDS FiniteSets, Naturals

CONSTANTS
    Accounts,   \* the accounts people of this browser have or will register
    Nobody,     \* no token cookie
    MaxLogins,  \* bound on the successful logins and registrations
    MaxTurns,   \* bound on the expiries and suspensions
    MaxTrips    \* bound on the routes people open by themselves

ASSUME SessionBounds ==
    MaxLogins \in Nat /\ MaxTurns \in Nat /\ MaxTrips \in Nat /\ Nobody \notin Accounts

VARIABLES
    place,      \* the route the tab shows; "dashboard" is every page behind the gate
    cookie,     \* the account of the token cookie
    live,       \* the server still accepts that token
    suspended,  \* the account's organisation is suspended
    known,      \* the accounts that exist
    cached,     \* accounts whose answers are in the mounted query cache
    stored,     \* accounts whose answers are in session storage
    save,       \* the persister's debounce timer: "none", "armed", or "void" after a clear
    flight,     \* per kind of request, the answer on its way, or "none"
    redirect,   \* the expiry redirect's timer is armed
    quiet,      \* within the 10 s after an announced expiry
    gate,       \* what the gate knows of the session
    form,       \* the login or register form: "checking", "ready", "sending" or "locked"
    landingTimer,    \* the 150 ms timer towards the landing page is armed
    logins, turns, trips

tabVars == <<cached, save, flight, redirect, quiet, gate, form, landingTimer>>
serverVars == <<live, suspended, known, turns>>
sessionVars == <<place, cookie, stored, logins, trips, tabVars, serverVars>>

Kinds == {"me", "page"}
Forms == {"login", "register"}

-----------------------------------------------------------------------------
(* Moving between routes *)

\* middleware.ts sends a visitor without a cookie to the login page.
Admitted(p) == IF p = "dashboard" /\ cookie = Nobody THEN "login" ELSE p

NoWipe(p) == stored                                                    \* mutant

\* Mounting the login page wipes the persisted cache.
LoginWipe(p) == IF p = "login" THEN {} ELSE stored

\* Mounting the dashboard hydrates its new query cache from the store: every
\* well-formed entry, whoever it was read for.
Hydrated(p) == IF p = "dashboard" THEN stored ELSE {}

\* Leaving the dashboard detaches the persister with its timer.
Mount(p) ==
    /\ place' = p
    /\ stored' = LoginWipe(p)
    /\ cached' = Hydrated(p)
    /\ save' = "none"
    /\ gate' = "loading"
    /\ form' = IF p = "login" THEN "checking" ELSE "ready"

\* A full load drops the page's timers and requests.
Load(p) ==
    /\ Mount(Admitted(p))
    /\ flight' = [k \in Kinds |-> "none"]
    /\ redirect' = FALSE
    /\ quiet' = FALSE
    /\ landingTimer' = FALSE

Visit ==
    /\ trips < MaxTrips /\ trips' = trips + 1
    /\ \E p \in {"public", "dashboard"} \cup Forms : Load(p)
    /\ UNCHANGED <<cookie, logins, serverVars>>

\* The application's own links keep the script running.
Follow ==
    /\ trips < MaxTrips /\ trips' = trips + 1
    /\ \E p \in {"public"} \cup Forms : p # place /\ Mount(p)
    /\ UNCHANGED <<cookie, logins, serverVars, flight, redirect, quiet, landingTimer>>

-----------------------------------------------------------------------------
(* Requests *)

Verdict ==
    IF cookie = Nobody \/ ~live THEN "expired"
    ELSE IF suspended THEN "suspended" ELSE "data"

\* The gate reads /api/me on mount and every minute, a page reads its data;
\* the login page reads /api/me once.
Asks(k) == \/ place = "dashboard" /\ (k = "me" \/ gate = "user")
           \/ place = "login" /\ form = "checking" /\ k = "me"

Ask(k) ==
    /\ Asks(k) /\ flight[k] = "none"
    /\ \E answer \in {Verdict, "lost"} : flight' = [flight EXCEPT ![k] = answer]
    /\ UNCHANGED <<place, cookie, stored, logins, trips, serverVars,
                   cached, save, redirect, quiet, gate, form, landingTimer>>

\* An event of the mounted cache arms the debounce unless a timer is pending.
Armed == IF place = "dashboard" /\ save = "none" THEN "armed" ELSE save

\* handleSessionExpired: within the window nothing, else wipe, announce and
\* arm one redirect.  The wipe voids a pending save.
Announces == ~quiet /\ place \notin Forms
ExpiryJourney ==
    /\ quiet' = TRUE
    /\ redirect' = TRUE
    /\ stored' = {}
    \* the failed query's own state change is a cache event after the wipe
    /\ save' = IF save = "none" THEN Armed ELSE "void"

\* A data request of the open page answers.
LandPage ==
    /\ flight["page"] # "none"
    /\ flight' = [flight EXCEPT !["page"] = "none"]
    /\ IF flight["page"] = "expired" /\ Announces
         THEN ExpiryJourney
         ELSE save' = Armed /\ UNCHANGED <<quiet, redirect, stored>>
    /\ cached' = IF flight["page"] = "data" /\ place = "dashboard"
                   THEN cached \cup {cookie} ELSE cached
    /\ UNCHANGED <<place, cookie, logins, trips, serverVars, gate, form, landingTimer>>

\* /api/me answers the gate: a suspension holds the tab where it is, any other
\* failure leaves for the login page at once.
LandGate ==
    /\ flight["me"] \in {"data", "suspended"} /\ place = "dashboard"
    /\ gate' = IF flight["me"] = "data" THEN "user" ELSE "suspended"
    /\ flight' = [flight EXCEPT !["me"] = "none"]
    /\ save' = Armed
    /\ UNCHANGED <<place, cookie, stored, logins, trips, serverVars,
                   cached, redirect, quiet, form, landingTimer>>

GateIgnoresExpiry ==                                                   \* mutant
    /\ flight["me"] \in {"expired", "lost"} /\ place = "dashboard"
    /\ flight' = [flight EXCEPT !["me"] = "none"]
    /\ UNCHANGED <<place, cookie, stored, logins, trips, serverVars,
                   cached, save, redirect, quiet, gate, form, landingTimer>>

GateLeaves ==
    /\ flight["me"] \in {"expired", "lost"} /\ place = "dashboard"
    /\ Load("login")
    /\ UNCHANGED <<cookie, logins, trips, serverVars>>

\* /api/me answers the login page: a session goes straight to its landing page.
LandCheck ==
    /\ flight["me"] # "none" /\ place = "login" /\ form = "checking"
    /\ IF flight["me"] = "data"
         THEN Load("dashboard")
         ELSE /\ form' = "ready"
              /\ flight' = [flight EXCEPT !["me"] = "none"]
              /\ UNCHANGED <<place, stored, cached, save, redirect, quiet, gate, landingTimer>>
    /\ UNCHANGED <<cookie, logins, trips, serverVars>>

\* An answer of the gate's that arrives after a link left the dashboard.
LandStray ==
    /\ flight["me"] # "none" /\ place # "dashboard"
    /\ ~ (place = "login" /\ form = "checking")
    /\ flight' = [flight EXCEPT !["me"] = "none"]
    /\ IF flight["me"] = "expired" /\ Announces
         THEN ExpiryJourney
         ELSE UNCHANGED <<quiet, redirect, stored, save>>
    /\ UNCHANGED <<place, cookie, logins, trips, serverVars, cached, gate, form, landingTimer>>

-----------------------------------------------------------------------------
(* Timers *)

\* The whole cache but the "me" entry, or what is stored when that is nothing.
Payload == IF cached = {} THEN stored ELSE cached

\* The debounced write, skipped when the store was wiped since it was armed.
Flush ==
    /\ save # "none"
    /\ save' = "none"
    /\ stored' = IF save = "armed" THEN Payload ELSE stored
    /\ UNCHANGED <<place, cookie, logins, trips, serverVars,
                   cached, flight, redirect, quiet, gate, form, landingTimer>>

Redirect ==
    /\ redirect
    /\ Load("login")
    /\ UNCHANGED <<cookie, logins, trips, serverVars>>

WindowEnds ==
    /\ quiet /\ ~redirect
    /\ quiet' = FALSE
    /\ UNCHANGED <<place, cookie, stored, logins, trips, serverVars,
                   cached, save, flight, redirect, gate, form, landingTimer>>

Land ==
    /\ landingTimer
    /\ Load("dashboard")
    /\ UNCHANGED <<cookie, logins, trips, serverVars>>

-----------------------------------------------------------------------------
(* The forms and the exits *)

SubmitCredentials ==
    /\ place \in Forms /\ form = "ready"
    /\ form' = "sending"
    /\ UNCHANGED <<place, cookie, stored, logins, trips, serverVars,
                   cached, save, flight, redirect, quiet, gate, landingTimer>>

\* The server's new session replaces the browser's; the button is enabled
\* again before the landing timer runs out.
SignedIn(a) ==
    /\ logins < MaxLogins
    /\ a \in IF place = "login" THEN known ELSE Accounts \ known
    /\ known' = known \cup {a}
    /\ cookie' = a /\ live' = TRUE
    /\ logins' = logins + 1
    /\ form' = "ready" /\ landingTimer' = TRUE
    /\ UNCHANGED suspended

Refused ==
    /\ form' \in {"ready", "locked"}
    /\ UNCHANGED <<cookie, live, suspended, known, logins, landingTimer>>

Answered ==
    /\ place \in Forms /\ form = "sending"
    /\ Refused \/ \E a \in Accounts : SignedIn(a)
    /\ UNCHANGED <<place, stored, turns, trips, cached, save, flight, redirect, quiet, gate>>

LockoutEnds ==
    /\ form = "locked"
    /\ form' = "ready"
    /\ UNCHANGED <<place, cookie, stored, logins, trips, serverVars,
                   cached, save, flight, redirect, quiet, gate, landingTimer>>

\* The dashboard's logout: revoke, or not when the call fails; wipe; follow a
\* link to the login page.
Logout ==
    /\ place = "dashboard" /\ gate = "user"
    /\ \E revoked \in BOOLEAN : cookie' = IF revoked THEN Nobody ELSE cookie
    /\ Mount("login")
    /\ UNCHANGED <<logins, trips, serverVars, flight, redirect, quiet, landingTimer>>

\* The suspended view's logout: revoke, or not; load the login page.
LogoutSuspended ==
    /\ place = "dashboard" /\ gate = "suspended"
    /\ \E revoked \in BOOLEAN : cookie' = IF revoked THEN Nobody ELSE cookie
    /\ Load("login")
    /\ UNCHANGED <<logins, trips, serverVars>>

-----------------------------------------------------------------------------
(* The server's side *)

Expire ==
    /\ live /\ cookie # Nobody /\ turns < MaxTurns
    /\ live' = FALSE /\ turns' = turns + 1
    /\ UNCHANGED <<place, cookie, stored, logins, trips, tabVars, suspended, known>>

Suspend ==
    /\ turns < MaxTurns
    /\ suspended' = ~suspended /\ turns' = turns + 1
    /\ UNCHANGED <<place, cookie, stored, logins, trips, tabVars, live, known>>

-----------------------------------------------------------------------------
SessionInit ==
    /\ place = "public" /\ cookie = Nobody /\ live = FALSE /\ suspended = FALSE
    /\ known \in SUBSET Accounts
    /\ stored = {} /\ cached = {} /\ save = "none"
    /\ flight = [k \in Kinds |-> "none"]
    /\ redirect = FALSE /\ quiet = FALSE /\ gate = "loading"
    /\ form = "ready" /\ landingTimer = FALSE
    /\ logins = 0 /\ turns = 0 /\ trips = 0

SessionNext ==
    \/ Visit \/ Follow
    \/ (\E k \in Kinds : Ask(k)) \/ LandPage \/ LandGate \/ GateLeaves \/ LandCheck \/ LandStray
    \/ Flush \/ Redirect \/ WindowEnds \/ Land
    \/ SubmitCredentials \/ Answered \/ LockoutEnds \/ Logout \/ LogoutSuspended
    \/ Expire \/ Suspend

\* Timers fire, the gate polls and answers arrive; nobody has to click.
GateHears == LandGate \/ GateLeaves

SessionSpec ==
    /\ SessionInit /\ [][SessionNext]_sessionVars
    /\ WF_sessionVars(Ask("me")) /\ WF_sessionVars(GateHears) /\ WF_sessionVars(Redirect)

-----------------------------------------------------------------------------
(* Properties *)

\* Every variable stays in its type.
SessionTypeOK ==
    /\ place \in {"public", "dashboard"} \cup Forms
    /\ cookie \in Accounts \cup {Nobody}
    /\ known \subseteq Accounts /\ stored \subseteq Accounts /\ cached \subseteq Accounts
    /\ save \in {"none", "armed", "void"}
    /\ flight \in [Kinds -> {"none", "data", "expired", "suspended", "lost"}]
    /\ gate \in {"loading", "user", "suspended"}
    /\ form \in {"checking", "ready", "sending", "locked"}
    /\ {live, suspended, redirect, quiet, landingTimer} \subseteq BOOLEAN

\* While the login form is open nothing of an earlier session is in the tab's
\* storage: not even a save the expiry's own cache event armed after the wipe
\* (clearQueryPersistedCache's three exits).
LoginFindsNoLeftovers == place = "login" => stored = {}

\* Whoever is signed in, the dashboard shows and keeps only that account's
\* data: "a same-tab login-as-a-different-user can never hydrate the previous
\* account's data" (lib/query-persist.ts).
HydratesOnlyItsOwn == place = "dashboard" => cached \subseteq {cookie}

\* A dashboard whose session the server no longer accepts is left: the
\* window that collapses a burst of 401s never swallows the redirect.
ExpiredSessionLeaves == []<>(place = "dashboard" => live)

\* When the suspension is lifted the gate opens, and when it is imposed the
\* gate says so, without a reload.
GateFollowsSuspension ==
    \A s \in BOOLEAN :
        <>[](place = "dashboard" /\ live /\ suspended = s /\ cookie # Nobody) =>
            <>[](gate = IF s THEN "suspended" ELSE "user")

\* The tab's storage tells of no session but the one that filled it.
TabInv == SessionTypeOK /\ LoginFindsNoLeftovers

\* The gate ends where the server's answer puts the tab.
GateCatchesUp == ExpiredSessionLeaves /\ GateFollowsSuspension
=============================================================================
