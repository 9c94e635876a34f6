---------------------------- MODULE MobileSession ----------------------------
(***************************************************************************)
(* The session of the mobile application: the token in the device's secure *)
(* store, the one in the request layer's memory, what AuthProvider shows,  *)
(* and the requests under way, whose answers may come after the session    *)
(* they were sent in has ended.  The secure store answers and keeps what it *)
(* is given; registering is a login once its own call has succeeded.       *)
(***************************************************************************)
EXTENDS Naturals, FiniteSets

CONSTANTS MaxTokens,   \* bound: tokens the server hands out
          MaxOuts,     \* bound: presses of the logout button
          MaxFlight,   \* bound: requests of screens under way at a time
          MaxChanges     \* bound: suspensions and reinstatements of the organisation, and restarts

ASSUME MobileSessionAssumption ==
    MaxTokens \in Nat \ {0} /\ MaxFlight \in Nat \ {0} /\ {MaxOuts, MaxChanges} \subseteq Nat

VARIABLES
  status, account, tenantBlocked,  \* AuthState: status, token (0: none), suspended
  bearer,        \* _token of the request layer (0: none)
  secureStore,        \* the session in SecureStore (0: none)
  wiping,        \* a clearSession nobody waits for is under way
  signing,       \* login(): "idle", "asking", "storing"
  issued, valid, \* tokens handed out; those the server accepts
  banned,        \* the organisation is suspended
  changes,         \* how often that changed or the application restarted
  requests,        \* requests under way
  outs, presses, \* logouts under way: id -> stage and the bearer of their call; presses so far
  recent,        \* a 401 was announced less than UNAUTH_DEDUPE_MS ago
  rechecked      \* the cache holds an accepted recheck of SuspendedState

mobileVars == <<status, account, tenantBlocked, bearer, secureStore, wiping, signing, issued, valid, banned, changes,
                requests, outs, presses, recent, rechecked>>
shownVars == <<status, account, tenantBlocked>>
backendVars == <<issued, valid, banned, changes>>

Tokens == 1 .. MaxTokens
OrNone == Tokens \cup {0}

\* token: the bearer the request carries.
Requests == [kind : {"boot", "data", "recheck", "orphan"}, token : OrNone,
             answer : {"none", "ok", "401", "403"}]
NoLogout == [stage |-> "no", token |-> 0]
Logouts == [stage : {"no", "asking", "clearing"}, token : OrNone]

MobileTypeOK ==
    /\ status \in {"loading", "authenticated", "unauthenticated"} /\ account \in OrNone
    /\ tenantBlocked \in BOOLEAN /\ bearer \in OrNone /\ secureStore \in OrNone /\ wiping \in BOOLEAN
    /\ signing \in {"idle", "asking", "storing"} /\ issued \in OrNone /\ valid \subseteq 1 .. issued
    /\ banned \in BOOLEAN /\ changes \in 0 .. MaxChanges /\ requests \subseteq Requests
    /\ outs \in [1 .. MaxOuts -> Logouts] /\ presses \in 0 .. MaxOuts
    /\ recent \in BOOLEAN /\ rechecked \in BOOLEAN

\* A device that was signed in before, or never.
MobileInit ==
    /\ issued \in {0, 1} /\ secureStore = issued /\ valid = 1 .. issued
    /\ status = "loading" /\ account = 0 /\ tenantBlocked = FALSE
    /\ bearer = 0 /\ wiping = FALSE /\ signing = "idle"
    /\ banned \in BOOLEAN /\ changes = 0 /\ requests = {}
    /\ outs = [i \in 1 .. MaxOuts |-> NoLogout] /\ presses = 0
    /\ recent = FALSE /\ rechecked = FALSE
-----------------------------------------------------------------------------
SignedOut == status' = "unauthenticated" /\ account' = 0 /\ tenantBlocked' = FALSE

\* queryClient.clear(), removeQueries: what is under way lands in no query any more.
Orphaned(rs) == {IF r.kind = "recheck" THEN [r EXCEPT !.kind = "orphan"] ELSE r : r \in rs}
ClearCache(rs) == requests' = Orphaned(rs) /\ rechecked' = FALSE

Req(kind, token) == [kind |-> kind, token |-> token, answer |-> "none"]

\* The effect of AuthProvider at the start: a stored session is shown at once and checked.
Restore ==
    /\ status = "loading"
    /\ IF secureStore # 0
       THEN /\ bearer' = secureStore /\ status' = "authenticated" /\ account' = secureStore /\ tenantBlocked' = FALSE
            /\ requests' = requests \cup {Req("boot", secureStore)}
       ELSE SignedOut /\ UNCHANGED <<bearer, requests>>
    /\ UNCHANGED <<secureStore, wiping, signing, backendVars, outs, presses, recent, rechecked>>

\* The application is killed and started again: only the store survives.
RestartApp ==
    /\ changes < MaxChanges /\ changes' = changes + 1
    /\ status' = "loading" /\ account' = 0 /\ tenantBlocked' = FALSE /\ bearer' = 0
    /\ wiping' = FALSE /\ signing' = "idle" /\ requests' = {}
    /\ outs' = [i \in 1 .. MaxOuts |-> NoLogout] /\ recent' = FALSE /\ rechecked' = FALSE
    /\ UNCHANGED <<secureStore, issued, valid, banned, presses>>

Login ==
    /\ status = "unauthenticated" /\ signing = "idle" /\ issued < MaxTokens
    /\ signing' = "asking"
    /\ UNCHANGED <<shownVars, bearer, secureStore, wiping, backendVars, requests, outs, presses, recent, rechecked>>

LoginRefused ==
    /\ signing = "asking" /\ signing' = "idle"
    /\ UNCHANGED <<shownVars, bearer, secureStore, wiping, backendVars, requests, outs, presses, recent, rechecked>>

LoginAnswered ==
    /\ signing = "asking" /\ issued < MaxTokens
    /\ issued' = issued + 1 /\ valid' = valid \cup {issued'}
    /\ bearer' = issued' /\ signing' = "storing"
    /\ UNCHANGED <<shownVars, secureStore, wiping, banned, changes, requests, outs, presses, recent, rechecked>>

\* persistSession, and then the state is set, whatever happened to the bearer meanwhile.
SessionStored ==
    /\ signing = "storing" /\ signing' = "idle"
    /\ secureStore' = issued
    /\ status' = "authenticated" /\ account' = issued /\ tenantBlocked' = FALSE
    /\ UNCHANGED <<bearer, wiping, backendVars, requests, outs, presses, recent, rechecked>>

\* logout(): the server is told first, with the bearer still there, if there is one.
PressLogout ==
    /\ status = "authenticated" /\ presses < MaxOuts /\ presses' = presses + 1
    /\ IF bearer # 0
       THEN /\ outs' = [outs EXCEPT ![presses'] = [stage |-> "asking", token |-> bearer]]
            /\ UNCHANGED <<requests, rechecked>>
       ELSE /\ outs' = [outs EXCEPT ![presses'] = [stage |-> "clearing", token |-> 0]]
            /\ ClearCache(requests)
    /\ UNCHANGED <<shownVars, bearer, secureStore, wiping, signing, backendVars, recent>>

\* The server revokes what the call carried, also when nobody waits for it any more.
Revoke(i) ==
    /\ outs[i].stage # "no" /\ outs[i].token \in valid /\ valid' = valid \ {outs[i].token}
    /\ UNCHANGED <<shownVars, bearer, secureStore, wiping, signing, issued, banned, changes, requests, outs, presses,
                   recent, rechecked>>

\* Its answer, or none within 8 s.
LogoutGoesOn(i) ==
    /\ outs[i].stage = "asking" /\ outs' = [outs EXCEPT ![i].stage = "clearing"]
    /\ ClearCache(requests) /\ bearer' = 0
    /\ UNCHANGED <<shownVars, secureStore, wiping, signing, backendVars, presses, recent>>

LogoutEnds(i) ==
    /\ outs[i].stage = "clearing" /\ outs' = [outs EXCEPT ![i] = NoLogout]
    /\ secureStore' = 0 /\ SignedOut
    /\ UNCHANGED <<bearer, wiping, signing, backendVars, requests, presses, recent, rechecked>>
-----------------------------------------------------------------------------

\* The screens poll while they are shown, SuspendedState asks /api/me instead,
\* one call at a time.
AskScreen ==
    /\ status = "authenticated"
    /\ Cardinality({r \in requests : r.kind \in {"data", "recheck"}}) < MaxFlight
    /\ tenantBlocked => \A r \in requests : r.kind # "recheck"
    /\ requests' = requests \cup {Req(IF tenantBlocked THEN "recheck" ELSE "data", bearer)}
    /\ UNCHANGED <<shownVars, bearer, secureStore, wiping, signing, backendVars, outs, presses, recent, rechecked>>

\* get_current_user: the session first, then the organisation.
UserCheck(token) == IF token \notin valid THEN "401" ELSE IF banned THEN "403" ELSE "ok"

Serve(r) ==
    /\ r.answer = "none"
    /\ requests' = (requests \ {r}) \cup {[r EXCEPT !.answer = UserCheck(r.token)]}
    /\ UNCHANGED <<shownVars, bearer, secureStore, wiping, signing, backendVars, outs, presses, recent, rechecked>>

\* No answer: the next poll asks again (the two retries of a GET are one with it).
GiveUp(r) ==
    /\ r.answer = "none" /\ requests' = requests \ {r}
    /\ UNCHANGED <<shownVars, bearer, secureStore, wiping, signing, backendVars, outs, presses, recent, rechecked>>

Land200(r) ==
    /\ r.answer = "ok" /\ requests' = requests \ {r}
    /\ IF r.kind = "boot"
       THEN status' = "authenticated" /\ account' = r.token /\ tenantBlocked' = FALSE
       ELSE UNCHANGED shownVars
    /\ rechecked' = (rechecked \/ r.kind = "recheck")
    /\ UNCHANGED <<bearer, secureStore, wiping, signing, backendVars, outs, presses, recent>>

Land401OfScreens(r) ==                                               \* mutant
    /\ r.answer = "401"
    /\ IF recent \/ r.kind = "recheck"
       THEN requests' = requests \ {r} /\ UNCHANGED <<shownVars, bearer, wiping, recent, rechecked>>
       ELSE ClearCache(requests \ {r}) /\ bearer' = 0 /\ wiping' = TRUE /\ recent' = TRUE /\ SignedOut
    /\ UNCHANGED <<secureStore, signing, backendVars, outs, presses>>

\* emitUnauthorized: the first one in 10 s ends the session, whichever it was sent in.
Land401(r) ==
    /\ r.answer = "401"
    /\ IF recent
       THEN requests' = requests \ {r} /\ UNCHANGED <<shownVars, bearer, wiping, recent, rechecked>>
       ELSE ClearCache(requests \ {r}) /\ bearer' = 0 /\ wiping' = TRUE /\ recent' = TRUE /\ SignedOut
    /\ UNCHANGED <<secureStore, signing, backendVars, outs, presses>>

Land403(r) ==
    /\ r.answer = "403" /\ requests' = requests \ {r} /\ tenantBlocked' = TRUE
    /\ UNCHANGED <<status, account, bearer, secureStore, wiping, signing, backendVars, outs, presses, recent, rechecked>>

\* SuspendedState's effect: the query leaves the cache before the flag falls.
Reinstated ==
    /\ status = "authenticated" /\ tenantBlocked /\ rechecked
    /\ tenantBlocked' = FALSE /\ ClearCache(requests)
    /\ UNCHANGED <<status, account, bearer, secureStore, wiping, signing, backendVars, outs, presses, recent>>

Wiped ==
    /\ wiping /\ wiping' = FALSE /\ secureStore' = 0
    /\ UNCHANGED <<shownVars, bearer, signing, backendVars, requests, outs, presses, recent, rechecked>>

DedupeEnds ==
    /\ recent /\ recent' = FALSE
    /\ UNCHANGED <<shownVars, bearer, secureStore, wiping, signing, backendVars, requests, outs, presses, rechecked>>

\* The server's side: a token expires or is revoked, the organisation is suspended or not.
Expires(t) ==
    /\ t \in valid /\ valid' = valid \ {t}
    /\ UNCHANGED <<shownVars, bearer, secureStore, wiping, signing, issued, banned, changes, requests, outs, presses,
                   recent, rechecked>>
TurnTenant ==
    /\ changes < MaxChanges /\ changes' = changes + 1 /\ banned' = ~banned
    /\ UNCHANGED <<shownVars, bearer, secureStore, wiping, signing, issued, valid, requests, outs, presses,
                   recent, rechecked>>

MobileTasks == LoginRefused \/ LoginAnswered \/ SessionStored \/ (\E i \in 1 .. MaxOuts : LogoutGoesOn(i) \/ LogoutEnds(i))
MobileNext ==
    \/ Restore \/ RestartApp \/ Login \/ MobileTasks \/ PressLogout \/ AskScreen \/ Reinstated \/ Wiped \/ DedupeEnds
    \/ \E i \in 1 .. MaxOuts : Revoke(i)
    \/ \E r \in requests : Serve(r) \/ GiveUp(r) \/ Land200(r) \/ Land401(r) \/ Land403(r)
    \/ \E t \in Tokens : Expires(t)
    \/ TurnTenant

\* The application's own steps and its polling go on, and the server answers polls.
MobileTimers == Restore \/ Wiped \/ DedupeEnds
ServerServes == \E r \in requests : Serve(r)
AnswersLand == \E r \in requests : Land200(r) \/ Land401(r) \/ Land403(r)

MobileSpec ==
    /\ MobileInit /\ [][MobileNext]_mobileVars
    /\ WF_mobileVars(MobileTimers) /\ WF_mobileVars(MobileTasks) /\ WF_mobileVars(Reinstated)
    /\ WF_mobileVars(AskScreen) /\ SF_mobileVars(ServerServes) /\ WF_mobileVars(AnswersLand)
-----------------------------------------------------------------------------

\* Nobody stays in front of screens that no request works for: an application
\* that shows a session holds in the end a token the server accepts.
WorthlessSessionEnds == []<>(status = "authenticated" => bearer \in valid)

\* The page of a suspended organisation is there in the end exactly while the
\* organisation is suspended, also when an answer of before the change is late.
SuspensionIsFollowed ==
    []<>(status = "authenticated" => tenantBlocked = banned \/ bearer \notin valid)

\* A device whose user is signed out keeps no session for the next start.
NothingIsKept ==
    status = "unauthenticated" /\ signing = "idle" /\ ~wiping => secureStore = 0

\* "A network failure does not prevent the local logout": who is signed out is
\* not signed in again but by a login.
SignedOutUntilLogin ==
    [][status = "unauthenticated" /\ status' = "authenticated" => signing = "storing"]_mobileVars

\* The store, the bearer and the screens tell of one session.
MobileInv == MobileTypeOK /\ NothingIsKept

\* The application ends with the session and the suspension the server knows.
MobileCatchesUp == WorthlessSessionEnds /\ SuspensionIsFollowed
=============================================================================
