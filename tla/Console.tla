------------------------------ MODULE Console ------------------------------
(***************************************************************************)
(* One screen at work: react-query's cache of its queries (fetched, polled,*)
(* invalidated, failed), and the mutations its controls send, which the    *)
(* server carries out or refuses and whose answer may be lost.  What a     *)
(* screen consists of is said by the modules of screens.                   *)
(*                                                                         *)
(* Of a query's data only this matters: which of the operator's own writes *)
(* it lacks.                                                               *)
(***************************************************************************)
EXTENDS Naturals, Sections

CONSTANTS Screens,   \* the screens
          Rows,      \* rows an act of a row may be for
          MaxSent,   \* bound: mutations sent, one less but for a control disabled by row
          MaxFails,  \* bound: fetches that fail
          Unannounced,  \* known gaps: <<screen, act, key>>: the act does not invalidate it
          Unhealed,     \* known gaps: <<screen, key>> of panels without a retry
          Joining,      \* known gaps: <<screen, act, key>>: sent while the key is loaded for the first time
          Doubled       \* known gaps: <<screen, act>> whose control may send it twice

\* What a screen may be: acts have their own names, and one whose control is
\* not disabled while it is pending, or is in a dialog that can be closed
\* meanwhile, is a known gap.
ASSUME ConsoleAssumption ==
    /\ MaxSent \in Nat /\ MaxFails \in Nat
    /\ \A s \in Screens :
          /\ \A a, b \in s.acts : a.name = b.name => a = b
          /\ \A a \in s.acts : (a.name \in a.busy /\ a.home = "screen") \/ <<s.name, a.name>> \in Doubled

VARIABLES at,        \* the screen
          focus,     \* bound: the acts sent in a behaviour
          held,      \* held[k]: the cached data, {} or {the acts it lacks}
          reads,     \* reads[k]: the fetch under way, {} or {the acts it lacks}
          due,       \* keys that are invalid and not fetched yet
          inError,    \* keys whose last fetch failed
          jobs,      \* mutations under way
          latest,    \* latest[a]: row of the last call of a pending hook, or {}
          armedFor,  \* armed control, {} or {<<act, row>>}
          sends,     \* number of mutations sent
          fails,     \* number of fetches that failed
          again,     \* history: acts sent while the same was under way, the screen not left
          unsure,    \* history: acts carried out whose answer was lost
          joined     \* history: <<act, key>> announced to a first load under way

consoleVars == <<at, focus, held, reads, due, inError, jobs, latest, armedFor, sends, fails,
                 again, unsure, joined>>
jobVars == <<jobs, latest, armedFor, sends, again, unsure, joined>>
cacheVars == <<held, reads, due, inError, fails>>

Keys == {q.key : q \in at.queries}
Names == {a.name : a \in at.acts}
RowsOfAct(a) == IF a.rows THEN Rows ELSE {0}
Readers(a) == {q.key : q \in {q \in at.queries : q.reads \cap a.writes # {}}}

ConsoleTypeOK ==
    /\ at \in Screens /\ focus \subseteq at.acts
    /\ held \in [Keys -> SUBSET SUBSET Names] /\ reads \in [Keys -> SUBSET SUBSET Names]
    /\ \A k \in Keys : Cardinality(held[k]) <= 1 /\ Cardinality(reads[k]) <= 1
    /\ due \subseteq Keys /\ inError \subseteq Keys
    /\ \A j \in jobs : j.act \in at.acts /\ j.at \in {"sent", "applied"} /\ j.no \in 0 .. sends
    /\ \A a \in at.acts : latest[a.name] \subseteq RowsOfAct(a)
    /\ Cardinality(armedFor) <= 1 /\ sends \in 0 .. MaxSent /\ again \subseteq Names

Related(a, b) == a = b \/ a.name \in b.busy

\* Nothing is used while the last query is loaded, or two acts that meet, or
\* one while the last list it announces is loaded.
ConsoleInit ==
    /\ at \in Screens
    /\ \/ focus = {} /\ \E k \in Keys : due = {k}
       \/ due = {} /\ \E a, b \in at.acts : focus = {a, b} /\ Related(a, b)
       \/ \E a \in at.acts : focus = {a} /\ \E k \in (a.announces \ a.after) \cap Keys : due = {k}
    /\ held = [k \in Keys |-> IF k \in due THEN {} ELSE {{}}] /\ reads = [k \in Keys |-> {}]
    /\ inError = {} /\ fails = 0
    /\ jobs = {} /\ latest = [n \in Names |-> {}] /\ armedFor = {}
    /\ sends = 0 /\ again = {} /\ unsure = {} /\ joined = {}
-----------------------------------------------------------------------------
\* The cache.

\* A fetch reads the server's state of now.
StartFetch(k) ==
    /\ reads' = [reads EXCEPT ![k] = {{}}]
    /\ due' = due \ {k}
    /\ UNCHANGED <<at, focus, held, inError, fails, jobVars>>

FetchDue(k) == k \in due /\ StartFetch(k)
\* A poll that would bring nothing new is a stutter.
Poll(q) ==
    /\ q.polls /\ reads[q.key] = {}
    /\ held[q.key] # {{}} \/ q.key \in inError
    /\ StartFetch(q.key)

Retries == {p.key : p \in {p \in at.panels : p.shows = "retry"}}
Retry(k) == k \in inError \cap Retries /\ reads[k] = {} /\ StartFetch(k)

LandFetch(k) ==
    /\ reads[k] # {}
    /\ held' = [held EXCEPT ![k] = reads[k]] /\ reads' = [reads EXCEPT ![k] = {}]
    /\ inError' = inError \ {k}
    /\ UNCHANGED <<at, focus, due, fails, jobVars>>

\* After the retries of react-query: the data there is stays.
FetchFails(k) ==
    /\ reads[k] # {} /\ fails < MaxFails /\ sends < MaxSent /\ fails' = fails + 1
    /\ reads' = [reads EXCEPT ![k] = {}]
    /\ inError' = inError \cup {k}
    /\ UNCHANGED <<at, focus, held, due, jobVars>>
-----------------------------------------------------------------------------
\* The mutations.

\* isPending of a hook is about its last call; a control per row that compares
\* the variables is disabled for the row of that call only.
DisabledByRow(a, r) == a.perRow /\ latest[a.name] = {r}               \* mutant
Disabled(a, r) ==
    \/ \E n \in a.busy : latest[n] # {}
    \/ a.perRow /\ latest[a.name] = {r}

\* Bounds: how often, the last time only where no fetch fails and the screen is
\* not left; and that of rows alike a certain one is used first.
ByRow == \E a \in at.acts : a.perRow /\ focus = {a}
Bound == IF ByRow /\ fails = 0 /\ (\A j \in jobs : j.here) THEN MaxSent ELSE MaxSent - 1
First(a, r) == sends = 0 => r = (CHOOSE x \in RowsOfAct(a) : TRUE)

\* The control is on the screen.
Loading(k) == held[k] = {} /\ (k \in due \/ reads[k] # {})
Shown(a) ==
    /\ \A k \in a.after \cap Keys : held[k] # {}
    /\ \A k \in a.past \cap Keys : ~Loading(k)

ArmControl(a, r) ==
    /\ a.arms /\ Shown(a) /\ First(a, r) /\ <<a.name, r>> \notin armedFor
    /\ armedFor' = {<<a.name, r>>}
    /\ UNCHANGED <<at, focus, cacheVars, jobs, latest, sends, again, unsure, joined>>

\* Of equal requests under way, which.
Number(a, r) == IF \E j \in jobs : j.act = a /\ j.row = r THEN sends + 1 ELSE 0
InFlight(a, r) == \E j \in jobs : j.act = a /\ j.row = r /\ j.here

SendAct(a, r) ==
    /\ sends < Bound /\ First(a, r) /\ sends' = sends + 1
    /\ Shown(a) /\ ~Disabled(a, r)
    /\ a.arms => <<a.name, r>> \in armedFor
    /\ jobs' = {IF j.act = a THEN [j EXCEPT !.current = FALSE] ELSE j : j \in jobs}
              \cup {[no |-> Number(a, r), act |-> a, row |-> r, at |-> "sent", current |-> TRUE, here |-> TRUE]}
    /\ latest' = [latest EXCEPT ![a.name] = {r}]
    /\ again' = IF InFlight(a, r) THEN again \cup {a.name} ELSE again
    /\ UNCHANGED <<at, focus, held, reads, due, inError, fails, armedFor, unsure, joined>>

\* A dialog is closed and opened again: its hooks are new, whatever they sent
\* goes on, and is announced when it is answered.
Reopen(home) ==
    LET inside == {a.name : a \in {a \in at.acts : a.home = home}} IN
    /\ home # "screen" /\ \E n \in inside : latest[n] # {}
    /\ latest' = [n \in Names |-> IF n \in inside THEN {} ELSE latest[n]]
    /\ jobs' = {IF j.act.name \in inside THEN [j EXCEPT !.current = FALSE] ELSE j : j \in jobs}
    /\ UNCHANGED <<at, focus, cacheVars, armedFor, sends, again, unsure, joined>>

\* The operator leaves the screen and comes back: so are all hooks.  Bounds:
\* with one request under way; what the return fetches is left out.
Reenter ==
    /\ \E n \in Names : latest[n] # {}
    /\ \A i, j \in jobs : i = j /\ j.here
    /\ latest' = [n \in Names |-> {}] /\ armedFor' = {}
    /\ jobs' = {[j EXCEPT !.current = FALSE, !.here = FALSE] : j \in jobs}
    /\ UNCHANGED <<at, focus, cacheVars, sends, again, unsure, joined>>

\* The server carries it out: what was read before lacks it.
Lacking(f, a) ==
    [k \in Keys |-> IF k \in Readers(a) THEN {m \cup {a.name} : m \in f[k]} ELSE f[k]]

ApplyAct(j) ==
    /\ j.at = "sent"
    /\ jobs' = (jobs \ {j}) \cup {[j EXCEPT !.at = "applied"]}
    /\ held' = Lacking(held, j.act) /\ reads' = Lacking(reads, j.act)
    /\ UNCHANGED <<at, focus, due, inError, fails, latest, armedFor, sends, again, unsure, joined>>

\* invalidateQueries drops a fetch under way and starts another; a first load,
\* which has no data yet, it leaves alone and joins.
Announce(j) ==
    LET joins == {k \in j.act.announces \cap Keys : held[k] = {} /\ reads[k] # {}}
        restarts == (j.act.announces \cap Keys) \ joins
    IN  /\ due' = due \cup restarts
        /\ reads' = [k \in Keys |-> IF k \in restarts THEN {} ELSE reads[k]]
        /\ joined' = joined \cup ({j.act.name} \X joins)

\* isPending ends with the answer to the last call.
AfterAnswer(j) == IF j.current THEN [latest EXCEPT ![j.act.name] = {}] ELSE latest

ActSucceeds(j) ==
    /\ j.at = "applied"
    /\ jobs' = jobs \ {j} /\ latest' = AfterAnswer(j)
    /\ Announce(j)
    /\ armedFor' = IF j.act.arms /\ j.here THEN {} ELSE armedFor
    /\ UNCHANGED <<at, focus, held, inError, fails, sends, again, unsure>>

\* Refused, or the answer does not arrive.
ActFails(j) ==
    /\ jobs' = jobs \ {j} /\ latest' = AfterAnswer(j)
    /\ unsure' = IF j.at = "applied" THEN unsure \cup {j.act.name} ELSE unsure
    /\ UNCHANGED <<at, focus, held, reads, due, inError, fails, armedFor, sends, again, joined>>

ConsoleNext ==
    \/ \E k \in Keys : FetchDue(k) \/ LandFetch(k) \/ FetchFails(k) \/ Retry(k)
    \/ \E q \in at.queries : Poll(q)
    \/ \E a \in focus : \E r \in RowsOfAct(a) : ArmControl(a, r) \/ SendAct(a, r)
    \/ \E home \in {a.home : a \in at.acts} : Reopen(home)
    \/ Reenter
    \/ \E j \in jobs : ApplyAct(j) \/ ActSucceeds(j) \/ ActFails(j)

\* Timers and effects run, a request is answered or given up after 20 s, and
\* an operator who is offered a retry takes it.
ConsoleSpec ==
    /\ ConsoleInit /\ [][ConsoleNext]_consoleVars
    /\ WF_consoleVars(\E k \in Keys : FetchDue(k) \/ LandFetch(k) \/ Retry(k))
    /\ WF_consoleVars(\E q \in at.queries : Poll(q))
    /\ WF_consoleVars(\E j \in jobs : ActSucceeds(j) \/ ActFails(j))

-----------------------------------------------------------------------------

\* The operator's own writes show: what a success was reported for is in the
\* end in the data of every query of the screen that reads it, unless the
\* query is in its error state, but for the acts and keys named: those never
\* announced, and those announced to a first load that may have read before.
OwnWritesShow ==
    []<>(\A k \in Keys \ inError : \A m \in held[k] : \A n \in m \ unsure :
           <<at.name, n, k>> \in Unannounced \/ (<<n, k>> \in joined /\ <<at.name, n, k>> \in Joining))

\* Once the server answers, no screen stays in an error state.
FailuresHeal == []<>(\A k \in inError : <<at.name, k>> \in Unhealed)

\* As long as its screen is not left, no control sends the same request while
\* it is under way, but for those named: a control that looks only at the row
\* of its hook's last call is enabled again as soon as another row's was used,
\* and one in a dialog as soon as the dialog is opened again.
SentOnce == \A n \in again : <<at.name, n>> \in Doubled

\* No screen that is not left sends a request twice over, and the cache, the
\* armed control and the requests under way are what its screen is made of.
ConsoleInv == ConsoleTypeOK /\ SentOnce

=============================================================================
