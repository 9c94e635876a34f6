----------------------------- MODULE BotBehavior -----------------------------
(***************************************************************************)
(* The bot behaviour card of the auto-reply page: switches saved at once,  *)
(* a tone saved after a pause in the typing, both through one optimistic   *)
(* mutation that patches the cached record, replaces it with the server's  *)
(* answer, or restores the record it started from: when the server refuses *)
(* and also when its answer is lost or late.                               *)
(***************************************************************************)
EXTENDS FiniteSets, Naturals

CONSTANTS
    Switches,   \* the boolean settings, 0 or 1
    AiSwitch,   \* the one that shows the tone's field
    Tones,      \* texts of the tone
    NoTone,     \* no save is scheduled
    MaxPuts, MaxReads, MaxVisits   \* bounds on the saves, the reads and the visits of the page

ASSUME BehaviorBounds ==
    /\ AiSwitch \in Switches /\ "tone" \notin Switches /\ NoTone \notin Tones
    /\ 0 \in Tones /\ {MaxPuts, MaxReads, MaxVisits} \subseteq Nat

BehaviorFields == {"tone"} \cup Switches
Records == {r \in [BehaviorFields -> Tones \cup {0, 1}] :
              r["tone"] \in Tones /\ \A s \in Switches : r[s] \in {0, 1}}

VARIABLES
    held,       \* the server's record
    card,       \* the cached record the card shows
    typed,      \* the tone's field
    due,        \* the text the debounce will save, or NoTone
    behaviorSaves,      \* the saves in flight
    reading,    \* the answers of reads in flight
    adriftSaves,        \* saves given up on that the server has not carried out yet
    doubtful,   \* history: settings whose save was given up on, until an answer
                \* that knows what became of it
    puts, gets, visits,
    crossed     \* a save was started while another was in flight

behaviorVars == <<held, card, typed, due, behaviorSaves, reading, adriftSaves, doubtful,
                  puts, gets, visits, crossed>>

\* The settings a save given up on may still change.
Drifting == {a.field : a \in adriftSaves}

-----------------------------------------------------------------------------
\* The field follows the cached tone while it is clean: equal to the cached
\* tone as it was.
Follow(tone) == IF typed = card["tone"] THEN tone ELSE typed

\* A change of the cache and what the field makes of it.
Cache(record) ==
    /\ card' = record
    /\ typed' = Follow(record["tone"])

\* The mutation: cancel the reads, remember the record, patch it, send.
Mutate(field, value) ==
    /\ puts < MaxPuts
    /\ puts' = puts + 1
    /\ behaviorSaves' = behaviorSaves \cup {[n |-> puts, visit |-> visits, field |-> field, value |-> value,
                             prev |-> card, answer |-> "waits", record |-> card, doubt |-> {}]}
    /\ reading' = {}
    /\ Cache([card EXCEPT ![field] = value])
    /\ crossed' = (crossed \/ behaviorSaves # {})

\* A row is disabled while the latest save of this visit is its own and in flight.
Enabled(field) ==
    ~ \E p \in behaviorSaves : p.field = field /\ p.n = puts - 1 /\ p.visit = visits

Toggle(s) ==
    /\ Enabled(s)
    /\ Mutate(s, 1 - card[s])
    /\ UNCHANGED <<held, due, adriftSaves, doubtful, gets, visits>>

\* Every keystroke reschedules the save.
Type(text) ==
    /\ card[AiSwitch] = 1 /\ text # typed
    /\ typed' = text /\ due' = text
    /\ UNCHANGED <<held, card, behaviorSaves, reading, adriftSaves, doubtful, puts, gets, visits, crossed>>

\* A save of what the cache already holds is left out.
SaveTone(text) ==
    IF text = card["tone"]
      THEN UNCHANGED <<card, typed, behaviorSaves, reading, puts, crossed>>
      ELSE Mutate("tone", text)

Pause ==
    /\ due # NoTone
    /\ due' = NoTone
    /\ SaveTone(due)
    /\ UNCHANGED <<held, adriftSaves, doubtful, gets, visits>>

\* Leaving the field saves at once.
Blur ==
    /\ card[AiSwitch] = 1
    /\ due' = NoTone
    /\ SaveTone(typed)
    /\ UNCHANGED <<held, adriftSaves, doubtful, gets, visits>>

-----------------------------------------------------------------------------
\* The server stores the patch and answers with the whole record, or refuses.
Serve(p) ==
    /\ p.answer = "waits"
    /\ \/ /\ held' = [held EXCEPT ![p.field] = p.value]
          /\ behaviorSaves' = (behaviorSaves \ {p}) \cup {[p EXCEPT !.answer = "stored", !.record = held', !.doubt = Drifting]}
       \/ /\ behaviorSaves' = (behaviorSaves \ {p}) \cup {[p EXCEPT !.answer = "refused"]}
          /\ UNCHANGED held
    /\ UNCHANGED <<card, typed, due, reading, adriftSaves, doubtful, puts, gets, visits, crossed>>

KeptPatch(p) == card                                                   \* mutant

\* The record a save leaves in the cache: the answer's, or the one it started from.
Outcome(p) == IF p.answer = "stored" THEN p.record ELSE p.prev

LandSave(p) ==
    /\ p.answer # "waits"
    /\ Cache(Outcome(p))
    /\ behaviorSaves' = behaviorSaves \ {p}
    /\ doubtful' = IF p.answer = "stored" THEN p.doubt ELSE doubtful
    /\ UNCHANGED <<held, due, reading, adriftSaves, puts, gets, visits, crossed>>

\* The request times out or its answer is lost: the card goes back all the same,
\* and what the server has not carried out yet it may still carry out.
GiveUp(p) ==
    /\ p.answer # "refused"
    /\ Cache(p.prev)
    /\ behaviorSaves' = behaviorSaves \ {p}
    /\ doubtful' = doubtful \cup {p.field}
    /\ adriftSaves' = adriftSaves \cup
           IF p.answer = "waits" THEN {[field |-> p.field, value |-> p.value]} ELSE {}
    /\ UNCHANGED <<held, due, reading, puts, gets, visits, crossed>>

ServeLate(a) ==
    /\ held' = [held EXCEPT ![a.field] = a.value]
    /\ adriftSaves' = adriftSaves \ {a}
    /\ UNCHANGED <<card, typed, due, behaviorSaves, reading, doubtful, puts, gets, visits, crossed>>

\* A mount with a stale cache reads the record.  A save's patch makes the cache
\* fresh for 30 s, longer than the 20 s after which the save itself times out.
Read ==
    /\ gets < MaxReads /\ reading = {} /\ behaviorSaves = {} /\ gets' = gets + 1
    /\ reading' = {[record |-> held, doubt |-> Drifting]}
    /\ UNCHANGED <<held, card, typed, due, behaviorSaves, adriftSaves, doubtful, puts, visits, crossed>>

LandRead ==
    /\ reading # {}
    /\ \E r \in reading : Cache(r.record) /\ doubtful' = r.doubt
    /\ reading' = {}
    /\ UNCHANGED <<held, due, behaviorSaves, adriftSaves, puts, gets, visits, crossed>>

\* Leaving the page drops the scheduled save and the field, not the cache.
Revisit ==
    /\ visits < MaxVisits /\ visits' = visits + 1
    /\ due' = NoTone /\ typed' = card["tone"]
    /\ UNCHANGED <<held, card, behaviorSaves, reading, adriftSaves, doubtful, puts, gets, crossed>>

-----------------------------------------------------------------------------
BehaviorInit ==
    /\ held \in Records /\ card = held /\ typed = held["tone"]
    /\ due = NoTone /\ behaviorSaves = {} /\ reading = {}
    /\ adriftSaves = {} /\ doubtful = {}
    /\ puts = 0 /\ gets = 0 /\ visits = 0 /\ crossed = FALSE

BehaviorNext ==
    \/ (\E s \in Switches : Toggle(s)) \/ (\E t \in Tones : Type(t)) \/ Pause \/ Blur
    \/ (\E p \in behaviorSaves : Serve(p) \/ LandSave(p) \/ GiveUp(p))
    \/ (\E a \in adriftSaves : ServeLate(a))
    \/ Read \/ LandRead \/ Revisit

BehaviorSpec == BehaviorInit /\ [][BehaviorNext]_behaviorVars

-----------------------------------------------------------------------------
(* Properties *)

\* Every variable stays in its type.
BehaviorTypeOK ==
    /\ held \in Records /\ card \in Records
    /\ typed \in Tones /\ due \in Tones \cup {NoTone}
    /\ \A r \in reading : r.record \in Records /\ r.doubt \subseteq BehaviorFields
    /\ Cardinality(reading) <= 1
    /\ doubtful \subseteq BehaviorFields /\ Drifting \subseteq BehaviorFields
    /\ \A p \in behaviorSaves : p.field \in BehaviorFields /\ p.prev \in Records /\ p.record \in Records

\* Once nothing is in flight the card shows what the server holds of every
\* setting, unless two saves overlapped (each of those restores or replaces the
\* other's part) and except the settings whose save was given up on, until the
\* next answer that knows what became of it.
CardIsTrueWithoutOverlap ==
    behaviorSaves = {} /\ reading = {} /\ ~crossed =>
        \A f \in BehaviorFields \ doubtful : card[f] = held[f]

\* A tone that differs from the cached one is still going to be saved: by the
\* pause, or by the blur of a field that is still on the page.
TypedToneIsDue == typed # card["tone"] => due # NoTone \/ \E p \in behaviorSaves : p.field = "tone"

\* A draft survives the failure of its save (autoreply/page.tsx:230-233): the
\* refusal of a tone never puts another text into the field.
DraftSurvivesRefusal ==
    [][\A p \in behaviorSaves : p.field = "tone" /\ p.answer = "refused" /\ p \notin behaviorSaves'
         => typed' = typed]_behaviorVars

\* The card tells what the bot does, and no typed tone is forgotten.
BehaviorInv == BehaviorTypeOK /\ CardIsTrueWithoutOverlap /\ TypedToneIsDue
=============================================================================
