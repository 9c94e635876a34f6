------------------------------ MODULE Campaign ------------------------------
(***************************************************************************)
(* Marketing campaigns on top of the broadcast engine.  An editor's send   *)
(* and the sweep of scheduled campaigns run the same dispatch: it makes a  *)
(* broadcast of its own for the campaign, sends it inline and stores how   *)
(* many it reached.  A worker of Broadcast is here a request or a bot      *)
(* cycle, which drains queued broadcasts before it sweeps campaigns.       *)
(*                                                                         *)
(* A dispatch's session writes the campaign row when it first queries      *)
(* (autoflush) and holds its lock until it commits.  What it holds in      *)
(* memory of the row is not refreshed by commits (expire_on_commit=False). *)
(***************************************************************************)
EXTENDS Broadcast

CONSTANTS
    Campaigns,
    Active,         \* subscribers with status 'active', whom the engine selects
    AudienceOf,     \* whom the campaign's audience filter selects
    NoWorker, NoCampaign

ASSUME ActiveAssumption == Active \subseteq Subscribers
ASSUME AudienceAssumption == AudienceOf \in [Campaigns -> SUBSET Subscribers]
ASSUME NoWorkerAssumption == NoWorker \notin Workers
ASSUME NoCampaignAssumption == NoCampaign \notin Campaigns

VARIABLES
    cstatus,    \* marketing_campaigns.status, "absent" before and after the row
    delivered,  \* marketing_campaigns.delivered_count
    rowLock,    \* who holds the campaign's row lock
    deleting,   \* a deletion has read a deletable status and will delete
    step,       \* how far each worker's dispatch is
    camp,       \* the campaign it dispatches
    mem,        \* the status its ORM instance holds
    seen,       \* the delivered_count its instance was read with
    sweep,      \* the claimed campaigns a sweep has still to dispatch
    sweeping,   \* whether it is a sweep
    made,       \* the broadcast it made
    madeFor,    \* history: the campaign a broadcast was made for
    claims      \* history: the sweeps that claimed a campaign

ctables == <<cstatus, delivered>>
locals == <<camp, mem, seen, sweep, sweeping, made>>
chistory == <<madeFor, claims>>
cvars == <<ctables, rowLock, deleting, step, locals, chistory>>
allVars == <<vars, cvars>>

CampaignStatuses == {"absent", "draft", "scheduled", "queued", "sending", "sent", "failed"}
Steps == {"idle", "read", "held", "made", "fanout", "stored", "deferred"}

CLocalTypeOK ==
    /\ cstatus \in [Campaigns -> CampaignStatuses]
    /\ delivered \in [Campaigns -> Nat]
    /\ rowLock \in [Campaigns -> Workers \cup {NoWorker}]
    /\ deleting \in [Campaigns -> BOOLEAN]
    /\ step \in [Workers -> Steps]
    /\ camp \in [Workers -> Campaigns \cup {NoCampaign}]
    /\ mem \in [Workers -> CampaignStatuses]
    /\ seen \in [Workers -> Nat]
    /\ sweep \in [Workers -> SUBSET Campaigns]
    /\ sweeping \in [Workers -> BOOLEAN]
    /\ made \in [Workers -> Broadcasts \cup {NoBroadcast}]
    /\ madeFor \in [Broadcasts -> Campaigns \cup {NoCampaign}]
    /\ claims \in [Campaigns -> Nat]

CTypeOK == TypeOK /\ CLocalTypeOK

CInit ==
    /\ Init
    /\ cstatus = [c \in Campaigns |-> "absent"]
    /\ delivered = [c \in Campaigns |-> 0]
    /\ rowLock = [c \in Campaigns |-> NoWorker]
    /\ deleting = [c \in Campaigns |-> FALSE]
    /\ step = [w \in Workers |-> "idle"]
    /\ camp = [w \in Workers |-> NoCampaign]
    /\ mem = [w \in Workers |-> "absent"]
    /\ seen = [w \in Workers |-> 0]
    /\ sweep = [w \in Workers |-> {}]
    /\ sweeping = [w \in Workers |-> FALSE]
    /\ made = [w \in Workers |-> NoBroadcast]
    /\ madeFor = [b \in Broadcasts |-> NoCampaign]
    /\ claims = [c \in Campaigns |-> 0]

Free(c) == rowLock[c] = NoWorker
SetCampaign(c, st) == cstatus' = [cstatus EXCEPT ![c] = st]

(* An UPDATE by primary key of a row that may have been deleted: the commit *)
(* fails (StaleDataError) and nothing is written.                           *)
UpdateCampaign(c, st) ==
    /\ Free(c)
    /\ IF cstatus[c] = "absent" THEN UNCHANGED cstatus ELSE SetCampaign(c, st)

-----------------------------------------------------------------------------
(* Create and delete.                                                      *)

CreateCampaign(c, st) ==
    /\ cstatus[c] = "absent" /\ claims[c] = 0
    /\ \A b \in Broadcasts : madeFor[b] # c
    /\ \A w \in Workers : camp[w] # c
    /\ ~deleting[c]
    /\ SetCampaign(c, st)
    /\ UNCHANGED <<vars, delivered, rowLock, deleting, step, locals, chistory>>

ReadForDelete(c) ==
    /\ cstatus[c] \notin {"absent", "sending"}
    /\ ~deleting[c]
    /\ deleting' = [deleting EXCEPT ![c] = TRUE]
    /\ UNCHANGED <<vars, ctables, rowLock, step, locals, chistory>>

CommitDelete(c) ==
    /\ deleting[c]
    /\ Free(c)
    /\ deleting' = [deleting EXCEPT ![c] = FALSE]
    /\ SetCampaign(c, "absent")
    /\ UNCHANGED <<vars, delivered, rowLock, step, locals, chistory>>

-----------------------------------------------------------------------------
(* Who dispatches: an editor's request, or the sweep of a bot cycle.       *)

Sendable(c) == cstatus[c] \notin {"absent", "sent", "sending", "queued"}

(* POST /campaigns/{id}/send: the status is read, then set in memory. *)
ReadForSend(w, c) ==
    /\ step[w] = "idle" /\ phase[w] = "idle" /\ ~sweeping[w]
    /\ Sendable(c)
    /\ step' = [step EXCEPT ![w] = "read"]
    /\ camp' = [camp EXCEPT ![w] = c]
    /\ mem' = [mem EXCEPT ![w] = "sending"]
    /\ seen' = [seen EXCEPT ![w] = delivered[c]]
    /\ UNCHANGED <<vars, ctables, rowLock, deleting, sweep, sweeping, made, chistory>>

(* UPDATE ... WHERE status = 'scheduled' AND scheduled_at <= now, committed. *)
DueAgain(c) == cstatus[c] \in {"scheduled", "sending"} \* mutant
Due(c) == cstatus[c] = "scheduled"

ClaimScheduled(w, due) ==
    /\ step[w] = "idle" /\ phase[w] = "idle" /\ ~sweeping[w]
    /\ due # {} /\ \A c \in due : Due(c) /\ Free(c)
    /\ cstatus' = [c \in Campaigns |-> IF c \in due THEN "sending" ELSE cstatus[c]]
    /\ claims' = [c \in Campaigns |-> IF c \in due THEN claims[c] + 1 ELSE claims[c]]
    /\ sweep' = [sweep EXCEPT ![w] = due]
    /\ sweeping' = [sweeping EXCEPT ![w] = TRUE]
    /\ UNCHANGED <<vars, delivered, rowLock, deleting, step, camp, mem, seen, made, madeFor>>

(* The next claimed campaign, unless it was deleted meanwhile. *)
TakeNext(w, c) ==
    /\ step[w] = "idle" /\ c \in sweep[w]
    /\ sweep' = [sweep EXCEPT ![w] = @ \ {c}]
    /\ IF cstatus[c] = "absent"
       THEN UNCHANGED <<step, camp, mem, seen>>
       ELSE /\ step' = [step EXCEPT ![w] = "read"]
            /\ camp' = [camp EXCEPT ![w] = c]
            /\ mem' = [mem EXCEPT ![w] = cstatus[c]]
            /\ seen' = [seen EXCEPT ![w] = delivered[c]]
    /\ UNCHANGED <<vars, ctables, rowLock, deleting, sweeping, made, chistory>>

EndSweep(w) ==
    /\ sweeping[w] /\ step[w] = "idle" /\ sweep[w] = {}
    /\ sweeping' = [sweeping EXCEPT ![w] = FALSE]
    /\ UNCHANGED <<vars, ctables, rowLock, deleting, step, camp, mem, seen, sweep, made, chistory>>

-----------------------------------------------------------------------------
(* _dispatch_campaign                                                      *)

KeepLock(w) == UNCHANGED rowLock \* mutant: the transaction is left open
ReleaseLock(w) ==
    rowLock' = [c \in Campaigns |-> IF rowLock[c] = w THEN NoWorker ELSE rowLock[c]]

(* This campaign is done with; a sweep goes on to the next one. *)
Done(w) ==
    /\ step' = [step EXCEPT ![w] = "idle"]
    /\ camp' = [camp EXCEPT ![w] = NoCampaign]
    /\ mem' = [mem EXCEPT ![w] = "absent"]
    /\ seen' = [seen EXCEPT ![w] = 0]
    /\ made' = [made EXCEPT ![w] = NoBroadcast]

GoTo(w, next) ==
    /\ step' = [step EXCEPT ![w] = next]
    /\ UNCHANGED locals

(* The audience query flushes the pending change of the row and takes its   *)
(* lock; a deleted row makes it fail.                                       *)
QueryAudience(w) ==
    /\ step[w] = "read"
    /\ Free(camp[w])
    /\ IF cstatus[camp[w]] = "absent"
       THEN /\ Done(w)
            /\ UNCHANGED <<rowLock, sweep, sweeping>>
       ELSE /\ rowLock' = [rowLock EXCEPT ![camp[w]] = w]
            /\ GoTo(w, "held")
    /\ UNCHANGED <<vars, ctables, deleting, chistory>>

(* The dispatch's own broadcast, committed with the status.  A sweep has    *)
(* committed its status with the claim.                                     *)
MakeBroadcast(w, b) ==
    /\ step[w] = "held"
    /\ Create(b)
    /\ IF sweeping[w] THEN UNCHANGED cstatus ELSE SetCampaign(camp[w], "sending")
    /\ madeFor' = [madeFor EXCEPT ![b] = camp[w]]
    /\ made' = [made EXCEPT ![w] = b]
    /\ step' = [step EXCEPT ![w] = "made"]
    /\ ReleaseLock(w)
    /\ UNCHANGED <<delivered, deleting, camp, mem, seen, sweep, sweeping, claims>>

(* send_broadcast: the claim of the draft, unless a tenant has queued or    *)
(* cancelled it first.                                                      *)
ClaimAnyway(w, b) == Claim(w, b, status[b]) \* mutant
ClaimMade(w, b) == ClaimDraft(w, b)

SendMade(w) ==
    /\ step[w] = "made"
    /\ ClaimMade(w, made[w])
    /\ GoTo(w, "fanout")
    /\ UNCHANGED <<ctables, rowLock, deleting, chistory>>

MadeIsTaken(w) ==
    /\ step[w] = "made"
    /\ status[made[w]] # "draft"
    /\ GoTo(w, "fanout")
    /\ UNCHANGED <<vars, ctables, rowLock, deleting, chistory>>

(* A second session stores what was delivered and the status that follows   *)
(* from it.                                                                 *)
AudienceSize(w) == Cardinality(AudienceOf[camp[w]]) \* mutant: the estimate
DeliveredCount(w) == sentCount[made[w]]

StoreDelivered(w) ==
    /\ step[w] = "fanout" /\ phase[w] = "idle"
    /\ UpdateCampaign(camp[w], IF DeliveredCount(w) > 0 THEN "sent" ELSE "failed")
    /\ delivered' = IF cstatus[camp[w]] = "absent" THEN delivered
                    ELSE [delivered EXCEPT ![camp[w]] = DeliveredCount(w)]
    /\ GoTo(w, "stored")
    /\ UNCHANGED <<vars, rowLock, deleting, chistory>>

(* The instance is assigned a delivered_count of 0, which is written only   *)
(* if it was read with another.                                             *)
ClearDelivered(w) ==
    delivered' = IF seen[w] = 0 \/ cstatus[camp[w]] = "absent" THEN delivered
                 ELSE [delivered EXCEPT ![camp[w]] = 0]

(* The first session's commit: its instance says 'sent' whatever was        *)
(* stored, and takes the sent_count of the broadcast it made as it was then. *)
CommitSent(w) ==
    /\ step[w] = "stored"
    /\ UpdateCampaign(camp[w], "sent")
    /\ ClearDelivered(w)
    /\ Done(w)
    /\ UNCHANGED <<vars, rowLock, deleting, sweep, sweeping, chistory>>

(* No recipient, no connected page, or a dispatch that raised: a campaign   *)
(* that is 'sending' in memory becomes 'queued'.                            *)
QueuedStatus == "queued"

CommitQueued(w) ==
    /\ step[w] \in {"held", "deferred"}
    /\ rowLock[camp[w]] \in {w, NoWorker}
    /\ IF mem[w] = "sending" /\ cstatus[camp[w]] # "absent"
       THEN SetCampaign(camp[w], QueuedStatus) /\ ClearDelivered(w)
       ELSE UNCHANGED ctables
    /\ Done(w)
    /\ ReleaseLock(w)
    /\ UNCHANGED <<vars, deleting, sweep, sweeping, chistory>>

-----------------------------------------------------------------------------
(* Exceptions and dying instances.                                         *)

(* A sweep catches: it rolls back and fails a campaign left 'sending'. *)
SweepFails(w) ==
    /\ sweeping[w] /\ step[w] \in {"read", "held", "stored", "deferred"}
    /\ rowLock[camp[w]] \in {w, NoWorker}
    /\ IF cstatus[camp[w]] = "sending" THEN SetCampaign(camp[w], "failed") ELSE UNCHANGED cstatus
    /\ Done(w)
    /\ ReleaseLock(w)
    /\ UNCHANGED <<vars, delivered, deleting, sweep, sweeping, chistory>>

(* send_broadcast raised, in its fan-out or before it had claimed the        *)
(* broadcast, or the second session did: the dispatch is deferred.           *)
Defer(w) ==
    /\ \/ step[w] = "fanout" /\ GiveUp(w)
       \/ step[w] \in {"made", "fanout"} /\ phase[w] = "idle" /\ UNCHANGED vars
    /\ GoTo(w, "deferred")
    /\ UNCHANGED <<ctables, rowLock, deleting, chistory>>

(* A request that raises, or an instance that dies with all it was doing. *)
Die(w) ==
    /\ step[w] # "idle" \/ sweeping[w]
    /\ IF phase[w] = "idle" THEN UNCHANGED vars ELSE Crash(w)
    /\ Done(w)
    /\ sweep' = [sweep EXCEPT ![w] = {}]
    /\ sweeping' = [sweeping EXCEPT ![w] = FALSE]
    /\ ReleaseLock(w)
    /\ UNCHANGED <<ctables, deleting, chistory>>

-----------------------------------------------------------------------------

(* The broadcast engine at work.  A dispatch's broadcast carries no filter  *)
(* the engine reads: it goes to whoever is active.                          *)
EngineSelection == SUBSET Active

FanOut(w) ==
    \/ Refuse(w) \/ NoAudience(w)
    \/ \E audience \in EngineSelection : WriteRecipients(w, audience)
    \/ \E batch \in SUBSET Subscribers : StartBatch(w, batch)
    \/ EndBatch(w) \/ Complete(w) \/ MarkFailed(w)

EngineFails(w) ==
    \/ Raise(w)
    \/ \E s \in Subscribers : TaskRaises(w, s)
    \/ step[w] = "idle" /\ (GiveUp(w) \/ Crash(w))

EngineStep ==
    /\ \/ \E b \in Broadcasts :
            \/ Queue(b) \/ ReadForCancel(b) \/ CommitCancel(b)
            \/ \E w \in Workers : step[w] = "idle" /\ ~sweeping[w] /\ ClaimQueued(w, b)
            \/ \E s \in Subscribers : Post(b, s) \/ Record(b, s) \/ OrphanEnds(b, s)
       \/ \E w \in Workers : FanOut(w) \/ EngineFails(w)
    /\ UNCHANGED cvars

Dispatch(w) ==
    \/ \E c \in Campaigns : TakeNext(w, c)
    \/ EndSweep(w)
    \/ QueryAudience(w)
    \/ \E b \in Broadcasts : MakeBroadcast(w, b)
    \/ SendMade(w) \/ MadeIsTaken(w)
    \/ StoreDelivered(w)
    \/ CommitSent(w) \/ CommitQueued(w)

CNext ==
    \/ EngineStep
    \/ \E c \in Campaigns :
        \/ \E st \in {"draft", "scheduled"} : CreateCampaign(c, st)
        \/ ReadForDelete(c) \/ CommitDelete(c)
        \/ \E w \in Workers : ReadForSend(w, c)
    \/ \E w \in Workers :
        \/ \E due \in SUBSET Campaigns : ClaimScheduled(w, due)
        \/ Dispatch(w)
        \/ SweepFails(w) \/ Defer(w) \/ Die(w)

CSpec == CInit /\ [][CNext]_allVars

(* As in Broadcast; a dispatch that waits for a campaign's row gets its     *)
(* lock in turn.                                                            *)
CFairness ==
    /\ \A w \in Workers :
        /\ WF_allVars(FanOut(w) /\ UNCHANGED cvars)
        /\ SF_allVars(Dispatch(w))
    /\ \A b \in Broadcasts, s \in Subscribers :
        /\ WF_allVars(Post(b, s) /\ UNCHANGED cvars)
        /\ WF_allVars(Record(b, s) /\ UNCHANGED cvars)

CFairSpec == CSpec /\ CFairness

-----------------------------------------------------------------------------

(* Campaigns use the engine by its own rules: every step of theirs is a     *)
(* step of Broadcast or leaves it alone, so what is proved of broadcasts    *)
(* holds of those a campaign makes.                                         *)
ImplementsBroadcast == Spec

(* Two overlapping bot cycles never both take a scheduled campaign          *)
(* (process_pending_campaigns).                                             *)
SweptOnce == \A c \in Campaigns : claims[c] <= 1

(* The number shown as delivered is backed by the sent_count of a broadcast *)
(* that was made for this campaign and is no estimate, however many         *)
(* dispatches store theirs (_dispatch_campaign).                            *)
DeliveredIsBacked ==
    \A c \in Campaigns :
        delivered[c] > 0 =>
            \E b \in Broadcasts : madeFor[b] = c /\ sentCount[b] >= delivered[c]

CampaignInv == SweptOnce /\ DeliveredIsBacked

(* Every dispatch ends and gives the campaign's row back, also when others  *)
(* dispatch or delete the campaign at the same time.                        *)
DispatchEnds == \A w \in Workers : step[w] # "idle" ~> step[w] = "idle"

(* marketing.py:272-274: a scheduled consumer racing a manual send cannot   *)
(* double-deliver.                                                          *)
DeliveredOncePerCampaign ==
    \A s \in Subscribers, b, d \in Broadcasts :
        /\ calls[b][s] > 0 /\ calls[d][s] > 0
        /\ madeFor[b] = madeFor[d] /\ madeFor[b] # NoCampaign
        => b = d

(* marketing.py:174-177: a campaign is not shown as 'sent' unless a         *)
(* dispatch reached somebody, 'failed' being for one that reached nobody.   *)
SentIsNotFake ==
    \A c \in Campaigns :
        cstatus[c] = "sent" => \E b \in Broadcasts, s \in Subscribers :
                                    madeFor[b] = c /\ copies[b][s] > 0

(* marketing.py:3-7: a campaign reaches the subscribers of its audience.    *)
OnlyTheAudience ==
    \A b \in Broadcasts, s \in Subscribers :
        madeFor[b] # NoCampaign /\ calls[b][s] > 0 => s \in AudienceOf[madeFor[b]]

=============================================================================
