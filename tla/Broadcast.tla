----------------------------- MODULE Broadcast -----------------------------
(***************************************************************************)
(* Broadcasts: a message to a segment of a tenant's subscribers.  A tenant *)
(* queues a draft and may cancel it; the drain at the end of a bot cycle   *)
(* (or a campaign's dispatch) claims it, writes one recipient row per      *)
(* matching subscriber and sends in batches of concurrent tasks, each with *)
(* its own session; counters and the final status are aggregated from the  *)
(* rows.  Nothing of a fan-out but its rows survives the instance it runs  *)
(* on.                                                                     *)
(*                                                                         *)
(* The text, the filters and their matching are abstracted: the audience   *)
(* is whatever set the segment query returns at that moment.               *)
(***************************************************************************)
EXTENDS Naturals, FiniteSets

CONSTANTS
    Broadcasts,
    Subscribers,
    Messenger,      \* subscribers on a platform send_dm can reach
    Workers,        \* drains and dispatches that may run at the same time
    BatchSize,      \* batch_size and the semaphore of _send_claimed_broadcast
    MaxTries,       \* max_retries of FBClient._post
    NoBroadcast

ASSUME SubscribersAssumption == IsFiniteSet(Subscribers) /\ Messenger \subseteq Subscribers
ASSUME BatchSizeAssumption == BatchSize \in Nat \ {0}
ASSUME MaxTriesAssumption == MaxTries \in Nat \ {0}
ASSUME NoBroadcastAssumption == NoBroadcast \notin Broadcasts

VARIABLES
    status,     \* broadcasts.status, "absent" before the row exists
    rcpt,       \* broadcast_recipients.status, "none" where there is no row
    sentCount,  \* broadcasts.sent_count
    failedCount,\* broadcasts.failed_count
    cancelling, \* a cancel has read a cancellable status and will write
    phase,      \* how far each worker is
    job,        \* the broadcast it has claimed
    todo,       \* the recipients of its task list not yet started
    task,       \* the state of the send_one task of a recipient
    tries,      \* the POSTs its send_dm has made in vain
    calls,      \* history: send_dm calls made for a recipient
    copies      \* history: messages Facebook accepted for a recipient

counters == <<sentCount, failedCount>>
tables == <<status, rcpt, counters>>
worker == <<phase, job, todo>>
sends == <<task, tries>>
history == <<calls, copies>>
vars == <<tables, cancelling, worker, sends, history>>

Statuses == {"absent", "draft", "pending", "sending", "sent", "partial", "failed", "cancelled"}
Ended == {"sent", "partial", "failed"}
Rows == [Broadcasts -> [Subscribers -> Nat]]

TypeOK ==
    /\ status \in [Broadcasts -> Statuses]
    /\ rcpt \in [Broadcasts -> [Subscribers -> {"none", "pending", "sent", "failed"}]]
    /\ sentCount \in [Broadcasts -> Nat]
    /\ failedCount \in [Broadcasts -> Nat]
    /\ cancelling \in [Broadcasts -> BOOLEAN]
    /\ phase \in [Workers -> {"idle", "claimed", "sending", "batch", "error"}]
    /\ job \in [Workers -> Broadcasts \cup {NoBroadcast}]
    /\ todo \in [Workers -> SUBSET Subscribers]
    /\ task \in [Broadcasts -> [Subscribers -> {"none", "posting", "accepted", "refused"}]]
    /\ tries \in Rows
    /\ calls \in Rows
    /\ copies \in Rows

Init ==
    /\ status = [b \in Broadcasts |-> "absent"]
    /\ rcpt = [b \in Broadcasts |-> [s \in Subscribers |-> "none"]]
    /\ sentCount = [b \in Broadcasts |-> 0]
    /\ failedCount = [b \in Broadcasts |-> 0]
    /\ cancelling = [b \in Broadcasts |-> FALSE]
    /\ phase = [w \in Workers |-> "idle"]
    /\ job = [w \in Workers |-> NoBroadcast]
    /\ todo = [w \in Workers |-> {}]
    /\ task = [b \in Broadcasts |-> [s \in Subscribers |-> "none"]]
    /\ tries = [b \in Broadcasts |-> [s \in Subscribers |-> 0]]
    /\ calls = [b \in Broadcasts |-> [s \in Subscribers |-> 0]]
    /\ copies = [b \in Broadcasts |-> [s \in Subscribers |-> 0]]

RowsWith(b, st) == {s \in Subscribers : rcpt[b][s] = st}
Running(b) == {s \in Subscribers : task[b][s] # "none"}

SetStatus(b, st) == status' = [status EXCEPT ![b] = st]

-----------------------------------------------------------------------------
(* The tenant: create, queue and cancel.                                   *)

Create(b) ==
    /\ status[b] = "absent"
    /\ SetStatus(b, "draft")
    /\ UNCHANGED <<rcpt, counters, cancelling, worker, sends, history>>

(* POST /api/broadcasts/{id}/send: UPDATE ... WHERE status = 'draft'. *)
Queue(b) ==
    /\ status[b] = "draft"
    /\ SetStatus(b, "pending")
    /\ UNCHANGED <<rcpt, counters, cancelling, worker, sends, history>>

(* cancel_broadcast reads the row, checks it, and commits over whatever it  *)
(* has become.                                                              *)
Cancellable == {"draft", "pending", "sending"}

ReadForCancel(b) ==
    /\ status[b] \in Cancellable
    /\ ~cancelling[b]
    /\ cancelling' = [cancelling EXCEPT ![b] = TRUE]
    /\ UNCHANGED <<tables, worker, sends, history>>

CommitCancel(b) ==
    /\ cancelling[b]
    /\ cancelling' = [cancelling EXCEPT ![b] = FALSE]
    /\ SetStatus(b, "cancelled")
    /\ UNCHANGED <<rcpt, counters, worker, sends, history>>

-----------------------------------------------------------------------------
(* The claim: process_pending takes queued rows, send_broadcast a draft.   *)

ClaimIfNotSent(b, from) == status[b] \in {from, "sending"} \* mutant: a stale check
ClaimDraftOnly(b, from) == status[b] = "draft" \* mutant: nobody consumes the queue
Claimable(b, from) == status[b] = from

Claim(w, b, from) ==
    /\ phase[w] = "idle"
    /\ Claimable(b, from)
    /\ SetStatus(b, "sending")
    /\ phase' = [phase EXCEPT ![w] = "claimed"]
    /\ job' = [job EXCEPT ![w] = b]
    /\ UNCHANGED <<rcpt, counters, cancelling, todo, sends, history>>

ClaimQueued(w, b) == Claim(w, b, "pending")
ClaimDraft(w, b) == Claim(w, b, "draft")

-----------------------------------------------------------------------------
(* _send_claimed_broadcast                                                 *)

GoOn(w, next) ==
    /\ phase' = [phase EXCEPT ![w] = next]
    /\ UNCHANGED job

Return(w) ==
    /\ phase' = [phase EXCEPT ![w] = "idle"]
    /\ job' = [job EXCEPT ![w] = NoBroadcast]
    /\ todo' = [todo EXCEPT ![w] = {}]

(* No connected page, or a plan without broadcasts. *)
Refuse(w) ==
    /\ phase[w] = "claimed"
    /\ SetStatus(job[w], "failed")
    /\ Return(w)
    /\ UNCHANGED <<rcpt, counters, cancelling, sends, history>>

NoAudience(w) ==
    /\ phase[w] = "claimed"
    /\ SetStatus(job[w], "sent")
    /\ Return(w)
    /\ UNCHANGED <<rcpt, counters, cancelling, sends, history>>

(* One committed row per subscriber that matches, then the task list.  The  *)
(* status is not looked at again.                                           *)
WriteRecipients(w, audience) ==
    /\ phase[w] = "claimed"
    /\ audience # {}
    /\ rcpt' = [rcpt EXCEPT ![job[w]] =
                    [s \in Subscribers |-> IF s \in audience THEN "pending" ELSE @[s]]]
    /\ todo' = [todo EXCEPT ![w] = audience]
    /\ GoOn(w, "sending")
    /\ UNCHANGED <<status, counters, cancelling, sends, history>>

(* asyncio.gather over the next batch_size tasks; a task whose subscriber   *)
(* is not on Messenger makes no call.                                       *)
StartBatch(w, batch) ==
    LET b == job[w] IN
    /\ phase[w] = "sending"
    /\ batch \in SUBSET todo[w] /\ batch # {}
    /\ Cardinality(batch) = BatchSize \/ (batch = todo[w] /\ Cardinality(batch) < BatchSize)
    /\ todo' = [todo EXCEPT ![w] = @ \ batch]
    /\ task' = [task EXCEPT ![b] = [s \in Subscribers |->
                    IF s \notin batch THEN @[s]
                    ELSE IF s \in Messenger THEN "posting" ELSE "refused"]]
    /\ tries' = [tries EXCEPT ![b] = [s \in Subscribers |-> IF s \in batch THEN 0 ELSE @[s]]]
    /\ calls' = [calls EXCEPT ![b] = [s \in Subscribers |->
                    IF s \in batch \cap Messenger THEN @[s] + 1 ELSE @[s]]]
    /\ GoOn(w, "batch")
    /\ UNCHANGED <<tables, cancelling, copies>>

(* FBClient._post: an answer ends it; a timeout or a 5xx is tried again,    *)
(* whether Facebook has accepted the message or not.                        *)
AfterFailedTry(b, s) == IF tries[b][s] + 1 >= MaxTries THEN "refused" ELSE "posting"

Answered(b, s) ==
    /\ task[b][s] = "posting"
    /\ \/ /\ task' = [task EXCEPT ![b][s] = "accepted"]
          /\ copies' = [copies EXCEPT ![b][s] = @ + 1]
       \/ task' = [task EXCEPT ![b][s] = "refused"] /\ UNCHANGED copies
    /\ UNCHANGED <<tables, cancelling, worker, tries, calls>>

NotAnswered(b, s) ==
    /\ task[b][s] = "posting"
    /\ task' = [task EXCEPT ![b][s] = AfterFailedTry(b, s)]
    /\ tries' = [tries EXCEPT ![b][s] = IF @ < MaxTries THEN @ + 1 ELSE @]
    /\ copies' = copies \/ copies' = [copies EXCEPT ![b][s] = @ + 1]
    /\ UNCHANGED <<tables, cancelling, worker, calls>>

Post(b, s) == Answered(b, s) \/ NotAnswered(b, s)

(* The task's own session commits what became of the message. *)
RecordAlwaysSent(b, s) == "sent" \* mutant: the result is not looked at
Outcome(b, s) == IF task[b][s] = "accepted" THEN "sent" ELSE "failed"

Record(b, s) ==
    /\ task[b][s] \in {"accepted", "refused"}
    /\ rcpt' = [rcpt EXCEPT ![b][s] = Outcome(b, s)]
    /\ task' = [task EXCEPT ![b][s] = "none"]
    /\ UNCHANGED <<status, counters, cancelling, worker, tries, history>>

(* _aggregate_fanout_counters: one statement over the recipient rows. *)
Aggregate(b) ==
    /\ sentCount' = [sentCount EXCEPT ![b] = Cardinality(RowsWith(b, "sent"))]
    /\ failedCount' = [failedCount EXCEPT ![b] = Cardinality(RowsWith(b, "failed"))]

NotWaiting(w) == phase[w] = "batch" \* mutant: the batch is not awaited
WaitsForAll(w) == \* mutant: the whole task list is awaited after its first batch
    phase[w] = "batch" /\ RowsWith(job[w], "pending") = {}
BatchReturned(w) == phase[w] = "batch" /\ Running(job[w]) = {}

EndBatch(w) ==
    /\ BatchReturned(w)
    /\ Aggregate(job[w])
    /\ GoOn(w, "sending")
    /\ UNCHANGED <<status, rcpt, cancelling, todo, sends, history>>

FinalStatus(b) ==
    IF RowsWith(b, "sent") = {} THEN "failed"
    ELSE IF RowsWith(b, "failed") = {} THEN "sent"
    ELSE "partial"

Complete(w) ==
    /\ phase[w] = "sending"
    /\ todo[w] = {}
    /\ Aggregate(job[w])
    /\ SetStatus(job[w], FinalStatus(job[w]))
    /\ Return(w)
    /\ UNCHANGED <<rcpt, cancelling, sends, history>>

-----------------------------------------------------------------------------
(* Exceptions and dying instances.                                         *)

(* A query of the fan-out raises, or a task does: gather re-raises it at    *)
(* once and the batch's other tasks run on, awaited by nobody.              *)
Raise(w) ==
    /\ phase[w] \in {"claimed", "sending"}
    /\ GoOn(w, "error")
    /\ UNCHANGED <<tables, cancelling, todo, sends, history>>

TaskRaises(w, s) ==
    /\ phase[w] = "batch"
    /\ task[job[w]][s] # "none"
    /\ task' = [task EXCEPT ![job[w]][s] = "none"]
    /\ GoOn(w, "error")
    /\ UNCHANGED <<tables, cancelling, todo, tries, history>>

MarkFailed(w) ==
    /\ phase[w] = "error"
    /\ SetStatus(job[w], "failed")
    /\ Return(w)
    /\ UNCHANGED <<rcpt, counters, cancelling, sends, history>>

(* The session is unusable after a database error: the commit of 'failed'   *)
(* raises too and process_pending rolls back.                               *)
GiveUp(w) ==
    /\ phase[w] = "error"
    /\ Return(w)
    /\ UNCHANGED <<tables, cancelling, sends, history>>

(* The instance dies with its tasks. *)
Crash(w) ==
    /\ phase[w] # "idle"
    /\ task' = [task EXCEPT ![job[w]] = [s \in Subscribers |-> "none"]]
    /\ Return(w)
    /\ UNCHANGED <<tables, cancelling, tries, history>>

(* A task nobody awaits raises or dies with its instance. *)
OrphanEnds(b, s) ==
    /\ task[b][s] # "none"
    /\ \A w \in Workers : job[w] = b => phase[w] # "batch"
    /\ task' = [task EXCEPT ![b][s] = "none"]
    /\ UNCHANGED <<tables, cancelling, worker, tries, history>>

-----------------------------------------------------------------------------

Fail(w) ==
    \/ Raise(w)
    \/ \E s \in Subscribers : TaskRaises(w, s)
    \/ GiveUp(w)
    \/ Crash(w)

Advance(w) ==
    \/ Refuse(w)
    \/ NoAudience(w)
    \/ \E audience \in SUBSET Subscribers : WriteRecipients(w, audience)
    \/ \E batch \in SUBSET Subscribers : StartBatch(w, batch)
    \/ EndBatch(w)
    \/ Complete(w)
    \/ MarkFailed(w)

Next ==
    \/ \E b \in Broadcasts :
        \/ Create(b) \/ Queue(b)
        \/ ReadForCancel(b) \/ CommitCancel(b)
        \/ \E w \in Workers : ClaimQueued(w, b) \/ ClaimDraft(w, b)
        \/ \E s \in Subscribers : Post(b, s) \/ Record(b, s) \/ OrphanEnds(b, s)
    \/ \E w \in Workers : Advance(w) \/ Fail(w)

Spec == Init /\ [][Next]_vars

(* An instance that is up runs its coroutines, a POST ends by its timeout,  *)
(* and the scheduled bot cycle keeps coming and drains the queue.  Nobody   *)
(* promises that an instance stays up.                                      *)
Fairness ==
    /\ \A w \in Workers : WF_vars(Advance(w))
    /\ \A b \in Broadcasts :
        /\ WF_vars(\E w \in Workers : ClaimQueued(w, b))
        /\ \A s \in Subscribers : WF_vars(Post(b, s)) /\ WF_vars(Record(b, s))

FairSpec == Spec /\ Fairness

-----------------------------------------------------------------------------

(* However many drains and dispatches overlap, one send_dm is made for a    *)
(* recipient of a broadcast (process_pending, send_broadcast).              *)
CalledOnce == \A b \in Broadcasts, s \in Subscribers : calls[b][s] <= 1

(* A subscriber gets at most one copy for each POST that send_dm may try,   *)
(* also when Facebook accepted a POST whose answer was lost                 *)
(* (FBClient._post under _send_claimed_broadcast).                          *)
CopiesBounded == \A b \in Broadcasts, s \in Subscribers : copies[b][s] <= MaxTries

(* What the rows say happened: a row is 'sent' only if the message reached  *)
(* Facebook, and nobody without a row got it (send_one).                    *)
RowsTellTheTruth ==
    \A b \in Broadcasts, s \in Subscribers :
        /\ rcpt[b][s] = "sent" => copies[b][s] > 0
        /\ copies[b][s] > 0 => rcpt[b][s] # "none"

(* A broadcast shown as sent or partial is over: every recipient row is     *)
(* decided, its counters are those of the rows, and 'sent' means that       *)
(* nobody's message failed (_aggregate_fanout_counters).                    *)
EndedIsComplete ==
    \A b \in Broadcasts :
        status[b] \in {"sent", "partial"} =>
            /\ RowsWith(b, "pending") = {}
            /\ sentCount[b] = Cardinality(RowsWith(b, "sent"))
            /\ failedCount[b] = Cardinality(RowsWith(b, "failed"))
            /\ status[b] = "sent" => RowsWith(b, "failed") = {}

(* The three together: what became of a broadcast is what its rows, its     *)
(* status and its counters say, and nobody was written to twice.            *)
BroadcastInv == CalledOnce /\ RowsTellTheTruth /\ EndedIsComplete

(* A broadcast that has ended is never sent again; only a cancel that read  *)
(* it while it ran may still change its status (cancel_broadcast).          *)
EndIsFinal ==
    [][\A b \in Broadcasts :
        status[b] \in Ended /\ status'[b] # status[b] =>
            status'[b] = "cancelled" /\ cancelling[b]]_vars

(* A queued broadcast is taken from the queue by some later bot cycle,      *)
(* whatever becomes of the instances (process_pending).                     *)
QueueIsDrained == \A b \in Broadcasts : status[b] = "pending" ~> status[b] # "pending"

(* Every fan-out ends: no batch waits for ever for a subscriber Facebook    *)
(* does not answer for (_post, gather).                                     *)
FanOutEnds == \A w \in Workers : phase[w] # "idle" ~> phase[w] = "idle"

(* broadcast_engine.py:598-599: claimed rows that cannot send mark          *)
(* themselves failed, so that a row that says 'sending' is being sent.      *)
SendingIsBeingSent ==
    \A b \in Broadcasts : status[b] = "sending" => \E w \in Workers : job[w] = b

=============================================================================
