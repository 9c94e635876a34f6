--------------------------- MODULE CampaignProofs ---------------------------
(***************************************************************************)
(* What holds of broadcasts for every number of broadcasts, subscribers,   *)
(* workers, batch sizes and retries.  That a recipient is called once is   *)
(* not inductive: it rests on a claim being exclusive, on a claimed        *)
(* broadcast having no rows before its fan-out, and on the task list       *)
(* holding only recipients nobody was called for.                          *)
(*                                                                         *)
(* And campaigns implement the broadcast engine, for every number of       *)
(* campaigns as well, so the theorems about broadcasts carry over; and a   *)
(* scheduled campaign is swept once.                                       *)
(***************************************************************************)
EXTENDS Campaign, TLAPS, FiniteSetTheorems

(* Nothing of a broadcast exists before its fan-out. *)
Blank(b) ==
    /\ sentCount[b] = 0 /\ failedCount[b] = 0
    /\ \A s \in Subscribers :
        rcpt[b][s] = "none" /\ task[b][s] = "none" /\ calls[b][s] = 0 /\ copies[b][s] = 0

(* A claim is on one broadcast, which nobody else has claimed and which     *)
(* nobody can claim again.                                                  *)
ClaimsExclusive ==
    \A w \in Workers :
        phase[w] # "idle" =>
            /\ job[w] \in Broadcasts
            /\ status[job[w]] \in {"sending", "cancelled"}
            /\ \A v \in Workers : phase[v] # "idle" /\ v # w => job[v] # job[w]

IdleHasNoJob == \A w \in Workers : phase[w] = "idle" => job[w] = NoBroadcast

BlankUntilSent ==
    /\ \A b \in Broadcasts : status[b] \in {"absent", "draft", "pending"} => Blank(b)
    /\ \A w \in Workers : phase[w] = "claimed" => Blank(job[w])

(* The task list holds undecided recipients nobody was called for, and all  *)
(* undecided recipients are in it or in the running batch.                  *)
TodoFresh ==
    \A w \in Workers :
        phase[w] \in {"sending", "batch"} =>
            \A s \in Subscribers :
                /\ s \in todo[w] =>
                    /\ rcpt[job[w]][s] = "pending"
                    /\ task[job[w]][s] = "none"
                    /\ calls[job[w]][s] = 0
                /\ rcpt[job[w]][s] = "pending" => s \in todo[w] \/ task[job[w]][s] # "none"
                /\ phase[w] = "sending" => task[job[w]][s] = "none"

(* One message to one subscriber. *)
MessageOK(b, s) ==
    /\ calls[b][s] <= 1
    /\ calls[b][s] = 0 => copies[b][s] = 0
    /\ copies[b][s] <= MaxTries
    /\ task[b][s] = "posting" =>
        calls[b][s] = 1 /\ tries[b][s] < MaxTries /\ copies[b][s] <= tries[b][s]
    /\ task[b][s] = "accepted" => copies[b][s] > 0
    /\ task[b][s] # "none" => rcpt[b][s] = "pending"
    /\ rcpt[b][s] = "sent" => copies[b][s] > 0
    /\ copies[b][s] > 0 => rcpt[b][s] # "none"

MessagesOK == \A b \in Broadcasts, s \in Subscribers : MessageOK(b, s)

EndedIsQuiet ==
    /\ EndedIsComplete
    /\ \A b \in Broadcasts, s \in Subscribers :
        status[b] \in {"sent", "partial"} => task[b][s] = "none"

IInv ==
    /\ TypeOK
    /\ ClaimsExclusive
    /\ IdleHasNoJob
    /\ BlankUntilSent
    /\ TodoFresh
    /\ MessagesOK
    /\ EndedIsQuiet

USE SubscribersAssumption, BatchSizeAssumption, MaxTriesAssumption, NoBroadcastAssumption

-----------------------------------------------------------------------------

LEMMA RowsCounted ==
    ASSUME NEW b \in Broadcasts, NEW st
    PROVE  Cardinality(RowsWith(b, st)) \in Nat
<1>1. IsFiniteSet(RowsWith(b, st))
  BY FS_Subset DEF RowsWith
<1> QED BY <1>1, FS_CardinalityType

(* Whatever leaves ended broadcasts and their rows alone keeps them quiet. *)
LEMMA QuietKept ==
    ASSUME IInv,
           \A b \in Broadcasts : status'[b] \in {"sent", "partial"} =>
               /\ status'[b] = status[b]
               /\ sentCount'[b] = sentCount[b] /\ failedCount'[b] = failedCount[b]
               /\ rcpt'[b] = rcpt[b]
               /\ \A s \in Subscribers : task'[b][s] = task[b][s]
    PROVE  EndedIsQuiet'
<1>1. \A b \in Broadcasts : \A st \in {"pending", "sent", "failed"} :
        status'[b] \in {"sent", "partial"} => RowsWith(b, st)' = RowsWith(b, st)
  BY DEF RowsWith
<1>2. EndedIsComplete'
  BY <1>1 DEF IInv, EndedIsQuiet, EndedIsComplete
<1> QED BY <1>2 DEF IInv, EndedIsQuiet

(* A step about one broadcast that has left the queue keeps the others      *)
(* blank.                                                                   *)
LEMMA BlankKept ==
    ASSUME IInv, NEW b \in Broadcasts,
           \A c \in Broadcasts : c # b =>
               /\ status'[c] = status[c]
               /\ sentCount'[c] = sentCount[c] /\ failedCount'[c] = failedCount[c]
               /\ rcpt'[c] = rcpt[c] /\ task'[c] = task[c]
               /\ calls'[c] = calls[c] /\ copies'[c] = copies[c],
           status'[b] \notin {"absent", "draft", "pending"},
           \A v \in Workers : phase'[v] = "claimed" =>
               phase[v] = "claimed" /\ job'[v] = job[v] /\ job[v] # b
    PROVE  BlankUntilSent'
<1>1. \A c \in Broadcasts : c # b /\ Blank(c) => Blank(c)'
  BY DEF Blank
<1>2. \A c \in Broadcasts : status'[c] \in {"absent", "draft", "pending"} => Blank(c)'
  BY <1>1 DEF IInv, BlankUntilSent
<1>3. \A v \in Workers : phase'[v] = "claimed" => Blank(job[v])'
  BY <1>1 DEF IInv, BlankUntilSent, ClaimsExclusive
<1> QED BY <1>2, <1>3 DEF BlankUntilSent

LEMMA OneCellChanged ==
    ASSUME NEW V, NEW f \in [Broadcasts -> [Subscribers -> V]],
           NEW b \in Broadcasts, NEW s \in Subscribers, NEW v \in V
    PROVE  [f EXCEPT ![b][s] = v] \in [Broadcasts -> [Subscribers -> V]]
  OBVIOUS

LEMMA InitIInv == Init => IInv
<1> SUFFICES ASSUME Init PROVE IInv
  OBVIOUS
<1>1. TypeOK
  BY DEF Init, TypeOK, Statuses, Rows
<1>2. ClaimsExclusive /\ IdleHasNoJob /\ BlankUntilSent /\ TodoFresh
  BY DEF Init, ClaimsExclusive, IdleHasNoJob, BlankUntilSent, TodoFresh, Blank
<1>3. MessagesOK
  BY DEF Init, MessagesOK, MessageOK
<1>4. EndedIsQuiet
  BY DEF Init, EndedIsQuiet, EndedIsComplete
<1> QED BY <1>1, <1>2, <1>3, <1>4 DEF IInv

LEMMA CreateIInv ==
    ASSUME IInv, NEW b \in Broadcasts, Create(b)
    PROVE  IInv'
<1>1. TypeOK'
  BY DEF IInv, TypeOK, Statuses, Rows, Create, SetStatus, tables, counters,
     worker, sends, history
<1>2. ClaimsExclusive'
  BY DEF IInv, TypeOK, ClaimsExclusive, Create, SetStatus, tables, counters,
     worker, sends, history
<1>3. IdleHasNoJob'
  BY DEF IInv, TypeOK, IdleHasNoJob, Create, SetStatus, tables, counters,
     worker, sends, history
<1>4. BlankUntilSent'
  BY DEF IInv, TypeOK, ClaimsExclusive, BlankUntilSent, Blank, Create,
     SetStatus, tables, counters, worker, sends, history
<1>5. TodoFresh'
  BY DEF IInv, TypeOK, ClaimsExclusive, TodoFresh, Create, SetStatus,
     tables, counters, worker, sends, history
<1>6. MessagesOK'
  BY DEF IInv, TypeOK, MessagesOK, MessageOK, Rows, Create, SetStatus,
     tables, counters, worker, sends, history
<1>7. EndedIsQuiet'
  <2>1. \A c \in Broadcasts : status'[c] \in {"sent", "partial"} =>
          /\ status'[c] = status[c]
          /\ sentCount'[c] = sentCount[c] /\ failedCount'[c] = failedCount[c]
          /\ rcpt'[c] = rcpt[c]
          /\ \A q \in Subscribers : task'[c][q] = task[c][q]
    BY DEF IInv, TypeOK, ClaimsExclusive, EndedIsQuiet, Create, SetStatus,
       tables, counters, worker, sends, history
  <2> QED BY <2>1, QuietKept
<1> QED BY <1>1, <1>2, <1>3, <1>4, <1>5, <1>6, <1>7 DEF IInv

LEMMA QueueIInv ==
    ASSUME IInv, NEW b \in Broadcasts, Queue(b)
    PROVE  IInv'
<1>1. TypeOK'
  BY DEF IInv, TypeOK, Statuses, Rows, Queue, SetStatus, tables, counters,
     worker, sends, history
<1>2. ClaimsExclusive'
  BY DEF IInv, TypeOK, ClaimsExclusive, Queue, SetStatus, tables, counters,
     worker, sends, history
<1>3. IdleHasNoJob'
  BY DEF IInv, TypeOK, IdleHasNoJob, Queue, SetStatus, tables, counters,
     worker, sends, history
<1>4. BlankUntilSent'
  BY DEF IInv, TypeOK, ClaimsExclusive, BlankUntilSent, Blank, Queue,
     SetStatus, tables, counters, worker, sends, history
<1>5. TodoFresh'
  BY DEF IInv, TypeOK, ClaimsExclusive, TodoFresh, Queue, SetStatus, tables,
     counters, worker, sends, history
<1>6. MessagesOK'
  BY DEF IInv, TypeOK, MessagesOK, MessageOK, Rows, Queue, SetStatus,
     tables, counters, worker, sends, history
<1>7. EndedIsQuiet'
  <2>1. \A c \in Broadcasts : status'[c] \in {"sent", "partial"} =>
          /\ status'[c] = status[c]
          /\ sentCount'[c] = sentCount[c] /\ failedCount'[c] = failedCount[c]
          /\ rcpt'[c] = rcpt[c]
          /\ \A q \in Subscribers : task'[c][q] = task[c][q]
    BY DEF IInv, TypeOK, ClaimsExclusive, EndedIsQuiet, Queue, SetStatus,
       tables, counters, worker, sends, history
  <2> QED BY <2>1, QuietKept
<1> QED BY <1>1, <1>2, <1>3, <1>4, <1>5, <1>6, <1>7 DEF IInv

LEMMA ReadForCancelIInv ==
    ASSUME IInv, NEW b \in Broadcasts, ReadForCancel(b)
    PROVE  IInv'
<1>1. TypeOK'
  BY DEF IInv, TypeOK, Statuses, Rows, ReadForCancel, tables, counters,
     worker, sends, history
<1>2. ClaimsExclusive'
  BY DEF IInv, TypeOK, ClaimsExclusive, ReadForCancel, tables, counters,
     worker, sends, history
<1>3. IdleHasNoJob'
  BY DEF IInv, TypeOK, IdleHasNoJob, ReadForCancel, tables, counters,
     worker, sends, history
<1>4. BlankUntilSent'
  BY DEF IInv, TypeOK, ClaimsExclusive, BlankUntilSent, Blank,
     ReadForCancel, tables, counters, worker, sends, history
<1>5. TodoFresh'
  BY DEF IInv, TypeOK, ClaimsExclusive, TodoFresh, ReadForCancel, tables,
     counters, worker, sends, history
<1>6. MessagesOK'
  BY DEF IInv, TypeOK, MessagesOK, MessageOK, Rows, ReadForCancel, tables,
     counters, worker, sends, history
<1>7. EndedIsQuiet'
  <2>1. \A c \in Broadcasts : status'[c] \in {"sent", "partial"} =>
          /\ status'[c] = status[c]
          /\ sentCount'[c] = sentCount[c] /\ failedCount'[c] = failedCount[c]
          /\ rcpt'[c] = rcpt[c]
          /\ \A q \in Subscribers : task'[c][q] = task[c][q]
    BY DEF IInv, TypeOK, ClaimsExclusive, EndedIsQuiet, ReadForCancel,
       tables, counters, worker, sends, history
  <2> QED BY <2>1, QuietKept
<1> QED BY <1>1, <1>2, <1>3, <1>4, <1>5, <1>6, <1>7 DEF IInv

(* A cancel may come while the fan-out runs, and after it. *)
LEMMA CommitCancelIInv ==
    ASSUME IInv, NEW b \in Broadcasts, CommitCancel(b)
    PROVE  IInv'
<1>1. TypeOK'
  BY DEF IInv, TypeOK, Statuses, Rows, CommitCancel, SetStatus, tables,
     counters, worker, sends, history
<1>2. ClaimsExclusive'
  BY DEF IInv, TypeOK, ClaimsExclusive, CommitCancel, SetStatus, tables,
     counters, worker, sends, history
<1>3. IdleHasNoJob'
  BY DEF IInv, TypeOK, IdleHasNoJob, CommitCancel, SetStatus, tables,
     counters, worker, sends, history
<1>4. BlankUntilSent'
  BY DEF IInv, TypeOK, ClaimsExclusive, BlankUntilSent, Blank, CommitCancel,
     SetStatus, tables, counters, worker, sends, history
<1>5. TodoFresh'
  BY DEF IInv, TypeOK, ClaimsExclusive, TodoFresh, CommitCancel, SetStatus,
     tables, counters, worker, sends, history
<1>6. MessagesOK'
  BY DEF IInv, TypeOK, MessagesOK, MessageOK, Rows, CommitCancel, SetStatus,
     tables, counters, worker, sends, history
<1>7. EndedIsQuiet'
  <2>1. \A c \in Broadcasts : status'[c] \in {"sent", "partial"} =>
          /\ status'[c] = status[c]
          /\ sentCount'[c] = sentCount[c] /\ failedCount'[c] = failedCount[c]
          /\ rcpt'[c] = rcpt[c]
          /\ \A q \in Subscribers : task'[c][q] = task[c][q]
    BY DEF IInv, TypeOK, ClaimsExclusive, EndedIsQuiet, CommitCancel,
       SetStatus, tables, counters, worker, sends, history
  <2> QED BY <2>1, QuietKept
<1> QED BY <1>1, <1>2, <1>3, <1>4, <1>5, <1>6, <1>7 DEF IInv

(* The claim is refused unless the broadcast is still waiting, so nobody    *)
(* else can have it.                                                        *)
LEMMA ClaimIInv ==
    ASSUME IInv, NEW w \in Workers, NEW b \in Broadcasts, NEW from \in {"pending",
         "draft"}, Claim(w, b, from)
    PROVE  IInv'
<1>1. TypeOK'
  BY DEF IInv, TypeOK, Statuses, Rows, Claim, Claimable, SetStatus, tables,
     counters, worker, sends, history
<1>2. ClaimsExclusive'
  <2>1. /\ phase' = [phase EXCEPT ![w] = "claimed"] /\ job' = [job EXCEPT ![w] = b]
        /\ status' = [status EXCEPT ![b] = "sending"] /\ status[b] = from
        /\ phase[w] = "idle"
    BY DEF Claim, Claimable, SetStatus
  <2>2. \A v \in Workers : phase[v] # "idle" => job[v] # b
    BY <2>1 DEF IInv, ClaimsExclusive
  <2> QED BY <2>1, <2>2 DEF IInv, TypeOK, ClaimsExclusive
<1>3. IdleHasNoJob'
  BY DEF IInv, TypeOK, IdleHasNoJob, Claim, Claimable, SetStatus, tables,
     counters, worker, sends, history
<1>4. BlankUntilSent'
  BY DEF IInv, TypeOK, ClaimsExclusive, BlankUntilSent, Blank, Claim,
     Claimable, SetStatus, tables, counters, worker, sends, history
<1>5. TodoFresh'
  BY DEF IInv, TypeOK, ClaimsExclusive, TodoFresh, Claim, Claimable,
     SetStatus, tables, counters, worker, sends, history
<1>6. MessagesOK'
  BY DEF IInv, TypeOK, MessagesOK, MessageOK, Rows, Claim, Claimable,
     SetStatus, tables, counters, worker, sends, history
<1>7. EndedIsQuiet'
  <2>1. \A c \in Broadcasts : status'[c] \in {"sent", "partial"} =>
          /\ status'[c] = status[c]
          /\ sentCount'[c] = sentCount[c] /\ failedCount'[c] = failedCount[c]
          /\ rcpt'[c] = rcpt[c]
          /\ \A q \in Subscribers : task'[c][q] = task[c][q]
    BY DEF IInv, TypeOK, ClaimsExclusive, EndedIsQuiet, Claim, Claimable,
       SetStatus, tables, counters, worker, sends, history
  <2> QED BY <2>1, QuietKept
<1> QED BY <1>1, <1>2, <1>3, <1>4, <1>5, <1>6, <1>7 DEF IInv

LEMMA RefuseIInv ==
    ASSUME IInv, NEW w \in Workers, Refuse(w)
    PROVE  IInv'
<1>1. job[w] \in Broadcasts
  BY DEF IInv, ClaimsExclusive, TypeOK, Refuse
<1>2. TypeOK'
  BY <1>1 DEF IInv, TypeOK, Statuses, Rows, Refuse, Return, SetStatus,
     tables, counters, worker, sends, history
<1>3. ClaimsExclusive'
  BY <1>1 DEF IInv, TypeOK, ClaimsExclusive, Refuse, Return, SetStatus,
     tables, counters, worker, sends, history
<1>4. IdleHasNoJob'
  BY <1>1 DEF IInv, TypeOK, IdleHasNoJob, Refuse, Return, SetStatus, tables,
     counters, worker, sends, history
<1>5. BlankUntilSent'
  BY <1>1 DEF IInv, TypeOK, ClaimsExclusive, BlankUntilSent, Blank, Refuse,
     Return, SetStatus, tables, counters, worker, sends, history
<1>6. TodoFresh'
  BY <1>1 DEF IInv, TypeOK, ClaimsExclusive, TodoFresh, Refuse, Return,
     SetStatus, tables, counters, worker, sends, history
<1>7. MessagesOK'
  BY <1>1 DEF IInv, TypeOK, MessagesOK, MessageOK, Rows, Refuse, Return,
     SetStatus, tables, counters, worker, sends, history
<1>8. EndedIsQuiet'
  <2>1. \A c \in Broadcasts : status'[c] \in {"sent", "partial"} =>
          /\ status'[c] = status[c]
          /\ sentCount'[c] = sentCount[c] /\ failedCount'[c] = failedCount[c]
          /\ rcpt'[c] = rcpt[c]
          /\ \A q \in Subscribers : task'[c][q] = task[c][q]
    BY <1>1 DEF IInv, TypeOK, ClaimsExclusive, EndedIsQuiet, Refuse,
       Return, SetStatus, tables, counters, worker, sends, history
  <2> QED BY <2>1, QuietKept
<1> QED BY <1>2, <1>3, <1>4, <1>5, <1>6, <1>7, <1>8 DEF IInv

LEMMA NoAudienceIInv ==
    ASSUME IInv, NEW w \in Workers, NoAudience(w)
    PROVE  IInv'
<1>1. job[w] \in Broadcasts
  BY DEF IInv, ClaimsExclusive, TypeOK, NoAudience
<1>2. Blank(job[w])
  BY DEF IInv, BlankUntilSent, NoAudience
<1>3. TypeOK'
  BY <1>1, <1>2 DEF IInv, TypeOK, Statuses, Rows, NoAudience, Return,
     SetStatus, tables, counters, worker, sends, history
<1>4. ClaimsExclusive'
  BY <1>1, <1>2 DEF IInv, TypeOK, ClaimsExclusive, NoAudience, Return,
     SetStatus, tables, counters, worker, sends, history
<1>5. IdleHasNoJob'
  BY <1>1, <1>2 DEF IInv, TypeOK, IdleHasNoJob, NoAudience, Return,
     SetStatus, tables, counters, worker, sends, history
<1>6. BlankUntilSent'
  BY <1>1, <1>2 DEF IInv, TypeOK, ClaimsExclusive, BlankUntilSent, Blank,
     NoAudience, Return, SetStatus, tables, counters, worker, sends,
     history
<1>7. TodoFresh'
  BY <1>1, <1>2 DEF IInv, TypeOK, ClaimsExclusive, TodoFresh, NoAudience,
     Return, SetStatus, tables, counters, worker, sends, history
<1>8. MessagesOK'
  BY <1>1, <1>2 DEF IInv, TypeOK, MessagesOK, MessageOK, Rows, NoAudience,
     Return, SetStatus, tables, counters, worker, sends, history
<1>9. EndedIsQuiet'
  <2>1. /\ RowsWith(job[w], "pending") = {} /\ RowsWith(job[w], "sent") = {}
        /\ RowsWith(job[w], "failed") = {}
    BY <1>2 DEF Blank, RowsWith
  <2>2. sentCount[job[w]] = 0 /\ failedCount[job[w]] = 0 /\ Cardinality({}) = 0
    BY <1>2, FS_EmptySet DEF Blank
  <2>3. \A b \in Broadcasts : \A st \in {"pending", "sent", "failed"} : RowsWith(b, st)' = RowsWith(b, st)
    BY DEF RowsWith, NoAudience
  <2>4. \A b \in Broadcasts : b # job[w] => status'[b] = status[b]
    BY DEF IInv, TypeOK, NoAudience, SetStatus
  <2>5. EndedIsComplete'
    BY <2>1, <2>2, <2>3, <2>4 DEF IInv, EndedIsQuiet, EndedIsComplete, NoAudience,
         counters
  <2>6. \A s \in Subscribers : task[job[w]][s] = "none"
    BY <1>2 DEF Blank
  <2> QED BY <2>4, <2>5, <2>6 DEF IInv, EndedIsQuiet, NoAudience, sends
<1> QED BY <1>3, <1>4, <1>5, <1>6, <1>7, <1>8, <1>9 DEF IInv

LEMMA WriteRecipientsIInv ==
    ASSUME IInv, NEW w \in Workers, NEW audience \in SUBSET Subscribers,
         WriteRecipients(w, audience)
    PROVE  IInv'
<1>1. job[w] \in Broadcasts
  BY DEF IInv, ClaimsExclusive, TypeOK, WriteRecipients
<1>2. Blank(job[w])
  BY DEF IInv, BlankUntilSent, WriteRecipients
<1>3. TypeOK'
  BY <1>1, <1>2 DEF IInv, TypeOK, Statuses, Rows, WriteRecipients, GoOn,
     tables, counters, worker, sends, history
<1>4. ClaimsExclusive'
  BY <1>1, <1>2 DEF IInv, TypeOK, ClaimsExclusive, WriteRecipients, GoOn,
     tables, counters, worker, sends, history
<1>5. IdleHasNoJob'
  BY <1>1, <1>2 DEF IInv, TypeOK, IdleHasNoJob, WriteRecipients, GoOn,
     tables, counters, worker, sends, history
<1>6. BlankUntilSent'
  <2>1. \A c \in Broadcasts : c # job[w] =>
          /\ status'[c] = status[c]
          /\ sentCount'[c] = sentCount[c] /\ failedCount'[c] = failedCount[c]
          /\ rcpt'[c] = rcpt[c] /\ task'[c] = task[c]
          /\ calls'[c] = calls[c] /\ copies'[c] = copies[c]
    BY <1>1 DEF IInv, TypeOK, WriteRecipients, GoOn, tables, counters, worker,
         sends, history
  <2>2. /\ status'[job[w]] \notin {"absent", "draft", "pending"}
        /\ \A v \in Workers : phase'[v] = "claimed" =>
            phase[v] = "claimed" /\ job'[v] = job[v] /\ job[v] # job[w]
    BY <1>1 DEF IInv, TypeOK, ClaimsExclusive, WriteRecipients, GoOn, tables
  <2> QED BY <1>1, <2>1, <2>2, BlankKept
<1>7. TodoFresh'
  BY <1>1, <1>2 DEF IInv, TypeOK, ClaimsExclusive, TodoFresh,
     WriteRecipients, GoOn, tables, counters, worker, sends, history,
     Blank
<1>8. MessagesOK'
  BY <1>1, <1>2 DEF IInv, TypeOK, MessagesOK, MessageOK, Rows,
     WriteRecipients, GoOn, tables, counters, worker, sends, history,
     Blank
<1>9. EndedIsQuiet'
  <2>1. \A c \in Broadcasts : status'[c] \in {"sent", "partial"} =>
          /\ status'[c] = status[c]
          /\ sentCount'[c] = sentCount[c] /\ failedCount'[c] = failedCount[c]
          /\ rcpt'[c] = rcpt[c]
          /\ \A q \in Subscribers : task'[c][q] = task[c][q]
    BY <1>1, <1>2 DEF IInv, TypeOK, ClaimsExclusive, EndedIsQuiet,
       WriteRecipients, GoOn, tables, counters, worker, sends, history
  <2> QED BY <2>1, QuietKept
<1> QED BY <1>3, <1>4, <1>5, <1>6, <1>7, <1>8, <1>9 DEF IInv

LEMMA StartBatchIInv ==
    ASSUME IInv, NEW w \in Workers, NEW batch \in SUBSET Subscribers, StartBatch(w,
         batch)
    PROVE  IInv'
<1>1. job[w] \in Broadcasts
  BY DEF IInv, ClaimsExclusive, TypeOK, StartBatch
<1>2. TypeOK'
  BY <1>1 DEF IInv, TypeOK, Statuses, Rows, StartBatch, GoOn, tables,
     counters, worker, sends, history
<1>3. ClaimsExclusive'
  BY <1>1 DEF IInv, TypeOK, ClaimsExclusive, StartBatch, GoOn, tables,
     counters, worker, sends, history
<1>4. IdleHasNoJob'
  BY <1>1 DEF IInv, TypeOK, IdleHasNoJob, StartBatch, GoOn, tables,
     counters, worker, sends, history
<1>5. BlankUntilSent'
  <2>1. \A c \in Broadcasts : c # job[w] =>
          /\ status'[c] = status[c]
          /\ sentCount'[c] = sentCount[c] /\ failedCount'[c] = failedCount[c]
          /\ rcpt'[c] = rcpt[c] /\ task'[c] = task[c]
          /\ calls'[c] = calls[c] /\ copies'[c] = copies[c]
    BY <1>1 DEF IInv, TypeOK, StartBatch, GoOn, tables, counters, worker, sends,
         history
  <2>2. /\ status'[job[w]] \notin {"absent", "draft", "pending"}
        /\ \A v \in Workers : phase'[v] = "claimed" =>
            phase[v] = "claimed" /\ job'[v] = job[v] /\ job[v] # job[w]
    BY <1>1 DEF IInv, TypeOK, ClaimsExclusive, StartBatch, GoOn, tables
  <2> QED BY <1>1, <2>1, <2>2, BlankKept
<1>6. TodoFresh'
  BY <1>1 DEF IInv, TypeOK, ClaimsExclusive, TodoFresh, StartBatch, GoOn,
     tables, counters, worker, sends, history
<1>7. MessagesOK'
  BY <1>1 DEF IInv, TypeOK, MessagesOK, MessageOK, Rows, StartBatch, GoOn,
     tables, counters, worker, sends, history, TodoFresh
<1>8. EndedIsQuiet'
  <2>1. \A c \in Broadcasts : status'[c] \in {"sent", "partial"} =>
          /\ status'[c] = status[c]
          /\ sentCount'[c] = sentCount[c] /\ failedCount'[c] = failedCount[c]
          /\ rcpt'[c] = rcpt[c]
          /\ \A q \in Subscribers : task'[c][q] = task[c][q]
    BY <1>1 DEF IInv, TypeOK, ClaimsExclusive, EndedIsQuiet, StartBatch,
       GoOn, tables, counters, worker, sends, history
  <2> QED BY <2>1, QuietKept
<1> QED BY <1>2, <1>3, <1>4, <1>5, <1>6, <1>7, <1>8 DEF IInv

LEMMA AnsweredIInv ==
    ASSUME IInv, NEW b \in Broadcasts, NEW s \in Subscribers, Answered(b, s)
    PROVE  IInv'
<1>1. /\ UNCHANGED <<status, rcpt, sentCount, failedCount, cancelling, phase, job, todo, calls>>
      /\ task[b][s] = "posting"
      /\ \A c \in Broadcasts, q \in Subscribers : c # b \/ q # s =>
            task'[c][q] = task[c][q] /\ tries'[c][q] = tries[c][q] /\ copies'[c][q] = copies[c][q]
      /\ \A c \in Broadcasts : c # b => task'[c] = task[c] /\ copies'[c] = copies[c]
  BY DEF IInv, TypeOK, Rows, Answered, tables, counters, worker
<1>2. tries[b][s] \in Nat /\ copies[b][s] \in Nat
  BY DEF IInv, TypeOK, Rows
<1>3. /\ task'[b][s] \in {"accepted", "refused"} /\ tries'[b][s] = tries[b][s]
      /\ copies'[b][s] = IF task'[b][s] = "accepted" THEN copies[b][s] + 1 ELSE copies[b][s]
  BY <1>2 DEF IInv, TypeOK, Rows, Answered
<1>4. TypeOK'
  <2>1. task' \in [Broadcasts -> [Subscribers -> {"none", "posting", "accepted", "refused"}]]
    <3>1. PICK v \in {"none", "posting", "accepted", "refused"} : task' = [task EXCEPT ![b][s] = v]
      BY DEF Answered
    <3> QED BY <3>1, OneCellChanged DEF IInv, TypeOK
  <2>2. copies' \in Rows
    <3>1. CASE copies' = copies
      BY <3>1 DEF IInv, TypeOK
    <3>2. CASE copies' = [copies EXCEPT ![b][s] = copies[b][s] + 1]
      BY <1>2, <3>2, copies[b][s] + 1 \in Nat, OneCellChanged DEF IInv, TypeOK, Rows
    <3> QED BY <3>1, <3>2 DEF Answered
  <2>3. tries' \in Rows
    BY DEF IInv, TypeOK, Answered
  <2> QED BY <1>1, <2>1, <2>2, <2>3 DEF IInv, TypeOK
<1>5. ClaimsExclusive'
  BY <1>1 DEF IInv, ClaimsExclusive
<1>6. IdleHasNoJob'
  BY <1>1 DEF IInv, IdleHasNoJob
<1>7. BlankUntilSent'
  <2>1. \A c \in Broadcasts : c # b =>
          /\ status'[c] = status[c]
          /\ sentCount'[c] = sentCount[c] /\ failedCount'[c] = failedCount[c]
          /\ rcpt'[c] = rcpt[c] /\ task'[c] = task[c]
          /\ calls'[c] = calls[c] /\ copies'[c] = copies[c]
    BY <1>1 DEF IInv, TypeOK
  <2>2. /\ status'[b] \notin {"absent", "draft", "pending"}
        /\ \A v \in Workers : phase'[v] = "claimed" =>
            phase[v] = "claimed" /\ job'[v] = job[v] /\ job[v] # b
    BY <1>1 DEF IInv, TypeOK, ClaimsExclusive, BlankUntilSent, Blank
  <2> QED BY <1>1, <2>1, <2>2, BlankKept
<1>8. TodoFresh'
  BY <1>1, <1>3 DEF IInv, ClaimsExclusive, TodoFresh
<1>9. MessagesOK'
  <2>1. MessageOK(b, s)
    BY DEF IInv, MessagesOK
  <2>2. MessageOK(b, s)'
    BY <1>1, <1>2, <1>3, <2>1 DEF MessageOK
  <2>3. \A c \in Broadcasts, q \in Subscribers : c # b \/ q # s => MessageOK(c, q)'
    BY <1>1 DEF IInv, MessagesOK, MessageOK
  <2> QED BY <2>2, <2>3 DEF MessagesOK
<1>10. EndedIsQuiet'
  BY <1>1, QuietKept DEF IInv, EndedIsQuiet
<1> QED BY <1>4, <1>5, <1>6, <1>7, <1>8, <1>9, <1>10 DEF IInv

LEMMA NotAnsweredIInv ==
    ASSUME IInv, NEW b \in Broadcasts, NEW s \in Subscribers, NotAnswered(b, s)
    PROVE  IInv'
<1>1. /\ UNCHANGED <<status, rcpt, sentCount, failedCount, cancelling, phase, job, todo, calls>>
      /\ task[b][s] = "posting"
      /\ \A c \in Broadcasts, q \in Subscribers : c # b \/ q # s =>
            task'[c][q] = task[c][q] /\ tries'[c][q] = tries[c][q] /\ copies'[c][q] = copies[c][q]
      /\ \A c \in Broadcasts : c # b => task'[c] = task[c] /\ copies'[c] = copies[c]
  BY DEF IInv, TypeOK, Rows, NotAnswered, AfterFailedTry, tables, counters, worker
<1>2. tries[b][s] \in Nat /\ copies[b][s] \in Nat
  BY DEF IInv, TypeOK, Rows
<1>3. /\ task'[b][s] = IF tries[b][s] + 1 >= MaxTries THEN "refused" ELSE "posting"
      /\ tries'[b][s] = IF tries[b][s] < MaxTries THEN tries[b][s] + 1 ELSE tries[b][s]
      /\ copies'[b][s] \in {copies[b][s], copies[b][s] + 1}
  BY <1>2 DEF IInv, TypeOK, Rows, NotAnswered, AfterFailedTry
<1>4. TypeOK'
  <2>1. task' \in [Broadcasts -> [Subscribers -> {"none", "posting", "accepted", "refused"}]]
    <3>1. PICK v \in {"none", "posting", "accepted", "refused"} : task' = [task EXCEPT ![b][s] = v]
      BY DEF NotAnswered, AfterFailedTry
    <3> QED BY <3>1, OneCellChanged DEF IInv, TypeOK
  <2>2. copies' \in Rows
    <3>1. CASE copies' = copies
      BY <3>1 DEF IInv, TypeOK
    <3>2. CASE copies' = [copies EXCEPT ![b][s] = copies[b][s] + 1]
      BY <1>2, <3>2, copies[b][s] + 1 \in Nat, OneCellChanged DEF IInv, TypeOK, Rows
    <3> QED BY <3>1, <3>2 DEF NotAnswered
  <2>3. tries' \in Rows
    <3>1. PICK v \in Nat : tries' = [tries EXCEPT ![b][s] = v]
      BY <1>2, tries[b][s] + 1 \in Nat DEF NotAnswered
    <3> QED BY <3>1, OneCellChanged DEF IInv, TypeOK, Rows
  <2> QED BY <1>1, <2>1, <2>2, <2>3 DEF IInv, TypeOK
<1>5. ClaimsExclusive'
  BY <1>1 DEF IInv, ClaimsExclusive
<1>6. IdleHasNoJob'
  BY <1>1 DEF IInv, IdleHasNoJob
<1>7. BlankUntilSent'
  <2>1. \A c \in Broadcasts : c # b =>
          /\ status'[c] = status[c]
          /\ sentCount'[c] = sentCount[c] /\ failedCount'[c] = failedCount[c]
          /\ rcpt'[c] = rcpt[c] /\ task'[c] = task[c]
          /\ calls'[c] = calls[c] /\ copies'[c] = copies[c]
    BY <1>1 DEF IInv, TypeOK
  <2>2. /\ status'[b] \notin {"absent", "draft", "pending"}
        /\ \A v \in Workers : phase'[v] = "claimed" =>
            phase[v] = "claimed" /\ job'[v] = job[v] /\ job[v] # b
    BY <1>1 DEF IInv, TypeOK, ClaimsExclusive, BlankUntilSent, Blank
  <2> QED BY <1>1, <2>1, <2>2, BlankKept
<1>8. TodoFresh'
  BY <1>1, <1>3 DEF IInv, ClaimsExclusive, TodoFresh
<1>9. MessagesOK'
  <2>1. MessageOK(b, s)
    BY DEF IInv, MessagesOK
  <2>2. MessageOK(b, s)'
    BY <1>1, <1>2, <1>3, <2>1 DEF MessageOK
  <2>3. \A c \in Broadcasts, q \in Subscribers : c # b \/ q # s => MessageOK(c, q)'
    BY <1>1 DEF IInv, MessagesOK, MessageOK
  <2> QED BY <2>2, <2>3 DEF MessagesOK
<1>10. EndedIsQuiet'
  BY <1>1, QuietKept DEF IInv, EndedIsQuiet
<1> QED BY <1>4, <1>5, <1>6, <1>7, <1>8, <1>9, <1>10 DEF IInv

LEMMA RecordIInv ==
    ASSUME IInv, NEW b \in Broadcasts, NEW s \in Subscribers, Record(b, s)
    PROVE  IInv'
<1>1. TypeOK'
  BY DEF IInv, TypeOK, Statuses, Rows, Record, Outcome, tables, counters,
     worker, sends, history
<1>2. ClaimsExclusive'
  BY DEF IInv, TypeOK, ClaimsExclusive, Record, Outcome, tables, counters,
     worker, sends, history
<1>3. IdleHasNoJob'
  BY DEF IInv, TypeOK, IdleHasNoJob, Record, Outcome, tables, counters,
     worker, sends, history
<1>4. BlankUntilSent'
  BY DEF IInv, TypeOK, ClaimsExclusive, BlankUntilSent, Blank, Record,
     Outcome, tables, counters, worker, sends, history
<1>5. TodoFresh'
  BY DEF IInv, TypeOK, ClaimsExclusive, TodoFresh, Record, Outcome, tables,
     counters, worker, sends, history, MessagesOK, MessageOK
<1>6. MessagesOK'
  BY DEF IInv, TypeOK, MessagesOK, MessageOK, Rows, Record, Outcome, tables,
     counters, worker, sends, history
<1>7. EndedIsQuiet'
  <2>1. \A c \in Broadcasts : status'[c] \in {"sent", "partial"} =>
          /\ status'[c] = status[c]
          /\ sentCount'[c] = sentCount[c] /\ failedCount'[c] = failedCount[c]
          /\ rcpt'[c] = rcpt[c]
          /\ \A q \in Subscribers : task'[c][q] = task[c][q]
    BY DEF IInv, TypeOK, ClaimsExclusive, EndedIsQuiet, Record, Outcome,
       tables, counters, worker, sends, history
  <2> QED BY <2>1, QuietKept
<1> QED BY <1>1, <1>2, <1>3, <1>4, <1>5, <1>6, <1>7 DEF IInv

LEMMA EndBatchIInv ==
    ASSUME IInv, NEW w \in Workers, EndBatch(w)
    PROVE  IInv'
<1>1. job[w] \in Broadcasts
  BY DEF IInv, ClaimsExclusive, TypeOK, EndBatch, BatchReturned
<1>2. Cardinality(RowsWith(job[w], "sent")) \in Nat /\ Cardinality(RowsWith(job[w], "failed")) \in Nat
  BY <1>1, RowsCounted
<1>3. TypeOK'
  BY <1>1, <1>2 DEF IInv, TypeOK, Statuses, Rows, EndBatch, BatchReturned,
     Running, GoOn, Aggregate, tables, counters, worker, sends, history
<1>4. ClaimsExclusive'
  BY <1>1, <1>2 DEF IInv, TypeOK, ClaimsExclusive, EndBatch, BatchReturned,
     Running, GoOn, Aggregate, tables, counters, worker, sends, history
<1>5. IdleHasNoJob'
  BY <1>1, <1>2 DEF IInv, TypeOK, IdleHasNoJob, EndBatch, BatchReturned,
     Running, GoOn, Aggregate, tables, counters, worker, sends, history
<1>6. BlankUntilSent'
  <2>1. \A c \in Broadcasts : c # job[w] =>
          /\ status'[c] = status[c]
          /\ sentCount'[c] = sentCount[c] /\ failedCount'[c] = failedCount[c]
          /\ rcpt'[c] = rcpt[c] /\ task'[c] = task[c]
          /\ calls'[c] = calls[c] /\ copies'[c] = copies[c]
    BY <1>1 DEF IInv, TypeOK, EndBatch, BatchReturned, GoOn, Aggregate, tables,
         counters, worker, sends, history
  <2>2. /\ status'[job[w]] \notin {"absent", "draft", "pending"}
        /\ \A v \in Workers : phase'[v] = "claimed" =>
            phase[v] = "claimed" /\ job'[v] = job[v] /\ job[v] # job[w]
    BY <1>1 DEF IInv, TypeOK, ClaimsExclusive, EndBatch, BatchReturned, GoOn,
         worker
  <2> QED BY <1>1, <2>1, <2>2, BlankKept
<1>7. TodoFresh'
  BY <1>1, <1>2 DEF IInv, TypeOK, ClaimsExclusive, TodoFresh, EndBatch,
     BatchReturned, Running, GoOn, Aggregate, tables, counters, worker,
     sends, history
<1>8. MessagesOK'
  BY <1>1, <1>2 DEF IInv, TypeOK, MessagesOK, MessageOK, Rows, EndBatch,
     BatchReturned, Running, GoOn, Aggregate, tables, counters, worker,
     sends, history
<1>9. EndedIsQuiet'
  <2>1. \A c \in Broadcasts : status'[c] \in {"sent", "partial"} =>
          /\ status'[c] = status[c]
          /\ sentCount'[c] = sentCount[c] /\ failedCount'[c] = failedCount[c]
          /\ rcpt'[c] = rcpt[c]
          /\ \A q \in Subscribers : task'[c][q] = task[c][q]
    BY <1>1, <1>2 DEF IInv, TypeOK, ClaimsExclusive, EndedIsQuiet,
       EndBatch, BatchReturned, Running, GoOn, Aggregate, tables,
       counters, worker, sends, history
  <2> QED BY <2>1, QuietKept
<1> QED BY <1>3, <1>4, <1>5, <1>6, <1>7, <1>8, <1>9 DEF IInv

LEMMA CompleteIInv ==
    ASSUME IInv, NEW w \in Workers, Complete(w)
    PROVE  IInv'
<1>1. job[w] \in Broadcasts
  BY DEF IInv, ClaimsExclusive, TypeOK, Complete
<1>2. Cardinality(RowsWith(job[w], "sent")) \in Nat /\ Cardinality(RowsWith(job[w], "failed")) \in Nat
  BY <1>1, RowsCounted
<1>3. TypeOK'
  BY <1>1, <1>2 DEF IInv, TypeOK, Statuses, Rows, Complete, Aggregate,
     FinalStatus, Return, SetStatus, tables, counters, worker, sends,
     history
<1>4. ClaimsExclusive'
  BY <1>1, <1>2 DEF IInv, TypeOK, ClaimsExclusive, Complete, Aggregate,
     FinalStatus, Return, SetStatus, tables, counters, worker, sends,
     history
<1>5. IdleHasNoJob'
  BY <1>1, <1>2 DEF IInv, TypeOK, IdleHasNoJob, Complete, Aggregate,
     FinalStatus, Return, SetStatus, tables, counters, worker, sends,
     history
<1>6. BlankUntilSent'
  BY <1>1, <1>2 DEF IInv, TypeOK, ClaimsExclusive, BlankUntilSent, Blank,
     Complete, Aggregate, FinalStatus, Return, SetStatus, tables,
     counters, worker, sends, history
<1>7. TodoFresh'
  BY <1>1, <1>2 DEF IInv, TypeOK, ClaimsExclusive, TodoFresh, Complete,
     Aggregate, FinalStatus, Return, SetStatus, tables, counters, worker,
     sends, history
<1>8. MessagesOK'
  BY <1>1, <1>2 DEF IInv, TypeOK, MessagesOK, MessageOK, Rows, Complete,
     Aggregate, FinalStatus, Return, SetStatus, tables, counters, worker,
     sends, history
<1>9. EndedIsQuiet'
  <2>1. /\ RowsWith(job[w], "pending") = {}
        /\ \A s \in Subscribers : task[job[w]][s] = "none"
    BY DEF IInv, TodoFresh, Complete, RowsWith
  <2>2. \A b \in Broadcasts : \A st \in {"pending", "sent", "failed"} : RowsWith(b, st)' = RowsWith(b, st)
    BY DEF RowsWith, Complete
  <2>3. \A b \in Broadcasts : b # job[w] =>
          /\ status'[b] = status[b]
          /\ sentCount'[b] = sentCount[b] /\ failedCount'[b] = failedCount[b]
    BY DEF IInv, TypeOK, Complete, Aggregate, SetStatus
  <2>4. /\ sentCount'[job[w]] = Cardinality(RowsWith(job[w], "sent"))
        /\ failedCount'[job[w]] = Cardinality(RowsWith(job[w], "failed"))
    BY <1>1 DEF IInv, TypeOK, Complete, Aggregate
  <2>5. status'[job[w]] = "sent" => RowsWith(job[w], "failed") = {}
    BY <1>1 DEF IInv, TypeOK, Complete, SetStatus, FinalStatus
  <2>6. EndedIsComplete'
    BY <2>1, <2>2, <2>3, <2>4, <2>5 DEF IInv, EndedIsQuiet, EndedIsComplete
  <2>7. task' = task
    BY DEF Complete, sends
  <2> QED BY <2>1, <2>3, <2>6, <2>7 DEF IInv, EndedIsQuiet
<1> QED BY <1>3, <1>4, <1>5, <1>6, <1>7, <1>8, <1>9 DEF IInv

LEMMA RaiseIInv ==
    ASSUME IInv, NEW w \in Workers, Raise(w)
    PROVE  IInv'
<1>1. TypeOK'
  BY DEF IInv, TypeOK, Statuses, Rows, Raise, GoOn, tables, counters,
     worker, sends, history
<1>2. ClaimsExclusive'
  BY DEF IInv, TypeOK, ClaimsExclusive, Raise, GoOn, tables, counters,
     worker, sends, history
<1>3. IdleHasNoJob'
  BY DEF IInv, TypeOK, IdleHasNoJob, Raise, GoOn, tables, counters, worker,
     sends, history
<1>4. BlankUntilSent'
  BY DEF IInv, TypeOK, ClaimsExclusive, BlankUntilSent, Blank, Raise, GoOn,
     tables, counters, worker, sends, history
<1>5. TodoFresh'
  BY DEF IInv, TypeOK, ClaimsExclusive, TodoFresh, Raise, GoOn, tables,
     counters, worker, sends, history
<1>6. MessagesOK'
  BY DEF IInv, TypeOK, MessagesOK, MessageOK, Rows, Raise, GoOn, tables,
     counters, worker, sends, history
<1>7. EndedIsQuiet'
  <2>1. \A c \in Broadcasts : status'[c] \in {"sent", "partial"} =>
          /\ status'[c] = status[c]
          /\ sentCount'[c] = sentCount[c] /\ failedCount'[c] = failedCount[c]
          /\ rcpt'[c] = rcpt[c]
          /\ \A q \in Subscribers : task'[c][q] = task[c][q]
    BY DEF IInv, TypeOK, ClaimsExclusive, EndedIsQuiet, Raise, GoOn,
       tables, counters, worker, sends, history
  <2> QED BY <2>1, QuietKept
<1> QED BY <1>1, <1>2, <1>3, <1>4, <1>5, <1>6, <1>7 DEF IInv

LEMMA TaskRaisesIInv ==
    ASSUME IInv, NEW w \in Workers, NEW s \in Subscribers, TaskRaises(w, s)
    PROVE  IInv'
<1>1. job[w] \in Broadcasts
  BY DEF IInv, ClaimsExclusive, TypeOK, TaskRaises
<1>2. TypeOK'
  BY <1>1 DEF IInv, TypeOK, Statuses, Rows, TaskRaises, GoOn, tables,
     counters, worker, sends, history
<1>3. ClaimsExclusive'
  BY <1>1 DEF IInv, TypeOK, ClaimsExclusive, TaskRaises, GoOn, tables,
     counters, worker, sends, history
<1>4. IdleHasNoJob'
  BY <1>1 DEF IInv, TypeOK, IdleHasNoJob, TaskRaises, GoOn, tables,
     counters, worker, sends, history
<1>5. BlankUntilSent'
  BY <1>1 DEF IInv, TypeOK, ClaimsExclusive, BlankUntilSent, Blank,
     TaskRaises, GoOn, tables, counters, worker, sends, history
<1>6. TodoFresh'
  BY <1>1 DEF IInv, TypeOK, ClaimsExclusive, TodoFresh, TaskRaises, GoOn,
     tables, counters, worker, sends, history
<1>7. MessagesOK'
  BY <1>1 DEF IInv, TypeOK, MessagesOK, MessageOK, Rows, TaskRaises, GoOn,
     tables, counters, worker, sends, history
<1>8. EndedIsQuiet'
  <2>1. \A c \in Broadcasts : status'[c] \in {"sent", "partial"} =>
          /\ status'[c] = status[c]
          /\ sentCount'[c] = sentCount[c] /\ failedCount'[c] = failedCount[c]
          /\ rcpt'[c] = rcpt[c]
          /\ \A q \in Subscribers : task'[c][q] = task[c][q]
    BY <1>1 DEF IInv, TypeOK, ClaimsExclusive, EndedIsQuiet, TaskRaises,
       GoOn, tables, counters, worker, sends, history
  <2> QED BY <2>1, QuietKept
<1> QED BY <1>2, <1>3, <1>4, <1>5, <1>6, <1>7, <1>8 DEF IInv

LEMMA MarkFailedIInv ==
    ASSUME IInv, NEW w \in Workers, MarkFailed(w)
    PROVE  IInv'
<1>1. job[w] \in Broadcasts
  BY DEF IInv, ClaimsExclusive, TypeOK, MarkFailed
<1>2. TypeOK'
  BY <1>1 DEF IInv, TypeOK, Statuses, Rows, MarkFailed, Return, SetStatus,
     tables, counters, worker, sends, history
<1>3. ClaimsExclusive'
  BY <1>1 DEF IInv, TypeOK, ClaimsExclusive, MarkFailed, Return, SetStatus,
     tables, counters, worker, sends, history
<1>4. IdleHasNoJob'
  BY <1>1 DEF IInv, TypeOK, IdleHasNoJob, MarkFailed, Return, SetStatus,
     tables, counters, worker, sends, history
<1>5. BlankUntilSent'
  BY <1>1 DEF IInv, TypeOK, ClaimsExclusive, BlankUntilSent, Blank,
     MarkFailed, Return, SetStatus, tables, counters, worker, sends,
     history
<1>6. TodoFresh'
  BY <1>1 DEF IInv, TypeOK, ClaimsExclusive, TodoFresh, MarkFailed, Return,
     SetStatus, tables, counters, worker, sends, history
<1>7. MessagesOK'
  BY <1>1 DEF IInv, TypeOK, MessagesOK, MessageOK, Rows, MarkFailed, Return,
     SetStatus, tables, counters, worker, sends, history
<1>8. EndedIsQuiet'
  <2>1. \A c \in Broadcasts : status'[c] \in {"sent", "partial"} =>
          /\ status'[c] = status[c]
          /\ sentCount'[c] = sentCount[c] /\ failedCount'[c] = failedCount[c]
          /\ rcpt'[c] = rcpt[c]
          /\ \A q \in Subscribers : task'[c][q] = task[c][q]
    BY <1>1 DEF IInv, TypeOK, ClaimsExclusive, EndedIsQuiet, MarkFailed,
       Return, SetStatus, tables, counters, worker, sends, history
  <2> QED BY <2>1, QuietKept
<1> QED BY <1>2, <1>3, <1>4, <1>5, <1>6, <1>7, <1>8 DEF IInv

LEMMA GiveUpIInv ==
    ASSUME IInv, NEW w \in Workers, GiveUp(w)
    PROVE  IInv'
<1>1. TypeOK'
  BY DEF IInv, TypeOK, Statuses, Rows, GiveUp, Return, tables, counters,
     worker, sends, history
<1>2. ClaimsExclusive'
  BY DEF IInv, TypeOK, ClaimsExclusive, GiveUp, Return, tables, counters,
     worker, sends, history
<1>3. IdleHasNoJob'
  BY DEF IInv, TypeOK, IdleHasNoJob, GiveUp, Return, tables, counters,
     worker, sends, history
<1>4. BlankUntilSent'
  BY DEF IInv, TypeOK, ClaimsExclusive, BlankUntilSent, Blank, GiveUp,
     Return, tables, counters, worker, sends, history
<1>5. TodoFresh'
  BY DEF IInv, TypeOK, ClaimsExclusive, TodoFresh, GiveUp, Return, tables,
     counters, worker, sends, history
<1>6. MessagesOK'
  BY DEF IInv, TypeOK, MessagesOK, MessageOK, Rows, GiveUp, Return, tables,
     counters, worker, sends, history
<1>7. EndedIsQuiet'
  <2>1. \A c \in Broadcasts : status'[c] \in {"sent", "partial"} =>
          /\ status'[c] = status[c]
          /\ sentCount'[c] = sentCount[c] /\ failedCount'[c] = failedCount[c]
          /\ rcpt'[c] = rcpt[c]
          /\ \A q \in Subscribers : task'[c][q] = task[c][q]
    BY DEF IInv, TypeOK, ClaimsExclusive, EndedIsQuiet, GiveUp, Return,
       tables, counters, worker, sends, history
  <2> QED BY <2>1, QuietKept
<1> QED BY <1>1, <1>2, <1>3, <1>4, <1>5, <1>6, <1>7 DEF IInv

LEMMA CrashIInv ==
    ASSUME IInv, NEW w \in Workers, Crash(w)
    PROVE  IInv'
<1>1. job[w] \in Broadcasts
  BY DEF IInv, ClaimsExclusive, TypeOK, Crash
<1>2. TypeOK'
  BY <1>1 DEF IInv, TypeOK, Statuses, Rows, Crash, Return, tables, counters,
     worker, sends, history
<1>3. ClaimsExclusive'
  BY <1>1 DEF IInv, TypeOK, ClaimsExclusive, Crash, Return, tables,
     counters, worker, sends, history
<1>4. IdleHasNoJob'
  BY <1>1 DEF IInv, TypeOK, IdleHasNoJob, Crash, Return, tables, counters,
     worker, sends, history
<1>5. BlankUntilSent'
  BY <1>1 DEF IInv, TypeOK, ClaimsExclusive, BlankUntilSent, Blank, Crash,
     Return, tables, counters, worker, sends, history
<1>6. TodoFresh'
  BY <1>1 DEF IInv, TypeOK, ClaimsExclusive, TodoFresh, Crash, Return,
     tables, counters, worker, sends, history
<1>7. MessagesOK'
  BY <1>1 DEF IInv, TypeOK, MessagesOK, MessageOK, Rows, Crash, Return,
     tables, counters, worker, sends, history
<1>8. EndedIsQuiet'
  <2>1. \A c \in Broadcasts : status'[c] \in {"sent", "partial"} =>
          /\ status'[c] = status[c]
          /\ sentCount'[c] = sentCount[c] /\ failedCount'[c] = failedCount[c]
          /\ rcpt'[c] = rcpt[c]
          /\ \A q \in Subscribers : task'[c][q] = task[c][q]
    BY <1>1 DEF IInv, TypeOK, ClaimsExclusive, EndedIsQuiet, Crash,
       Return, tables, counters, worker, sends, history
  <2> QED BY <2>1, QuietKept
<1> QED BY <1>2, <1>3, <1>4, <1>5, <1>6, <1>7, <1>8 DEF IInv

LEMMA OrphanEndsIInv ==
    ASSUME IInv, NEW b \in Broadcasts, NEW s \in Subscribers, OrphanEnds(b, s)
    PROVE  IInv'
<1>1. TypeOK'
  BY DEF IInv, TypeOK, Statuses, Rows, OrphanEnds, tables, counters, worker,
     sends, history
<1>2. ClaimsExclusive'
  BY DEF IInv, TypeOK, ClaimsExclusive, OrphanEnds, tables, counters,
     worker, sends, history
<1>3. IdleHasNoJob'
  BY DEF IInv, TypeOK, IdleHasNoJob, OrphanEnds, tables, counters, worker,
     sends, history
<1>4. BlankUntilSent'
  BY DEF IInv, TypeOK, ClaimsExclusive, BlankUntilSent, Blank, OrphanEnds,
     tables, counters, worker, sends, history
<1>5. TodoFresh'
  BY DEF IInv, TypeOK, ClaimsExclusive, TodoFresh, OrphanEnds, tables,
     counters, worker, sends, history
<1>6. MessagesOK'
  BY DEF IInv, TypeOK, MessagesOK, MessageOK, Rows, OrphanEnds, tables,
     counters, worker, sends, history
<1>7. EndedIsQuiet'
  <2>1. \A c \in Broadcasts : status'[c] \in {"sent", "partial"} =>
          /\ status'[c] = status[c]
          /\ sentCount'[c] = sentCount[c] /\ failedCount'[c] = failedCount[c]
          /\ rcpt'[c] = rcpt[c]
          /\ \A q \in Subscribers : task'[c][q] = task[c][q]
    BY DEF IInv, TypeOK, ClaimsExclusive, EndedIsQuiet, OrphanEnds,
       tables, counters, worker, sends, history
  <2> QED BY <2>1, QuietKept
<1> QED BY <1>1, <1>2, <1>3, <1>4, <1>5, <1>6, <1>7 DEF IInv

-----------------------------------------------------------------------------

LEMMA AdvanceIInv ==
    ASSUME IInv, NEW w \in Workers, Advance(w)
    PROVE  IInv'
<1>1. CASE Refuse(w) BY <1>1, RefuseIInv
<1>2. CASE NoAudience(w) BY <1>2, NoAudienceIInv
<1>3. CASE \E audience \in SUBSET Subscribers : WriteRecipients(w, audience)
  BY <1>3, WriteRecipientsIInv
<1>4. CASE \E batch \in SUBSET Subscribers : StartBatch(w, batch)
  BY <1>4, StartBatchIInv
<1>5. CASE EndBatch(w) BY <1>5, EndBatchIInv
<1>6. CASE Complete(w) BY <1>6, CompleteIInv
<1>7. CASE MarkFailed(w) BY <1>7, MarkFailedIInv
<1> QED BY <1>1, <1>2, <1>3, <1>4, <1>5, <1>6, <1>7 DEF Advance

LEMMA FailIInv ==
    ASSUME IInv, NEW w \in Workers, Fail(w)
    PROVE  IInv'
<1>1. CASE Raise(w) BY <1>1, RaiseIInv
<1>2. CASE \E s \in Subscribers : TaskRaises(w, s) BY <1>2, TaskRaisesIInv
<1>3. CASE GiveUp(w) BY <1>3, GiveUpIInv
<1>4. CASE Crash(w) BY <1>4, CrashIInv
<1> QED BY <1>1, <1>2, <1>3, <1>4 DEF Fail

LEMMA NextIInv == IInv /\ [Next]_vars => IInv'
<1> SUFFICES ASSUME IInv, [Next]_vars PROVE IInv'
  OBVIOUS
<1>1. CASE \E w \in Workers : Advance(w) \/ Fail(w)
  BY <1>1, AdvanceIInv, FailIInv
<1>2. CASE \E b \in Broadcasts : Create(b) \/ Queue(b) \/ ReadForCancel(b) \/ CommitCancel(b)
  BY <1>2, CreateIInv, QueueIInv, ReadForCancelIInv, CommitCancelIInv
<1>3. CASE \E b \in Broadcasts, w \in Workers : ClaimQueued(w, b) \/ ClaimDraft(w, b)
  BY <1>3, ClaimIInv DEF ClaimQueued, ClaimDraft
<1>4. CASE \E b \in Broadcasts, s \in Subscribers : Post(b, s) \/ Record(b, s) \/ OrphanEnds(b, s)
  BY <1>4, AnsweredIInv, NotAnsweredIInv, RecordIInv, OrphanEndsIInv DEF Post
<1>5. CASE UNCHANGED vars
  <2>1. TypeOK' /\ ClaimsExclusive' /\ IdleHasNoJob'
    BY <1>5 DEF IInv, TypeOK, ClaimsExclusive, IdleHasNoJob, vars, tables, counters,
         worker, sends, history
  <2>2. BlankUntilSent' /\ TodoFresh'
    BY <1>5 DEF IInv, BlankUntilSent, Blank, TodoFresh, vars, tables, counters,
         worker, sends, history
  <2>3. MessagesOK'
    BY <1>5 DEF IInv, MessagesOK, MessageOK, vars, tables, counters, worker, sends,
         history
  <2>4. EndedIsQuiet'
    <3>1. \A c \in Broadcasts :
            /\ status'[c] = status[c]
            /\ sentCount'[c] = sentCount[c] /\ failedCount'[c] = failedCount[c]
            /\ rcpt'[c] = rcpt[c]
            /\ \A q \in Subscribers : task'[c][q] = task[c][q]
      BY <1>5 DEF vars, tables, counters, worker, sends, history
    <3> QED BY <3>1, QuietKept
  <2> QED BY <2>1, <2>2, <2>3, <2>4 DEF IInv
<1> QED BY <1>1, <1>2, <1>3, <1>4, <1>5 DEF Next

(* The inductive invariant holds of every reachable state. *)
THEOREM InductiveInvariant == Spec => []IInv
<1> QED BY InitIInv, NextIInv, PTL DEF Spec

(* The tables and the state of every fan-out keep their types. *)
THEOREM TypeCorrect == Spec => []TypeOK
<1>1. IInv => TypeOK
  BY DEF IInv
<1> QED BY <1>1, InductiveInvariant, PTL

(* However many workers overlap and die, send_dm is called at most once for *)
(* a recipient of a broadcast.                                              *)
THEOREM RecipientsCalledOnce == Spec => []CalledOnce
<1>1. IInv => CalledOnce
  BY DEF IInv, MessagesOK, MessageOK, CalledOnce
<1> QED BY <1>1, InductiveInvariant, PTL

(* A subscriber gets no more copies of a broadcast than _post has tries. *)
THEOREM AtMostMaxTriesCopies == Spec => []CopiesBounded
<1>1. IInv => CopiesBounded
  BY DEF IInv, MessagesOK, MessageOK, CopiesBounded
<1> QED BY <1>1, InductiveInvariant, PTL

(* The recipient rows never claim a delivery that did not happen. *)
THEOREM RowsTruthful == Spec => []RowsTellTheTruth
<1>1. IInv => RowsTellTheTruth
  BY DEF IInv, MessagesOK, MessageOK, RowsTellTheTruth
<1> QED BY <1>1, InductiveInvariant, PTL

(* A broadcast shown as sent or partial has decided all its recipients and  *)
(* counted them exactly.                                                    *)
THEOREM EndedComplete == Spec => []EndedIsComplete
<1>1. IInv => EndedIsComplete
  BY DEF IInv, EndedIsQuiet
<1> QED BY <1>1, InductiveInvariant, PTL

(* What became of a broadcast is what its rows, its status and its counters *)
(* say, for any number of broadcasts, subscribers and workers.              *)
THEOREM BroadcastHolds == Spec => []BroadcastInv
<1>1. IInv => BroadcastInv
  BY DEF IInv, MessagesOK, MessageOK, EndedIsQuiet, BroadcastInv, CalledOnce, RowsTellTheTruth
<1> QED BY <1>1, InductiveInvariant, PTL

-----------------------------------------------------------------------------

LEMMA EndedKept ==
    ASSUME IInv, [Next]_vars, NEW b \in Broadcasts,
           status[b] \in Ended, status'[b] # status[b]
    PROVE  status'[b] = "cancelled" /\ cancelling[b]
<1> USE DEF Ended
<1>1. CASE \E w \in Workers : Advance(w)
  <2>1. PICK w \in Workers : Advance(w)
    BY <1>1
  <2>2. phase[w] # "idle" => job[w] # b /\ job[w] \in Broadcasts
    BY DEF IInv, ClaimsExclusive
  <2>3. status' = status \/ (phase[w] # "idle" /\ \E st : SetStatus(job[w], st))
    BY <2>1 DEF Advance, Refuse, NoAudience, WriteRecipients, StartBatch, EndBatch,
         Complete,
                MarkFailed, tables
  <2> QED BY <2>2, <2>3 DEF SetStatus, IInv, TypeOK
<1>2. CASE \E w \in Workers : Fail(w)
  BY <1>2 DEF Fail, Raise, TaskRaises, GiveUp, Crash, tables
<1>3. CASE \E c \in Broadcasts : Create(c) \/ Queue(c) \/ ReadForCancel(c) \/ CommitCancel(c)
  BY <1>3 DEF Create, Queue, ReadForCancel, CommitCancel, SetStatus, tables, IInv,
       TypeOK
<1>4. CASE \E c \in Broadcasts, w \in Workers : ClaimQueued(w, c) \/ ClaimDraft(w, c)
  BY <1>4 DEF ClaimQueued, ClaimDraft, Claim, Claimable, SetStatus, IInv, TypeOK
<1>5. CASE \E c \in Broadcasts, s \in Subscribers : Post(c, s) \/ Record(c, s) \/ OrphanEnds(c, s)
  BY <1>5 DEF Post, Answered, NotAnswered, Record, OrphanEnds, tables
<1>6. CASE UNCHANGED vars
  BY <1>6 DEF vars, tables
<1> QED BY <1>1, <1>2, <1>3, <1>4, <1>5, <1>6 DEF Next

(* An ended broadcast is not sent again; only a cancel already under way    *)
(* changes its status.                                                      *)
THEOREM EndsFinal == Spec => EndIsFinal
<1>1. IInv /\ [Next]_vars =>
        [\A b \in Broadcasts :
            status[b] \in Ended /\ status'[b] # status[b] =>
                status'[b] = "cancelled" /\ cancelling[b]]_vars
  BY EndedKept
<1> QED BY <1>1, InductiveInvariant, PTL DEF Spec, EndIsFinal

-----------------------------------------------------------------------------
(* What a campaign relies on: sent rows stay, so counters only grow.       *)

SentCounted == \A b \in Broadcasts : sentCount[b] <= Cardinality(RowsWith(b, "sent"))

LEMMA SentRowKept ==
    ASSUME IInv, [Next]_vars, NEW b \in Broadcasts, NEW s \in Subscribers,
           rcpt[b][s] = "sent"
    PROVE  rcpt'[b][s] = "sent"
<1>1. ASSUME NEW w \in Workers, NEW audience \in SUBSET Subscribers,
             WriteRecipients(w, audience)
      PROVE  rcpt'[b][s] = "sent"
  <2>1. phase[w] = "claimed" /\ job[w] \in Broadcasts /\ Blank(job[w])
    BY <1>1 DEF WriteRecipients, IInv, ClaimsExclusive, BlankUntilSent
  <2>2. job[w] # b
    BY <2>1 DEF Blank
  <2> QED BY <1>1, <2>1, <2>2 DEF WriteRecipients, IInv, TypeOK
<1>2. ASSUME NEW c \in Broadcasts, NEW q \in Subscribers, Record(c, q)
      PROVE  rcpt'[b][s] = "sent"
  <2>1. ~(c = b /\ q = s)
    BY <1>2 DEF Record, IInv, MessagesOK, MessageOK
  <2> QED BY <1>2, <2>1 DEF Record, IInv, TypeOK
<1>3. CASE rcpt' = rcpt
  BY <1>3
<1>4. ASSUME NEW w \in Workers, Advance(w)
      PROVE  rcpt' = rcpt \/ \E audience \in SUBSET Subscribers : WriteRecipients(w, audience)
  BY <1>4 DEF Advance, Refuse, NoAudience, StartBatch, EndBatch, Complete, MarkFailed,
              tables
<1>5. ASSUME NEW w \in Workers, Fail(w) PROVE rcpt' = rcpt
  BY <1>5 DEF Fail, Raise, TaskRaises, GiveUp, Crash, tables
<1>6. ASSUME NEW c \in Broadcasts,
             Create(c) \/ Queue(c) \/ ReadForCancel(c) \/ CommitCancel(c)
      PROVE  rcpt' = rcpt
  BY <1>6 DEF Create, Queue, ReadForCancel, CommitCancel, tables
<1>7. ASSUME NEW c \in Broadcasts, NEW w \in Workers, ClaimQueued(w, c) \/ ClaimDraft(w, c)
      PROVE  rcpt' = rcpt
  BY <1>7 DEF ClaimQueued, ClaimDraft, Claim
<1>8. ASSUME NEW c \in Broadcasts, NEW q \in Subscribers, Post(c, q) \/ OrphanEnds(c, q)
      PROVE  rcpt' = rcpt
  BY <1>8 DEF Post, Answered, NotAnswered, OrphanEnds, tables
<1>9. CASE UNCHANGED vars
  BY <1>9 DEF vars, tables
<1> QED BY <1>1, <1>2, <1>3, <1>4, <1>5, <1>6, <1>7, <1>8, <1>9 DEF Next

LEMMA CounterFromRows ==
    ASSUME IInv, [Next]_vars, NEW b \in Broadcasts
    PROVE  sentCount'[b] \in {sentCount[b], Cardinality(RowsWith(b, "sent"))}
<1>1. ASSUME NEW w \in Workers, EndBatch(w) \/ Complete(w)
      PROVE  sentCount'[b] \in {sentCount[b], Cardinality(RowsWith(b, "sent"))}
  BY <1>1 DEF EndBatch, Complete, Aggregate, IInv, TypeOK
<1>2. ASSUME NEW w \in Workers, Advance(w)
      PROVE  sentCount' = sentCount \/ EndBatch(w) \/ Complete(w)
  BY <1>2 DEF Advance, Refuse, NoAudience, WriteRecipients, StartBatch, MarkFailed,
              tables, counters
<1>3. ASSUME NEW w \in Workers, Fail(w) PROVE sentCount' = sentCount
  BY <1>3 DEF Fail, Raise, TaskRaises, GiveUp, Crash, tables, counters
<1>4. ASSUME NEW c \in Broadcasts,
             Create(c) \/ Queue(c) \/ ReadForCancel(c) \/ CommitCancel(c)
      PROVE  sentCount' = sentCount
  BY <1>4 DEF Create, Queue, ReadForCancel, CommitCancel, tables, counters
<1>5. ASSUME NEW c \in Broadcasts, NEW w \in Workers, ClaimQueued(w, c) \/ ClaimDraft(w, c)
      PROVE  sentCount' = sentCount
  BY <1>5 DEF ClaimQueued, ClaimDraft, Claim, counters
<1>6. ASSUME NEW c \in Broadcasts, NEW q \in Subscribers,
             Post(c, q) \/ Record(c, q) \/ OrphanEnds(c, q)
      PROVE  sentCount' = sentCount
  BY <1>6 DEF Post, Answered, NotAnswered, Record, OrphanEnds, tables, counters
<1>7. CASE UNCHANGED vars
  BY <1>7 DEF vars, tables, counters
<1> QED BY <1>1, <1>2, <1>3, <1>4, <1>5, <1>6, <1>7 DEF Next

LEMMA CountersGrow ==
    ASSUME IInv, SentCounted, [Next]_vars, NEW b \in Broadcasts
    PROVE  /\ sentCount[b] <= sentCount'[b]
           /\ sentCount'[b] <= Cardinality(RowsWith(b, "sent"))'
<1>1. RowsWith(b, "sent") \subseteq RowsWith(b, "sent")'
  BY SentRowKept DEF RowsWith
<1>2. IsFiniteSet(RowsWith(b, "sent")')
  BY FS_Subset DEF RowsWith
<1>3. /\ Cardinality(RowsWith(b, "sent")) <= Cardinality(RowsWith(b, "sent")')
      /\ Cardinality(RowsWith(b, "sent")') \in Nat
  BY <1>1, <1>2, FS_Subset, FS_CardinalityType
<1>4. Cardinality(RowsWith(b, "sent")) \in Nat
  BY RowsCounted
<1>5. /\ sentCount[b] \in Nat
      /\ sentCount[b] <= Cardinality(RowsWith(b, "sent"))
  BY DEF IInv, TypeOK, SentCounted
<1> QED BY <1>3, <1>4, <1>5, CounterFromRows

(* A row that exists stays. *)
LEMMA NeverAbsentAgain ==
    ASSUME IInv, [Next]_vars, NEW b \in Broadcasts, status[b] # "absent"
    PROVE  status'[b] # "absent"
<1>1. ASSUME NEW w \in Workers, Advance(w) PROVE status'[b] # "absent"
  BY <1>1 DEF Advance, Refuse, NoAudience, WriteRecipients, StartBatch, EndBatch, Complete,
              MarkFailed, FinalStatus, SetStatus, tables, IInv, TypeOK
<1>2. ASSUME NEW w \in Workers, Fail(w) PROVE status'[b] # "absent"
  BY <1>2 DEF Fail, Raise, TaskRaises, GiveUp, Crash, tables
<1>3. ASSUME NEW c \in Broadcasts,
             Create(c) \/ Queue(c) \/ ReadForCancel(c) \/ CommitCancel(c)
      PROVE  status'[b] # "absent"
  BY <1>3 DEF Create, Queue, ReadForCancel, CommitCancel, SetStatus, tables, IInv, TypeOK
<1>4. ASSUME NEW c \in Broadcasts, NEW w \in Workers, ClaimQueued(w, c) \/ ClaimDraft(w, c)
      PROVE  status'[b] # "absent"
  BY <1>4 DEF ClaimQueued, ClaimDraft, Claim, SetStatus, IInv, TypeOK
<1>5. ASSUME NEW c \in Broadcasts, NEW q \in Subscribers,
             Post(c, q) \/ Record(c, q) \/ OrphanEnds(c, q)
      PROVE  status'[b] # "absent"
  BY <1>5 DEF Post, Answered, NotAnswered, Record, OrphanEnds, tables
<1>6. CASE UNCHANGED vars
  BY <1>6 DEF vars, tables
<1> QED BY <1>1, <1>2, <1>3, <1>4, <1>5, <1>6 DEF Next

-----------------------------------------------------------------------------
(* Campaigns. *)

USE ActiveAssumption, NoWorkerAssumption, NoCampaignAssumption

-----------------------------------------------------------------------------
(* The refinement.                                                         *)

LEMMA EngineStepIsNext ==
    ASSUME EngineStep
    PROVE  Next
<1>1. CASE \E b \in Broadcasts : Queue(b) \/ ReadForCancel(b) \/ CommitCancel(b)
  BY <1>1 DEF Next
<1>2. CASE \E b \in Broadcasts, w \in Workers : ClaimQueued(w, b)
  BY <1>2 DEF Next
<1>3. CASE \E b \in Broadcasts, s \in Subscribers : Post(b, s) \/ Record(b, s) \/ OrphanEnds(b, s)
  BY <1>3 DEF Next
<1>4. CASE \E w \in Workers : FanOut(w)
  <2>1. PICK w \in Workers : FanOut(w)
    BY <1>4
  <2>2. Advance(w)
    BY <2>1 DEF FanOut, Advance, EngineSelection
  <2> QED BY <2>2 DEF Next
<1>5. CASE \E w \in Workers : EngineFails(w)
  BY <1>5 DEF EngineFails, Fail, Next
<1> QED BY <1>1, <1>2, <1>3, <1>4, <1>5 DEF EngineStep

LEMMA DispatchIsNext ==
    ASSUME NEW w \in Workers, Dispatch(w),
           step[w] = "made" => made[w] \in Broadcasts
    PROVE  Next \/ UNCHANGED vars
<1>1. CASE \E b \in Broadcasts : MakeBroadcast(w, b)
  BY <1>1 DEF MakeBroadcast, Next
<1>2. CASE SendMade(w)
  BY <1>2 DEF SendMade, ClaimMade, Next
<1>3. CASE ~(SendMade(w) \/ \E b \in Broadcasts : MakeBroadcast(w, b))
  BY <1>3 DEF Dispatch, TakeNext, EndSweep, QueryAudience, MadeIsTaken,
       StoreDelivered,
              CommitSent, CommitQueued
<1> QED BY <1>1, <1>2, <1>3

-----------------------------------------------------------------------------
(* The campaign's own invariant.                                           *)

(* A dispatch past its audience query has a campaign, and one that has made *)
(* its broadcast has it.                                                    *)
DispatchHasTarget ==
    \A w \in Workers :
        /\ step[w] # "idle" => camp[w] \in Campaigns
        /\ step[w] \in {"made", "fanout"} => made[w] \in Broadcasts

(* A campaign that waits for its schedule was never claimed, and nobody     *)
(* puts a claimed one back.                                                 *)
ScheduledIsUnclaimed ==
    \A c \in Campaigns : cstatus[c] = "scheduled" => claims[c] = 0

CInv ==
    /\ CLocalTypeOK
    /\ DispatchHasTarget
    /\ ScheduledIsUnclaimed
    /\ SweptOnce

LEMMA CInitCInv == CInit => CInv
  BY DEF CInit, CInv, CLocalTypeOK, CampaignStatuses, Steps, DispatchHasTarget,
         ScheduledIsUnclaimed, SweptOnce

LEMMA CreateCampaignCInv ==
    ASSUME TypeOK, CInv, NEW c \in Campaigns, NEW st \in {"draft", "scheduled"},
         CreateCampaign(c, st)
    PROVE  CInv'
<1>1. CLocalTypeOK'
  BY DEF CInv, CLocalTypeOK, CampaignStatuses, Steps, CreateCampaign,
     SetCampaign, ctables, locals, chistory
<1>2. DispatchHasTarget'
  BY DEF CInv, CLocalTypeOK, DispatchHasTarget, CreateCampaign, SetCampaign,
     ctables, locals, chistory
<1>3. ScheduledIsUnclaimed' /\ SweptOnce'
  BY DEF CInv, CLocalTypeOK, ScheduledIsUnclaimed, SweptOnce,
     DispatchHasTarget, CreateCampaign, SetCampaign, ctables, locals,
     chistory
<1> QED BY <1>1, <1>2, <1>3 DEF CInv

LEMMA ReadForDeleteCInv ==
    ASSUME TypeOK, CInv, NEW c \in Campaigns, ReadForDelete(c)
    PROVE  CInv'
<1>1. CLocalTypeOK'
  BY DEF CInv, CLocalTypeOK, CampaignStatuses, Steps, ReadForDelete,
     ctables, locals, chistory
<1>2. DispatchHasTarget'
  BY DEF CInv, CLocalTypeOK, DispatchHasTarget, ReadForDelete, ctables,
     locals, chistory
<1>3. ScheduledIsUnclaimed' /\ SweptOnce'
  BY DEF CInv, CLocalTypeOK, ScheduledIsUnclaimed, SweptOnce,
     DispatchHasTarget, ReadForDelete, ctables, locals, chistory
<1> QED BY <1>1, <1>2, <1>3 DEF CInv

LEMMA CommitDeleteCInv ==
    ASSUME TypeOK, CInv, NEW c \in Campaigns, CommitDelete(c)
    PROVE  CInv'
<1>1. CLocalTypeOK'
  BY DEF CInv, CLocalTypeOK, CampaignStatuses, Steps, CommitDelete,
     SetCampaign, ctables, locals, chistory
<1>2. DispatchHasTarget'
  BY DEF CInv, CLocalTypeOK, DispatchHasTarget, CommitDelete, SetCampaign,
     ctables, locals, chistory
<1>3. ScheduledIsUnclaimed' /\ SweptOnce'
  BY DEF CInv, CLocalTypeOK, ScheduledIsUnclaimed, SweptOnce,
     DispatchHasTarget, CommitDelete, SetCampaign, ctables, locals,
     chistory
<1> QED BY <1>1, <1>2, <1>3 DEF CInv

LEMMA ReadForSendCInv ==
    ASSUME TypeOK, CInv, NEW w \in Workers, NEW c \in Campaigns, ReadForSend(w, c)
    PROVE  CInv'
<1>1. CLocalTypeOK'
  BY DEF CInv, CLocalTypeOK, CampaignStatuses, Steps, ReadForSend, ctables,
     locals, chistory
<1>2. DispatchHasTarget'
  BY DEF CInv, CLocalTypeOK, DispatchHasTarget, ReadForSend, ctables,
     locals, chistory
<1>3. ScheduledIsUnclaimed' /\ SweptOnce'
  BY DEF CInv, CLocalTypeOK, ScheduledIsUnclaimed, SweptOnce,
     DispatchHasTarget, ReadForSend, ctables, locals, chistory
<1> QED BY <1>1, <1>2, <1>3 DEF CInv

(* The claim takes only what still waits for its schedule. *)
LEMMA ClaimScheduledCInv ==
    ASSUME TypeOK, CInv, NEW w \in Workers, NEW due \in SUBSET Campaigns,
         ClaimScheduled(w, due)
    PROVE  CInv'
<1>1. CLocalTypeOK'
  BY DEF CInv, CLocalTypeOK, CampaignStatuses, Steps, ClaimScheduled, Due,
     ctables, locals, chistory
<1>2. DispatchHasTarget'
  BY DEF CInv, CLocalTypeOK, DispatchHasTarget, ClaimScheduled, Due,
     ctables, locals, chistory
<1>3. ScheduledIsUnclaimed' /\ SweptOnce'
  BY DEF CInv, CLocalTypeOK, ScheduledIsUnclaimed, SweptOnce,
     DispatchHasTarget, ClaimScheduled, Due, ctables, locals, chistory
<1> QED BY <1>1, <1>2, <1>3 DEF CInv

LEMMA TakeNextCInv ==
    ASSUME TypeOK, CInv, NEW w \in Workers, NEW c \in Campaigns, TakeNext(w, c)
    PROVE  CInv'
<1>1. CLocalTypeOK'
  BY DEF CInv, CLocalTypeOK, CampaignStatuses, Steps, TakeNext, ctables,
     locals, chistory
<1>2. DispatchHasTarget'
  BY DEF CInv, CLocalTypeOK, DispatchHasTarget, TakeNext, ctables, locals,
     chistory
<1>3. ScheduledIsUnclaimed' /\ SweptOnce'
  BY DEF CInv, CLocalTypeOK, ScheduledIsUnclaimed, SweptOnce,
     DispatchHasTarget, TakeNext, ctables, locals, chistory
<1> QED BY <1>1, <1>2, <1>3 DEF CInv

LEMMA EndSweepCInv ==
    ASSUME TypeOK, CInv, NEW w \in Workers, EndSweep(w)
    PROVE  CInv'
<1>1. CLocalTypeOK'
  BY DEF CInv, CLocalTypeOK, CampaignStatuses, Steps, EndSweep, ctables,
     locals, chistory
<1>2. DispatchHasTarget'
  BY DEF CInv, CLocalTypeOK, DispatchHasTarget, EndSweep, ctables, locals,
     chistory
<1>3. ScheduledIsUnclaimed' /\ SweptOnce'
  BY DEF CInv, CLocalTypeOK, ScheduledIsUnclaimed, SweptOnce,
     DispatchHasTarget, EndSweep, ctables, locals, chistory
<1> QED BY <1>1, <1>2, <1>3 DEF CInv

LEMMA QueryAudienceCInv ==
    ASSUME TypeOK, CInv, NEW w \in Workers, QueryAudience(w)
    PROVE  CInv'
<1>1. camp[w] \in Campaigns
  BY DEF CInv, DispatchHasTarget, QueryAudience
<1>2. CLocalTypeOK'
  BY <1>1 DEF CInv, CLocalTypeOK, CampaignStatuses, Steps, QueryAudience,
     Done, GoTo, ctables, locals, chistory
<1>3. DispatchHasTarget'
  BY <1>1 DEF CInv, CLocalTypeOK, DispatchHasTarget, QueryAudience, Done,
     GoTo, ctables, locals, chistory
<1>4. ScheduledIsUnclaimed' /\ SweptOnce'
  BY <1>1 DEF CInv, CLocalTypeOK, ScheduledIsUnclaimed, SweptOnce,
     DispatchHasTarget, QueryAudience, Done, GoTo, ctables, locals,
     chistory
<1> QED BY <1>2, <1>3, <1>4 DEF CInv

LEMMA MakeBroadcastCInv ==
    ASSUME TypeOK, CInv, NEW w \in Workers, NEW b \in Broadcasts, MakeBroadcast(w, b)
    PROVE  CInv'
<1>1. camp[w] \in Campaigns
  BY DEF CInv, DispatchHasTarget, MakeBroadcast
<1>2. CLocalTypeOK'
  BY <1>1 DEF CInv, CLocalTypeOK, CampaignStatuses, Steps, MakeBroadcast,
     SetCampaign, ReleaseLock, ctables, locals, chistory
<1>3. DispatchHasTarget'
  BY <1>1 DEF CInv, CLocalTypeOK, DispatchHasTarget, MakeBroadcast,
     SetCampaign, ReleaseLock, ctables, locals, chistory
<1>4. ScheduledIsUnclaimed' /\ SweptOnce'
  BY <1>1 DEF CInv, CLocalTypeOK, ScheduledIsUnclaimed, SweptOnce,
     DispatchHasTarget, MakeBroadcast, SetCampaign, ReleaseLock, ctables,
     locals, chistory
<1> QED BY <1>2, <1>3, <1>4 DEF CInv

LEMMA SendMadeCInv ==
    ASSUME TypeOK, CInv, NEW w \in Workers, SendMade(w)
    PROVE  CInv'
<1>1. CLocalTypeOK'
  BY DEF CInv, CLocalTypeOK, CampaignStatuses, Steps, SendMade, GoTo,
     ctables, locals, chistory
<1>2. DispatchHasTarget'
  BY DEF CInv, CLocalTypeOK, DispatchHasTarget, SendMade, GoTo, ctables,
     locals, chistory
<1>3. ScheduledIsUnclaimed' /\ SweptOnce'
  BY DEF CInv, CLocalTypeOK, ScheduledIsUnclaimed, SweptOnce,
     DispatchHasTarget, SendMade, GoTo, ctables, locals, chistory
<1> QED BY <1>1, <1>2, <1>3 DEF CInv

LEMMA MadeIsTakenCInv ==
    ASSUME TypeOK, CInv, NEW w \in Workers, MadeIsTaken(w)
    PROVE  CInv'
<1>1. CLocalTypeOK'
  BY DEF CInv, CLocalTypeOK, CampaignStatuses, Steps, MadeIsTaken, GoTo,
     ctables, locals, chistory
<1>2. DispatchHasTarget'
  BY DEF CInv, CLocalTypeOK, DispatchHasTarget, MadeIsTaken, GoTo, ctables,
     locals, chistory
<1>3. ScheduledIsUnclaimed' /\ SweptOnce'
  BY DEF CInv, CLocalTypeOK, ScheduledIsUnclaimed, SweptOnce,
     DispatchHasTarget, MadeIsTaken, GoTo, ctables, locals, chistory
<1> QED BY <1>1, <1>2, <1>3 DEF CInv

LEMMA StoreDeliveredCInv ==
    ASSUME TypeOK, CInv, NEW w \in Workers, StoreDelivered(w)
    PROVE  CInv'
<1>1. camp[w] \in Campaigns /\ made[w] \in Broadcasts
  BY DEF CInv, DispatchHasTarget, StoreDelivered
<1>2. DeliveredCount(w) \in Nat
  BY <1>1 DEF TypeOK, DeliveredCount
<1>3. CLocalTypeOK'
  BY <1>1, <1>2 DEF CInv, CLocalTypeOK, CampaignStatuses, Steps,
     StoreDelivered, UpdateCampaign, SetCampaign, GoTo, ctables, locals,
     chistory
<1>4. DispatchHasTarget'
  BY <1>1, <1>2 DEF CInv, CLocalTypeOK, DispatchHasTarget, StoreDelivered,
     UpdateCampaign, SetCampaign, GoTo, ctables, locals, chistory
<1>5. ScheduledIsUnclaimed' /\ SweptOnce'
  BY <1>1, <1>2 DEF CInv, CLocalTypeOK, ScheduledIsUnclaimed, SweptOnce,
     DispatchHasTarget, StoreDelivered, UpdateCampaign, SetCampaign, GoTo,
     ctables, locals, chistory
<1> QED BY <1>3, <1>4, <1>5 DEF CInv

LEMMA CommitSentCInv ==
    ASSUME TypeOK, CInv, NEW w \in Workers, CommitSent(w)
    PROVE  CInv'
<1>1. camp[w] \in Campaigns
  BY DEF CInv, DispatchHasTarget, CommitSent
<1>2. CLocalTypeOK'
  BY <1>1 DEF CInv, CLocalTypeOK, CampaignStatuses, Steps, CommitSent,
     UpdateCampaign, ClearDelivered, SetCampaign, Done, ctables, locals,
     chistory
<1>3. DispatchHasTarget'
  BY <1>1 DEF CInv, CLocalTypeOK, DispatchHasTarget, CommitSent,
     UpdateCampaign, ClearDelivered, SetCampaign, Done, ctables, locals,
     chistory
<1>4. ScheduledIsUnclaimed' /\ SweptOnce'
  BY <1>1 DEF CInv, CLocalTypeOK, ScheduledIsUnclaimed, SweptOnce,
     DispatchHasTarget, CommitSent, UpdateCampaign, ClearDelivered,
     SetCampaign, Done, ctables, locals, chistory
<1> QED BY <1>2, <1>3, <1>4 DEF CInv

LEMMA CommitQueuedCInv ==
    ASSUME TypeOK, CInv, NEW w \in Workers, CommitQueued(w)
    PROVE  CInv'
<1>1. camp[w] \in Campaigns
  BY DEF CInv, DispatchHasTarget, CommitQueued
<1>2. CLocalTypeOK'
  BY <1>1 DEF CInv, CLocalTypeOK, CampaignStatuses, Steps, CommitQueued,
     QueuedStatus, ClearDelivered, SetCampaign, ReleaseLock, Done,
     ctables, locals, chistory
<1>3. DispatchHasTarget'
  BY <1>1 DEF CInv, CLocalTypeOK, DispatchHasTarget, CommitQueued,
     QueuedStatus, ClearDelivered, SetCampaign, ReleaseLock, Done,
     ctables, locals, chistory
<1>4. ScheduledIsUnclaimed' /\ SweptOnce'
  BY <1>1 DEF CInv, CLocalTypeOK, ScheduledIsUnclaimed, SweptOnce,
     DispatchHasTarget, CommitQueued, QueuedStatus, ClearDelivered,
     SetCampaign, ReleaseLock, Done, ctables, locals, chistory
<1> QED BY <1>2, <1>3, <1>4 DEF CInv

LEMMA SweepFailsCInv ==
    ASSUME TypeOK, CInv, NEW w \in Workers, SweepFails(w)
    PROVE  CInv'
<1>1. camp[w] \in Campaigns
  BY DEF CInv, DispatchHasTarget, SweepFails
<1>2. CLocalTypeOK'
  BY <1>1 DEF CInv, CLocalTypeOK, CampaignStatuses, Steps, SweepFails,
     SetCampaign, ReleaseLock, Done, ctables, locals, chistory
<1>3. DispatchHasTarget'
  BY <1>1 DEF CInv, CLocalTypeOK, DispatchHasTarget, SweepFails,
     SetCampaign, ReleaseLock, Done, ctables, locals, chistory
<1>4. ScheduledIsUnclaimed' /\ SweptOnce'
  BY <1>1 DEF CInv, CLocalTypeOK, ScheduledIsUnclaimed, SweptOnce,
     DispatchHasTarget, SweepFails, SetCampaign, ReleaseLock, Done,
     ctables, locals, chistory
<1> QED BY <1>2, <1>3, <1>4 DEF CInv

LEMMA DeferCInv ==
    ASSUME TypeOK, CInv, NEW w \in Workers, Defer(w)
    PROVE  CInv'
<1>1. CLocalTypeOK'
  BY DEF CInv, CLocalTypeOK, CampaignStatuses, Steps, Defer, GoTo, ctables,
     locals, chistory
<1>2. DispatchHasTarget'
  BY DEF CInv, CLocalTypeOK, DispatchHasTarget, Defer, GoTo, ctables,
     locals, chistory
<1>3. ScheduledIsUnclaimed' /\ SweptOnce'
  BY DEF CInv, CLocalTypeOK, ScheduledIsUnclaimed, SweptOnce,
     DispatchHasTarget, Defer, GoTo, ctables, locals, chistory
<1> QED BY <1>1, <1>2, <1>3 DEF CInv

LEMMA DieCInv ==
    ASSUME TypeOK, CInv, NEW w \in Workers, Die(w)
    PROVE  CInv'
<1>1. CLocalTypeOK'
  BY DEF CInv, CLocalTypeOK, CampaignStatuses, Steps, Die, ReleaseLock,
     Done, ctables, locals, chistory
<1>2. DispatchHasTarget'
  BY DEF CInv, CLocalTypeOK, DispatchHasTarget, Die, ReleaseLock, Done,
     ctables, locals, chistory
<1>3. ScheduledIsUnclaimed' /\ SweptOnce'
  BY DEF CInv, CLocalTypeOK, ScheduledIsUnclaimed, SweptOnce,
     DispatchHasTarget, Die, ReleaseLock, Done, ctables, locals, chistory
<1> QED BY <1>1, <1>2, <1>3 DEF CInv

LEMMA UnchangedCInv ==
    ASSUME CInv, UNCHANGED cvars
    PROVE  CInv'
  BY DEF CInv, CLocalTypeOK, DispatchHasTarget, ScheduledIsUnclaimed, SweptOnce,
       cvars,
         ctables, locals, chistory

LEMMA DispatchCInv ==
    ASSUME TypeOK, CInv, NEW w \in Workers, Dispatch(w)
    PROVE  CInv'
  BY TakeNextCInv, EndSweepCInv, QueryAudienceCInv, MakeBroadcastCInv, SendMadeCInv,
     MadeIsTakenCInv, StoreDeliveredCInv, CommitSentCInv, CommitQueuedCInv DEF Dispatch

LEMMA CNextCInv == TypeOK /\ CInv /\ [CNext]_allVars => CInv'
<1> SUFFICES ASSUME TypeOK, CInv, [CNext]_allVars PROVE CInv'
  OBVIOUS
<1>1. CASE EngineStep \/ UNCHANGED allVars
  BY <1>1, UnchangedCInv DEF EngineStep, allVars
<1>2. CASE \E c \in Campaigns :
            \/ \E st \in {"draft", "scheduled"} : CreateCampaign(c, st)
            \/ ReadForDelete(c) \/ CommitDelete(c)
            \/ \E w \in Workers : ReadForSend(w, c)
  BY <1>2, CreateCampaignCInv, ReadForDeleteCInv, CommitDeleteCInv, ReadForSendCInv
<1>3. CASE \E w \in Workers :
            \/ \E due \in SUBSET Campaigns : ClaimScheduled(w, due)
            \/ Dispatch(w)
            \/ SweepFails(w) \/ Defer(w) \/ Die(w)
  BY <1>3, ClaimScheduledCInv, DispatchCInv, SweepFailsCInv, DeferCInv, DieCInv
<1> QED BY <1>1, <1>2, <1>3 DEF CNext

LEMMA CNextIsNext == CInv /\ [CNext]_allVars => [Next]_vars
<1> SUFFICES ASSUME CInv, [CNext]_allVars PROVE Next \/ UNCHANGED vars
  OBVIOUS
<1>1. CASE EngineStep
  BY <1>1, EngineStepIsNext
<1>2. CASE UNCHANGED allVars
  BY <1>2 DEF allVars
<1>3. CASE \E w \in Workers : Dispatch(w)
  BY <1>3, DispatchIsNext DEF CInv, DispatchHasTarget
<1>4. CASE \E w \in Workers : Defer(w) \/ Die(w)
  BY <1>4 DEF Defer, Die, Fail, Next
<1>5. CASE \E c \in Campaigns, w \in Workers :
            \/ \E st \in {"draft", "scheduled"} : CreateCampaign(c, st)
            \/ ReadForDelete(c) \/ CommitDelete(c) \/ ReadForSend(w, c)
  BY <1>5 DEF CreateCampaign, ReadForDelete, CommitDelete, ReadForSend
<1>6. CASE \E w \in Workers :
            (\E due \in SUBSET Campaigns : ClaimScheduled(w, due)) \/ SweepFails(w)
  BY <1>6 DEF ClaimScheduled, SweepFails
<1>7. CASE \E c \in Campaigns :
            \/ \E st \in {"draft", "scheduled"} : CreateCampaign(c, st)
            \/ ReadForDelete(c) \/ CommitDelete(c)
  BY <1>7 DEF CreateCampaign, ReadForDelete, CommitDelete
<1> QED BY <1>1, <1>2, <1>3, <1>4, <1>5, <1>6, <1>7 DEF CNext

-----------------------------------------------------------------------------

LEMMA CInitInit == CInit => Init
  BY DEF CInit

(* The invariants of the engine and of the campaigns, together: each needs  *)
(* the other for its steps.                                                 *)
THEOREM CampaignInvariant == CSpec => [](IInv /\ CInv)
<1>1. CInit => IInv /\ CInv
  BY CInitInit, CInitCInv, InitIInv
<1>2. IInv /\ CInv /\ [CNext]_allVars => (IInv /\ CInv)'
  <2> SUFFICES ASSUME IInv, CInv, [CNext]_allVars PROVE IInv' /\ CInv'
    OBVIOUS
  <2>1. TypeOK
    BY DEF IInv
  <2> QED BY <2>1, CNextIsNext, NextIInv, CNextCInv
<1> QED BY <1>1, <1>2, PTL DEF CSpec

(* The types of a campaign's row and of its dispatches. *)
THEOREM CampaignTypes == CSpec => []CTypeOK
<1>1. IInv /\ CInv => CTypeOK
  BY DEF IInv, CInv, CTypeOK
<1> QED BY <1>1, CampaignInvariant, PTL

(* Every step of a campaign is a step of the broadcast engine or leaves it  *)
(* alone.                                                                   *)
THEOREM CampaignImplementsBroadcast == CSpec => ImplementsBroadcast
<1>1. CInv /\ [CNext]_allVars => [Next]_vars
  BY CNextIsNext
<1> QED BY <1>1, CInitInit, CampaignInvariant, PTL DEF CSpec, ImplementsBroadcast,
     Spec

(* So no recipient of a campaign's broadcast is called twice for it, and    *)
(* what its rows say is true.                                               *)
THEOREM CampaignBroadcastsSound == CSpec => [](CalledOnce /\ RowsTellTheTruth)
<1>1. IInv => CalledOnce /\ RowsTellTheTruth
  BY DEF IInv, MessagesOK, MessageOK, CalledOnce, RowsTellTheTruth
<1> QED BY <1>1, CampaignInvariant, PTL

(* A scheduled campaign is claimed by one sweep, however many overlap. *)
THEOREM CampaignSweptOnce == CSpec => []SweptOnce
<1>1. CInv => SweptOnce
  BY DEF CInv
<1> QED BY <1>1, CampaignInvariant, PTL

-----------------------------------------------------------------------------
(* The delivery count.                                                     *)

(* Between making its broadcast and storing what it reached, a dispatch     *)
(* holds a broadcast made for its own campaign.                             *)
MadeIsOwn ==
    \A w \in Workers : step[w] \in {"made", "fanout"} => madeFor[made[w]] = camp[w]

(* A broadcast made for a campaign has its row, so it is made once. *)
MadeExists == \A b \in Broadcasts : madeFor[b] # NoCampaign => status[b] # "absent"

DInv == SentCounted /\ MadeIsOwn /\ MadeExists /\ DeliveredIsBacked

LEMMA CInitDInv == CInit => DInv
<1> SUFFICES ASSUME CInit PROVE DInv
  OBVIOUS
<1>1. SentCounted
  <2> SUFFICES ASSUME NEW b \in Broadcasts
               PROVE  sentCount[b] <= Cardinality(RowsWith(b, "sent"))
    BY DEF SentCounted
  <2>1. sentCount[b] = 0
    BY DEF CInit, Init
  <2> QED BY <2>1, RowsCounted
<1>2. MadeIsOwn /\ MadeExists /\ DeliveredIsBacked
  BY DEF CInit, MadeIsOwn, MadeExists, DeliveredIsBacked
<1> QED BY <1>1, <1>2 DEF DInv

(* A count that is backed stays so: the broadcast keeps its campaign and    *)
(* its counter does not shrink.                                             *)
LEMMA BackingKept ==
    ASSUME IInv, CInv, SentCounted, [CNext]_allVars, NEW c \in Campaigns, NEW n \in Nat,
           NEW b \in Broadcasts, madeFor[b] = c, sentCount[b] >= n, madeFor'[b] = madeFor[b]
    PROVE  madeFor'[b] = c /\ sentCount'[b] >= n
<1>1. [Next]_vars
  BY CNextIsNext
<1>2. sentCount[b] <= sentCount'[b]
  BY <1>1, CountersGrow
<1>3. sentCount[b] \in Nat /\ sentCount'[b] \in Nat
  BY <1>1, NextIInv DEF IInv, TypeOK
<1> QED BY <1>2, <1>3

(* What every step does to the engine's part. *)
LEMMA EngineDInv ==
    ASSUME IInv, CInv, DInv, [CNext]_allVars
    PROVE  /\ SentCounted'
           /\ \A b \in Broadcasts : status[b] # "absent" => status'[b] # "absent"
<1>1. [Next]_vars
  BY CNextIsNext
<1> QED BY <1>1, CountersGrow, NeverAbsentAgain DEF SentCounted, DInv

(* A step that makes no broadcast, starts no other and at most clears a     *)
(* count.                                                                   *)
LEMMA CalmDInv ==
    ASSUME IInv, CInv, DInv, [CNext]_allVars,
           madeFor' = madeFor,
           \A c \in Campaigns : delivered'[c] \in {delivered[c], 0},
           \A w \in Workers : step'[w] \in {"made", "fanout"} =>
               step[w] \in {"made", "fanout"} /\ made'[w] = made[w] /\ camp'[w] = camp[w]
    PROVE  DInv'
<1>1. SentCounted' /\ MadeExists'
  BY EngineDInv DEF DInv, MadeExists
<1>2. MadeIsOwn'
  BY DEF DInv, MadeIsOwn
<1>3. ASSUME NEW c \in Campaigns, delivered'[c] > 0
      PROVE  \E b \in Broadcasts : madeFor'[b] = c /\ sentCount'[b] >= delivered'[c]
  <2>1. delivered'[c] = delivered[c] /\ delivered[c] \in Nat
    BY <1>3 DEF CInv, CLocalTypeOK
  <2>2. PICK b \in Broadcasts : madeFor[b] = c /\ sentCount[b] >= delivered[c]
    BY <1>3, <2>1 DEF DInv, DeliveredIsBacked
  <2>3. madeFor'[b] = c /\ sentCount'[b] >= delivered[c]
    BY <2>1, <2>2, BackingKept DEF DInv
  <2> QED BY <2>1, <2>3
<1>4. DeliveredIsBacked'
  BY <1>3 DEF DeliveredIsBacked
<1> QED BY <1>1, <1>2, <1>4 DEF DInv

LEMMA MakeBroadcastDInv ==
    ASSUME IInv, CInv, DInv, [CNext]_allVars,
           NEW w \in Workers, NEW b \in Broadcasts, MakeBroadcast(w, b)
    PROVE  DInv'
<1>1. /\ camp[w] \in Campaigns /\ camp' = camp /\ delivered' = delivered
      /\ status[b] = "absent" /\ status' = [status EXCEPT ![b] = "draft"]
      /\ madeFor' = [madeFor EXCEPT ![b] = camp[w]]
      /\ made' = [made EXCEPT ![w] = b] /\ step' = [step EXCEPT ![w] = "made"]
  BY DEF MakeBroadcast, Create, SetStatus, CInv, DispatchHasTarget
<1>2. /\ madeFor \in [Broadcasts -> Campaigns \cup {NoCampaign}]
      /\ made \in [Workers -> Broadcasts \cup {NoBroadcast}]
      /\ step \in [Workers -> Steps]
      /\ delivered \in [Campaigns -> Nat]
      /\ status \in [Broadcasts -> Statuses]
  BY DEF CInv, CLocalTypeOK, IInv, TypeOK
<1>3. madeFor[b] = NoCampaign
  BY <1>1 DEF DInv, MadeExists
<1>4. \A d \in Broadcasts : madeFor[d] # NoCampaign => madeFor'[d] = madeFor[d]
  BY <1>1, <1>2, <1>3
<1>5. SentCounted'
  BY EngineDInv
<1>6. MadeExists'
  BY <1>1, <1>2 DEF DInv, MadeExists
<1>7. MadeIsOwn'
  <2> SUFFICES ASSUME NEW v \in Workers, step'[v] \in {"made", "fanout"}
               PROVE  madeFor'[made'[v]] = camp'[v]
    BY DEF MadeIsOwn
  <2>1. CASE v = w
    BY <1>1, <1>2, <2>1
  <2>2. CASE v # w
    <3>1. step'[v] = step[v] /\ made'[v] = made[v]
      BY <1>1, <1>2, <2>2
    <3>2. /\ madeFor[made[v]] = camp[v] /\ made[v] \in Broadcasts
          /\ camp[v] \in Campaigns
      BY <3>1 DEF DInv, MadeIsOwn, CInv, DispatchHasTarget
    <3> QED BY <1>1, <1>4, <3>1, <3>2
  <2> QED BY <2>1, <2>2
<1>8. ASSUME NEW c \in Campaigns, delivered'[c] > 0
      PROVE  \E d \in Broadcasts : madeFor'[d] = c /\ sentCount'[d] >= delivered'[c]
  <2>1. delivered'[c] = delivered[c] /\ delivered[c] \in Nat
    BY <1>1, <1>2
  <2>2. PICK d \in Broadcasts : madeFor[d] = c /\ sentCount[d] >= delivered[c]
    BY <1>8, <2>1 DEF DInv, DeliveredIsBacked
  <2>3. madeFor'[d] = c /\ sentCount'[d] >= delivered[c]
    BY <1>4, <2>1, <2>2, BackingKept DEF DInv
  <2> QED BY <2>1, <2>3
<1>9. DeliveredIsBacked'
  BY <1>8 DEF DeliveredIsBacked
<1> QED BY <1>5, <1>6, <1>7, <1>9 DEF DInv

(* What is stored is the counter of the dispatch's own broadcast. *)
LEMMA StoreDeliveredDInv ==
    ASSUME IInv, CInv, DInv, [CNext]_allVars, NEW w \in Workers, StoreDelivered(w)
    PROVE  DInv'
<1>1. /\ camp[w] \in Campaigns /\ made[w] \in Broadcasts
      /\ madeFor[made[w]] = camp[w]
  BY DEF StoreDelivered, CInv, DispatchHasTarget, DInv, MadeIsOwn
<1>2. /\ sentCount[made[w]] \in Nat /\ delivered \in [Campaigns -> Nat]
      /\ step \in [Workers -> Steps]
  BY <1>1 DEF CInv, CLocalTypeOK, IInv, TypeOK
<1>3. /\ delivered' \in {delivered, [delivered EXCEPT ![camp[w]] = sentCount[made[w]]]}
      /\ step' = [step EXCEPT ![w] = "stored"]
      /\ madeFor' = madeFor /\ made' = made /\ camp' = camp
  BY DEF StoreDelivered, DeliveredCount, GoTo, locals, chistory
<1>4. SentCounted' /\ MadeExists'
  BY <1>3, EngineDInv DEF DInv, MadeExists
<1>5. MadeIsOwn'
  BY <1>2, <1>3 DEF DInv, MadeIsOwn
<1>6. ASSUME NEW c \in Campaigns, delivered'[c] > 0
      PROVE  \E d \in Broadcasts : madeFor'[d] = c /\ sentCount'[d] >= delivered'[c]
  <2>1. CASE delivered'[c] = delivered[c]
    <3>1. PICK d \in Broadcasts : madeFor[d] = c /\ sentCount[d] >= delivered[c]
      BY <1>6, <2>1 DEF DInv, DeliveredIsBacked
    <3>2. madeFor'[d] = c /\ sentCount'[d] >= delivered[c]
      BY <1>2, <1>3, <3>1, BackingKept DEF DInv
    <3> QED BY <2>1, <3>2
  <2>2. CASE delivered'[c] # delivered[c]
    <3>1. c = camp[w] /\ delivered'[c] = sentCount[made[w]]
      BY <1>1, <1>2, <1>3, <2>2
    <3>2. sentCount[made[w]] >= sentCount[made[w]]
      BY <1>2
    <3>3. madeFor'[made[w]] = c /\ sentCount'[made[w]] >= sentCount[made[w]]
      BY <1>1, <1>2, <1>3, <3>1, <3>2, BackingKept DEF DInv
    <3> QED BY <1>1, <3>1, <3>3
  <2> QED BY <2>1, <2>2
<1>7. DeliveredIsBacked'
  BY <1>6 DEF DeliveredIsBacked
<1> QED BY <1>4, <1>5, <1>7 DEF DInv

LEMMA CNextDInv ==
    ASSUME IInv, CInv, DInv, [CNext]_allVars
    PROVE  DInv'
<1>1. /\ step \in [Workers -> Steps] /\ camp \in [Workers -> Campaigns \cup {NoCampaign}]
      /\ made \in [Workers -> Broadcasts \cup {NoBroadcast}]
      /\ delivered \in [Campaigns -> Nat]
  BY DEF CInv, CLocalTypeOK
<1> DEFINE Calm ==
        /\ madeFor' = madeFor
        /\ \A c \in Campaigns : delivered'[c] \in {delivered[c], 0}
        /\ \A w \in Workers : step'[w] \in {"made", "fanout"} =>
               step[w] \in {"made", "fanout"} /\ made'[w] = made[w] /\ camp'[w] = camp[w]
<1>2. CASE EngineStep \/ UNCHANGED allVars
  <2>1. Calm
    BY <1>2 DEF EngineStep, allVars, cvars, ctables, locals, chistory
  <2> QED BY <2>1, CalmDInv
<1>3. ASSUME NEW c \in Campaigns,
             \/ \E st \in {"draft", "scheduled"} : CreateCampaign(c, st)
             \/ ReadForDelete(c) \/ CommitDelete(c)
      PROVE  DInv'
  <2>1. Calm
    BY <1>3 DEF CreateCampaign, ReadForDelete, CommitDelete, ctables, locals, chistory
  <2> QED BY <2>1, CalmDInv
<1>4. ASSUME NEW c \in Campaigns, NEW w \in Workers, ReadForSend(w, c)
      PROVE  DInv'
  <2>1. Calm
    BY <1>1, <1>4 DEF ReadForSend, ctables, chistory
  <2> QED BY <2>1, CalmDInv
<1>5. ASSUME NEW w \in Workers, NEW due \in SUBSET Campaigns, ClaimScheduled(w, due)
      PROVE  DInv'
  <2>1. Calm
    BY <1>5 DEF ClaimScheduled
  <2> QED BY <2>1, CalmDInv
<1>6. ASSUME NEW w \in Workers, NEW c \in Campaigns, TakeNext(w, c)
      PROVE  DInv'
  <2>1. Calm
    BY <1>1, <1>6 DEF TakeNext, ctables, chistory
  <2> QED BY <2>1, CalmDInv
<1>7. ASSUME NEW w \in Workers, EndSweep(w) \/ QueryAudience(w) \/ SweepFails(w) \/ Die(w)
      PROVE  DInv'
  <2>1. Calm
    BY <1>1, <1>7 DEF EndSweep, QueryAudience, SweepFails, Die, Done, GoTo, ctables, locals,
                      chistory
  <2> QED BY <2>1, CalmDInv
<1>8. ASSUME NEW w \in Workers, SendMade(w) \/ MadeIsTaken(w) \/ Defer(w)
      PROVE  DInv'
  <2>1. Calm
    BY <1>1, <1>8 DEF SendMade, MadeIsTaken, Defer, GoTo, ctables, locals, chistory
  <2> QED BY <2>1, CalmDInv
<1>9. ASSUME NEW w \in Workers, CommitSent(w) \/ CommitQueued(w)
      PROVE  DInv'
  <2>1. \A c \in Campaigns : delivered'[c] \in {delivered[c], 0}
    BY <1>1, <1>9 DEF CommitSent, CommitQueued, ClearDelivered, ctables
  <2>2. Calm
    BY <1>1, <1>9, <2>1 DEF CommitSent, CommitQueued, Done, chistory
  <2> QED BY <2>2, CalmDInv
<1>10. ASSUME NEW w \in Workers, NEW b \in Broadcasts, MakeBroadcast(w, b)
       PROVE  DInv'
  BY <1>10, MakeBroadcastDInv
<1>11. ASSUME NEW w \in Workers, StoreDelivered(w)
       PROVE  DInv'
  BY <1>11, StoreDeliveredDInv
<1> QED BY <1>2, <1>3, <1>4, <1>5, <1>6, <1>7, <1>8, <1>9, <1>10, <1>11 DEF CNext, Dispatch

(* The number shown as delivered is never more than what a broadcast made   *)
(* for the campaign has reached, however many dispatches, sweeps and deaths *)
(* interleave.                                                              *)
THEOREM CampaignDeliveredBacked == CSpec => []DeliveredIsBacked
<1>1. CInit => DInv
  BY CInitDInv
<1>2. IInv /\ CInv /\ DInv /\ [CNext]_allVars => DInv'
  BY CNextDInv
<1>3. DInv => DeliveredIsBacked
  BY DEF DInv
<1> QED BY <1>1, <1>2, <1>3, CampaignInvariant, PTL DEF CSpec

(* A campaign is swept once, and what it shows as delivered was delivered.  *)
THEOREM CampaignHolds == CSpec => []CampaignInv
<1>1. SweptOnce /\ DeliveredIsBacked => CampaignInv
  BY DEF CampaignInv
<1> QED BY <1>1, CampaignSweptOnce, CampaignDeliveredBacked, PTL

=============================================================================
