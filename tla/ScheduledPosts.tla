--------------------------- MODULE ScheduledPosts ---------------------------
(***************************************************************************)
(* Posts that are published to the page when their time has come: by the   *)
(* sweep of the heartbeat, by the calendar's engine (its own scheduler and *)
(* the calendar's publish button), and by the publish button of the posts  *)
(* page.  The first two claim a post before they call Facebook; a claim    *)
(* older than 600 seconds is taken back, from a publisher that died as     *)
(* from one that is slow (a frozen function).                              *)
(*                                                                         *)
(* Abstracted: the text, and when a post's time has come (a scan finds any *)
(* set of scheduled posts due).                                            *)
(***************************************************************************)
EXTENDS Naturals, FiniteSets

CONSTANTS
    ScheduledPost,
    Sweeps,         \* runs of _publish_due_scheduled_posts
    Engines,        \* runs of ContentCalendarEngine, of one process
    MaxAttempts,    \* MAX_PUBLISH_ATTEMPTS
    MaxTroubles     \* bound: deaths, exceptions, lost answers to a post that was accepted,
                    \* expiries under a live holder, direct publications, edits

ASSUME MaxAttemptsAssumption == MaxAttempts \in Nat \ {0}
ASSUME MaxTroublesAssumption == MaxTroubles \in Nat

Publishers == Sweeps \cup Engines

VARIABLES
    post,       \* scheduled_posts.status
    mark,       \* the claim marker of a post: none, fresh, or older than 600 s
    attempts,   \* _publish_attempts of the calendar's process
    pub,        \* how far a publisher is with the post at hand
    list,       \* the posts a publisher has still to turn to, the one at hand included;
                \* during the recovery, those it found stuck
    held,       \* the status the calendar's engine loaded of each
    direct,     \* publications from the posts page that Facebook has answered
    seen,       \* the status the posts page's publication loaded
    onPage,     \* history: how often a post is on the page
    excused,    \* history: what may put it there once more
    misread,    \* history: posts whose refusal was taken for a success
    relapsed,   \* history: posts released to 'publishing', the status that was loaded
    troubles

postRows == <<post, mark>>
postDirect == <<direct, seen>>
postWork == <<attempts, pub, list, held, postDirect>>
postHistory == <<onPage, excused, misread, relapsed>>
postVars == <<postRows, postWork, postHistory, troubles>>

PostStates == {"absent", "draft", "scheduled", "publishing", "published", "failed", "deleted"}
Answers == {"accepted", "rejected", "lost"}

PostsTypeOK ==
    /\ post \in [ScheduledPost -> PostStates]
    /\ mark \in [ScheduledPost -> {"none", "fresh", "stale"}]
    /\ attempts \in [ScheduledPost -> Nat]
    /\ pub \in [Publishers -> {"idle", "recovering", "recovered", "working", "claimed"} \cup Answers]
    /\ list \in [Publishers -> SUBSET ScheduledPost]
    /\ held \in [Publishers -> [ScheduledPost -> PostStates]]
    /\ direct \in [ScheduledPost -> {"none"} \cup Answers]
    /\ seen \in [ScheduledPost -> PostStates]
    /\ onPage \in [ScheduledPost -> Nat]
    /\ excused \in [ScheduledPost -> Nat]
    /\ misread \subseteq ScheduledPost /\ relapsed \subseteq ScheduledPost
    /\ troubles \in 0 .. MaxTroubles

Nothing == [p \in ScheduledPost |-> "absent"]

PostsInit ==
    /\ post = Nothing
    /\ mark = [p \in ScheduledPost |-> "none"]
    /\ attempts = [p \in ScheduledPost |-> 0]
    /\ pub = [w \in Publishers |-> "idle"]
    /\ list = [w \in Publishers |-> {}]
    /\ held = [w \in Publishers |-> Nothing]
    /\ direct = [p \in ScheduledPost |-> "none"]
    /\ seen = Nothing
    /\ onPage = [p \in ScheduledPost |-> 0]
    /\ excused = [p \in ScheduledPost |-> 0]
    /\ misread = {} /\ relapsed = {}
    /\ troubles = 0

AtWork == {"claimed"} \cup Answers
PostAtHand(w) == CHOOSE p \in list[w] : TRUE
HoldsPost(w, p) == pub[w] \in AtWork /\ p = PostAtHand(w)
Held(p) == \E w \in Publishers : HoldsPost(w, p)
Exists(p) == post[p] \notin {"absent", "deleted"}

SetPost(p, st) == post' = [post EXCEPT ![p] = st]
ClearMark(p) == mark' = [mark EXCEPT ![p] = "none"]
Publisher(w, phase) == pub' = [pub EXCEPT ![w] = phase]
Excuse(p) == excused' = [excused EXCEPT ![p] = @ + 1]

Trouble ==
    /\ troubles < MaxTroubles
    /\ troubles' = troubles + 1

\* The publisher turns to the next post of its list.
NextPost(w) ==
    /\ Publisher(w, "working")
    /\ list' = [list EXCEPT ![w] = @ \ {PostAtHand(w)}]
    /\ held' = [held EXCEPT ![w][PostAtHand(w)] = "absent"]

\* The publisher's run is over.
Stop(w) ==
    /\ Publisher(w, "idle")
    /\ list' = [list EXCEPT ![w] = {}]
    /\ held' = [held EXCEPT ![w] = Nothing]

-----------------------------------------------------------------------------
(* The editor.                                                             *)

Schedule(p) ==
    /\ post[p] = "absent"
    /\ \E st \in {"draft", "scheduled"} : SetPost(p, st)
    /\ UNCHANGED <<mark, postWork, postHistory, troubles>>

(* update_post writes a status over whatever the row has become: to         *)
(* schedule a post again is to ask for one more publication.                *)
EditStatus(p, st) ==
    /\ Exists(p)
    /\ Trouble
    /\ SetPost(p, st)
    /\ attempts' = [attempts EXCEPT ![p] = 0]
    /\ Excuse(p)
    /\ UNCHANGED <<mark, pub, list, held, postDirect, onPage, misread, relapsed>>

(* The calendar's delete takes the marker along, that of the posts page     *)
(* leaves it.                                                               *)
DeletePost(p) ==
    /\ Exists(p)
    /\ SetPost(p, "deleted")
    /\ \/ ClearMark(p) /\ attempts' = [attempts EXCEPT ![p] = 0]
       \/ UNCHANGED <<mark, attempts>>
    /\ UNCHANGED <<pub, list, held, postDirect, postHistory, troubles>>

-----------------------------------------------------------------------------
(* Finding due posts.                                                      *)

PostIsStuck(p) == post[p] = "publishing" /\ mark[p] = "stale"

FindStuck(w) ==
    /\ pub[w] = "idle"
    /\ list' = [list EXCEPT ![w] = {p \in ScheduledPost : PostIsStuck(p)}]
    /\ Publisher(w, "recovering")
    /\ UNCHANGED <<postRows, attempts, held, postDirect, postHistory, troubles>>

(* The rows that are still claimed, whoever claimed them since, and the     *)
(* markers that were read: one written anew in their place stays.  A live   *)
(* claim that is taken back so gives the page one more publication.         *)
RecoverPosts(w) ==
    /\ pub[w] = "recovering"
    /\ LET taken == {p \in list[w] : post[p] = "publishing"} IN
       /\ post' = [p \in ScheduledPost |-> IF p \in taken THEN "scheduled" ELSE post[p]]
       /\ \E dropped \in SUBSET list[w] :
            /\ {p \in list[w] : mark[p] = "stale"} \subseteq dropped
            /\ mark' = [p \in ScheduledPost |-> IF p \in dropped THEN "none" ELSE mark[p]]
       /\ excused' = [p \in ScheduledPost |-> excused[p] +
                        (IF p \in taken /\ Held(p) THEN 1 ELSE 0)]
    /\ Publisher(w, "recovered")
    /\ list' = [list EXCEPT ![w] = {}]
    /\ UNCHANGED <<attempts, held, postDirect, onPage, misread, relapsed, troubles>>

(* Its exception ends the sweep; the engine goes on without it. *)
RecoveryRaises(w) ==
    /\ pub[w] = "recovering"
    /\ Trouble
    /\ Publisher(w, IF w \in Sweeps THEN "idle" ELSE "recovered")
    /\ list' = [list EXCEPT ![w] = {}]
    /\ UNCHANGED <<postRows, attempts, held, postDirect, postHistory>>

ScanPosts(w, found) ==
    /\ pub[w] = "recovered"
    /\ found \subseteq {p \in ScheduledPost : post[p] = "scheduled"}
    /\ list' = [list EXCEPT ![w] = found]
    /\ held' = [held EXCEPT ![w] = [p \in ScheduledPost |-> IF p \in found THEN post[p] ELSE "absent"]]
    /\ Publisher(w, "working")
    /\ UNCHANGED <<postRows, attempts, postDirect, postHistory, troubles>>

(* The calendar's publish button: publish_post loads the one post, whatever *)
(* its status.                                                              *)
PublishNow(w, p) ==
    /\ w \in Engines
    /\ pub[w] = "idle"
    /\ Exists(p)
    /\ list' = [list EXCEPT ![w] = {p}]
    /\ held' = [held EXCEPT ![w][p] = post[p]]
    /\ Publisher(w, "working")
    /\ UNCHANGED <<postRows, attempts, postDirect, postHistory, troubles>>

EndRun(w) ==
    /\ pub[w] = "working"
    /\ list[w] = {}
    /\ Stop(w)
    /\ UNCHANGED <<postRows, attempts, postDirect, postHistory, troubles>>

-----------------------------------------------------------------------------
(* claim_scheduled_post and what follows it.                               *)

ClaimableBy(w) == IF w \in Sweeps THEN {"scheduled"} ELSE {"scheduled", "draft", "failed"}
ClaimableAnyhow(w, p) == Exists(p) /\ post[p] # "published" \* mutant: a claim takes a claimed post
ClaimUnlessHeld(w, p) == Exists(p) /\ post[p] # "publishing" \* mutant: a claim asks only that nobody has one
CanClaim(w, p) == post[p] \in ClaimableBy(w)

ClaimPost(w) ==
    /\ pub[w] = "working"
    /\ list[w] # {}
    /\ LET p == PostAtHand(w) IN
       /\ CanClaim(w, p)
       /\ SetPost(p, "publishing")
       /\ mark' = [mark EXCEPT ![p] = "fresh"]
    /\ Publisher(w, "claimed")
    /\ UNCHANGED <<attempts, list, held, postDirect, postHistory, troubles>>

PassOver(w) ==
    /\ pub[w] = "working"
    /\ list[w] # {}
    /\ ~CanClaim(w, PostAtHand(w))
    /\ NextPost(w)
    /\ UNCHANGED <<postRows, attempts, postDirect, postHistory, troubles>>

(* release_scheduled_post: conditional on the status, not on whose claim it *)
(* is; it drops the marker of the claim it ends.                            *)
ReleaseTo(p, st) ==
    IF post[p] = "publishing"
    THEN SetPost(p, st) /\ ClearMark(p)
    ELSE UNCHANGED postRows

StatusBefore(w, p) == IF w \in Sweeps THEN "scheduled" ELSE held[w][p]

NoConnectedPage(w) ==
    /\ pub[w] = "claimed"
    /\ LET p == PostAtHand(w) IN
       /\ ReleaseTo(p, StatusBefore(w, p))
       /\ relapsed' = IF StatusBefore(w, p) = "publishing" THEN relapsed \cup {p} ELSE relapsed
    /\ NextPost(w)
    /\ UNCHANGED <<attempts, postDirect, onPage, excused, misread, troubles>>

(* The Graph call: its last POST is accepted, refused (a dict with _error)  *)
(* or gets no answer; each POST before may have been accepted all the same. *)
Called(p, answer, reasons) ==
    \E lost \in 0 .. MaxTroubles - troubles - reasons :
        /\ onPage' = [onPage EXCEPT ![p] = @ + lost + (IF answer = "accepted" THEN 1 ELSE 0)]
        /\ excused' = [excused EXCEPT ![p] = @ + lost + reasons]
        /\ troubles' = troubles + lost + reasons

CallPage(w, answer) ==
    /\ pub[w] = "claimed"
    /\ Called(PostAtHand(w), answer, 0)
    /\ Publisher(w, answer)
    /\ UNCHANGED <<postRows, attempts, list, held, postDirect, misread, relapsed>>

(* The sweep loads the row afresh, and writes nothing if it is gone. *)
SweepSettles(w) ==
    /\ w \in Sweeps /\ pub[w] \in Answers
    /\ LET p == PostAtHand(w) IN
       IF Exists(p)
       THEN SetPost(p, IF pub[w] = "accepted" THEN "published" ELSE "failed") /\ ClearMark(p)
       ELSE UNCHANGED postRows
    /\ NextPost(w)
    /\ UNCHANGED <<attempts, postDirect, postHistory, troubles>>

(* The engine asks only whether there was an answer: a refusal is one.  Its *)
(* commit raises when the row is gone, and its run is over.                 *)
EngineSucceeds(w) ==
    /\ w \in Engines /\ pub[w] \in {"accepted", "rejected"}
    /\ LET p == PostAtHand(w) IN
       /\ attempts' = [attempts EXCEPT ![p] = 0]
       /\ misread' = IF pub[w] = "rejected" THEN misread \cup {p} ELSE misread
       /\ IF Exists(p)
          THEN SetPost(p, "published") /\ ClearMark(p) /\ NextPost(w)
          ELSE UNCHANGED postRows /\ Stop(w)
    /\ UNCHANGED <<postDirect, onPage, excused, relapsed, troubles>>

EngineFails(w) ==
    /\ w \in Engines /\ pub[w] = "lost"
    /\ attempts[PostAtHand(w)] + 1 < MaxAttempts
    /\ attempts' = [attempts EXCEPT ![PostAtHand(w)] = @ + 1]
    /\ ReleaseTo(PostAtHand(w), "scheduled")
    /\ NextPost(w)
    /\ UNCHANGED <<postDirect, postHistory, troubles>>

(* _mark_failed swallows an exception of its commit, as when the row is gone, *)
(* and keeps the attempts.                                                  *)
EngineGivesUp(w) ==
    /\ w \in Engines /\ pub[w] = "lost"
    /\ attempts[PostAtHand(w)] + 1 >= MaxAttempts
    /\ LET p == PostAtHand(w) IN
       \/ /\ Exists(p)
          /\ SetPost(p, "failed") /\ ClearMark(p)
          /\ attempts' = [attempts EXCEPT ![p] = 0]
          /\ UNCHANGED troubles
       \/ /\ IF Exists(p) THEN Trouble ELSE UNCHANGED troubles
          /\ attempts' = [attempts EXCEPT ![p] = @ + 1]
          /\ UNCHANGED postRows
    /\ NextPost(w)
    /\ UNCHANGED <<postDirect, postHistory>>

-----------------------------------------------------------------------------
(* The publish button of the posts page makes no claim.                    *)

CallDirectly(p, answer) ==
    /\ Exists(p) /\ direct[p] = "none"
    /\ Called(p, answer, 1)
    /\ direct' = [direct EXCEPT ![p] = answer]
    /\ seen' = [seen EXCEPT ![p] = post[p]]
    /\ UNCHANGED <<postRows, attempts, pub, list, held, misread, relapsed>>

SettleDirectly(p) ==
    /\ direct[p] # "none"
    /\ direct' = [direct EXCEPT ![p] = "none"]
    /\ seen' = [seen EXCEPT ![p] = "absent"]
    /\ IF direct[p] = "lost" \/ ~Exists(p) \/ seen[p] = "published"
       THEN UNCHANGED <<post, misread>>
       ELSE /\ SetPost(p, "published")
            /\ misread' = IF direct[p] = "rejected" THEN misread \cup {p} ELSE misread
    /\ UNCHANGED <<mark, attempts, pub, list, held, onPage, excused, relapsed, troubles>>

-----------------------------------------------------------------------------
(* Exceptions, dying instances and slow ones.                              *)

\* What the publisher got onto the page it will not record.
Unrecorded(w) ==
    IF pub[w] = "accepted" THEN Excuse(PostAtHand(w)) ELSE UNCHANGED excused

(* The sweep releases the post, unless that raises too: what it held, or,   *)
(* when its claim raised, what another publisher holds.  The engine's       *)
(* exception ends its run and leaves the claim to the recovery.             *)
SweepRaises(w) ==
    /\ w \in Sweeps
    /\ pub[w] \in AtWork \/ (pub[w] = "working" /\ list[w] # {})
    /\ Trouble
    /\ IF pub[w] = "working" /\ Held(PostAtHand(w))
       THEN Excuse(PostAtHand(w))
       ELSE Unrecorded(w)
    /\ ReleaseTo(PostAtHand(w), "scheduled") \/ UNCHANGED postRows
    /\ NextPost(w)
    /\ UNCHANGED <<attempts, postDirect, onPage, misread, relapsed>>

EngineRaises(w) ==
    /\ w \in Engines /\ pub[w] \in AtWork
    /\ Trouble
    /\ Unrecorded(w)
    /\ Stop(w)
    /\ UNCHANGED <<postRows, attempts, postDirect, onPage, misread, relapsed>>

Dies(w) ==
    /\ pub[w] # "idle"
    /\ Trouble
    /\ Unrecorded(w)
    /\ Stop(w)
    /\ attempts' = IF w \in Engines THEN [p \in ScheduledPost |-> 0] ELSE attempts
    /\ UNCHANGED <<postRows, postDirect, onPage, misread, relapsed>>

(* 600 seconds pass over a marker; its publisher may only be slow. *)
MarkAges(p) ==
    /\ mark[p] = "fresh"
    /\ ~Held(p)
    /\ mark' = [mark EXCEPT ![p] = "stale"]
    /\ UNCHANGED <<post, postWork, postHistory, troubles>>

MarkAgesUnderSlow(p) ==
    /\ mark[p] = "fresh"
    /\ Held(p)
    /\ Trouble
    /\ mark' = [mark EXCEPT ![p] = "stale"]
    /\ UNCHANGED <<post, postWork, postHistory>>

-----------------------------------------------------------------------------

Publish(w) ==
    \/ RecoverPosts(w)
    \/ \E found \in SUBSET ScheduledPost : ScanPosts(w, found)
    \/ EndRun(w) \/ ClaimPost(w) \/ PassOver(w) \/ NoConnectedPage(w)
    \/ \E answer \in Answers : CallPage(w, answer)
    \/ SweepSettles(w) \/ EngineSucceeds(w) \/ EngineFails(w) \/ EngineGivesUp(w)

PostsNext ==
    \/ \E p \in ScheduledPost :
        \/ Schedule(p) \/ DeletePost(p) \/ MarkAges(p) \/ MarkAgesUnderSlow(p)
        \/ \E st \in {"draft", "scheduled"} : EditStatus(p, st)
        \/ \E answer \in Answers : CallDirectly(p, answer)
        \/ SettleDirectly(p)
    \/ \E w \in Publishers :
        \/ FindStuck(w) \/ RecoveryRaises(w) \/ Publish(w) \/ SweepRaises(w) \/ EngineRaises(w) \/ Dies(w)
        \/ \E p \in ScheduledPost : PublishNow(w, p)

PostsSpec == PostsInit /\ [][PostsNext]_postVars

(* The heartbeat and the scheduler keep coming, a publisher that runs gets  *)
(* on, and time passes.                                                     *)
SweepStarts == \E w \in Publishers : FindStuck(w)

PostsFairness ==
    /\ WF_postVars(SweepStarts)
    /\ \A w \in Publishers : WF_postVars(Publish(w))
    /\ \A p \in ScheduledPost : WF_postVars(MarkAges(p))

PostsFairSpec == PostsSpec /\ PostsFairness

-----------------------------------------------------------------------------

(* However many sweeps, schedulers and buttons see a post, it is on the     *)
(* page once, and once more only for each reason there is: an answer that   *)
(* was lost or not recorded, a claim that expired under a slow publisher,   *)
(* an editor who scheduled it again or published it past the claim.         *)
OnPageOnce == \A p \in ScheduledPost : onPage[p] <= 1 + excused[p]

(* A claimed post can always be recovered: its marker is there, whoever     *)
(* ended or took over whose claim, and whatever was cleared late.  But the  *)
(* calendar may load a post while it is claimed and release it to that.     *)
ClaimsAreMarked ==
    \A p \in ScheduledPost \ relapsed : post[p] = "publishing" => mark[p] # "none"

(* What is shown as published is on the page, but for a refusal that the    *)
(* calendar or the posts page took for a success.                           *)
PublishedIsOnPage ==
    \A p \in ScheduledPost \ misread : post[p] = "published" => onPage[p] > 0

PostsInv == PostsTypeOK /\ OnPageOnce /\ ClaimsAreMarked /\ PublishedIsOnPage

(* A published post is neither published again nor taken for another,       *)
(* whoever has it on an older list or still has an answer to record: unless *)
(* it is deleted, or there was one of the reasons for a second publication. *)
PublishedStays ==
    [][\A p \in ScheduledPost \ misread' : post[p] = "published" /\ excused'[p] = 0 =>
        /\ post'[p] \in {"published", "deleted"}
        /\ onPage'[p] = onPage[p]]_postVars

(* No post stays 'publishing' for ever (recover_stale_publishing). *)
PostsAreReleased ==
    \A p \in ScheduledPost :
        post[p] = "publishing" ~> post[p] # "publishing" \/ p \in relapsed

(* content_calendar.py:68: a claim is released to a retryable status, which *)
(* is one that somebody claims or recovers.                                 *)
ReleasedIsRetryable ==
    \A p \in ScheduledPost : post[p] = "publishing" => mark[p] # "none"

(* content_calendar.py:301-306: a post is marked published on success; a    *)
(* refusal of Facebook is a failure.                                        *)
PublishedWasAccepted ==
    \A p \in ScheduledPost : post[p] = "published" => onPage[p] > 0

=============================================================================
