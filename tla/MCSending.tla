----------------------------- MODULE MCSending -----------------------------
(***************************************************************************)
(* What the server sends of its own accord: broadcasts, the steps of       *)
(* sequences, scheduled posts.  They share the pattern (claim in the       *)
(* database, call Facebook, record) and no state: one of them is at work   *)
(* in each behaviour.                                                      *)
(***************************************************************************)
EXTENDS Broadcast, SequenceDrip, ScheduledPosts

VARIABLE part   \* which of them is at work in this behaviour

\* The others rest.
Still(p) ==
    /\ part = p /\ UNCHANGED part
    /\ p # "broadcast" => UNCHANGED vars
    /\ p # "drip" => UNCHANGED dripVars
    /\ p # "posts" => UNCHANGED postVars

MCInit ==
    /\ part \in {"broadcast", "drip", "posts"}
    /\ Init /\ DripInit /\ PostsInit

MCNext ==
    \/ Still("broadcast") /\ Next
    \/ Still("drip") /\ DripNext
    \/ Still("posts") /\ PostsNext

mcVars == <<part, vars, dripVars, postVars>>

\* The fairness of each specification, while it is the one at work.
MCFairness ==
    /\ \A w \in Workers : WF_vars(part = "broadcast" /\ Advance(w))
    /\ \A b \in Broadcasts :
        /\ WF_vars(part = "broadcast" /\ \E w \in Workers : ClaimQueued(w, b))
        /\ \A s \in Subscribers :
            /\ WF_vars(part = "broadcast" /\ Post(b, s))
            /\ WF_vars(part = "broadcast" /\ Record(b, s))
    /\ WF_dripVars(part = "drip" /\ BeatStarts)
    /\ \A b \in Beats : WF_dripVars(part = "drip" /\ Drain(b))
    /\ \A e \in Enrolments : WF_dripVars(part = "drip" /\ ClaimAges(e))
    /\ WF_postVars(part = "posts" /\ SweepStarts)
    /\ \A w \in Publishers : WF_postVars(part = "posts" /\ Publish(w))
    /\ \A p \in ScheduledPost : WF_postVars(part = "posts" /\ MarkAges(p))

MCSpec == MCInit /\ [][MCNext]_mcVars /\ MCFairness
-----------------------------------------------------------------------------
\* A queued broadcast leaves the queue, and a fan-out that started ends.
BroadcastsEnd == QueueIsDrained /\ FanOutEnds

\* A claim whose holder died is taken back, that of a step as that of a post.
ClaimsAreFreed == ClaimsAreRecovered /\ PostsAreReleased
=============================================================================
