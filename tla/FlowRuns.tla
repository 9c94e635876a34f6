------------------------------ MODULE FlowRuns ------------------------------
(***************************************************************************)
(* The runs of a flow for one subscriber (FlowExecution rows).  Inbound     *)
(* messages start a run and advance one that waits for input; a run that    *)
(* is parked on a delay is claimed by a beat.  The row is loaded, walked    *)
(* node by node, and committed after each: what is written is what differs  *)
(* from what was loaded, with no lock between.                              *)
(*                                                                         *)
(* Abstracted: a flow is one path of nodes, of whose branches only a dead   *)
(* end is seen; loops, and the cap of steps that ends them, are left out,   *)
(* and so are matching and texts.  A path does not change while it runs.    *)
(***************************************************************************)
EXTENDS Naturals, Sequences, FiniteSets

CONSTANTS
    Runs,       \* ids of the subscriber's flow_executions
    Flows,      \* the tenant's flows
    Path,       \* the types of a flow's nodes, after its entry trigger
    Hooks,      \* handlers of inbound messages, on any instance
    FlowBeats,  \* sweeps of resume_due_flow_executions
    MaxFaults   \* bound: handlers that die or raise, sends accepted whose answer is lost,
                \* messages that come while a handler is at the run

\* An ask is a message that waits for the reply; a gate, for a keyword.
Kinds == {"message", "ask", "gate", "condition", "action", "delay", "goal"}

ASSUME PathAssumption == Path \in [Flows -> Seq(Kinds)]
ASSUME MaxFaultsAssumption == MaxFaults \in Nat

VARIABLES
    run,        \* status
    of,         \* flow_id
    node,       \* current_node_id: the next node to execute
    parked,     \* resume_at: not set, in the future, or passed
    live,       \* the flows whose status is 'active'
    hand,       \* how far a handler is
    at,         \* the run it has at hand
    pos,        \* the node it is about to execute, or has sent the message of
    memo,       \* what its session holds of the row: node, and whether resume_at is set
    toWake,     \* the runs a beat found due and has not turned to
    told,       \* history: copies of a node's message that reached the subscriber
    unsaved,    \* history: of a run, sends whose answer was lost or whose commit never came
    woken,      \* history: of a run, claims of a delay that had passed
    hasty,      \* history: runs claimed before their delay had passed
    crossed,    \* history: runs a message took while another handler was at them
    dropped,    \* history: runs a handler left where it broke off
    faults

flowRows == <<run, of, node, parked, live>>
flowHands == <<hand, at, pos, memo, toWake>>
flowHistory == <<told, unsaved, woken, hasty, crossed, dropped>>
flowVars == <<flowRows, flowHands, flowHistory, faults>>

Handlers == Hooks \cup FlowBeats
NoRun == "none"
NoFlow == "none"

ASSUME NoneAssumption == NoRun \notin Runs /\ NoFlow \notin Flows

\* The nodes of a run, and the position behind the last.
Nodes(r) == IF of[r] = NoFlow THEN {} ELSE DOMAIN Path[of[r]]
Kind(r, n) == Path[of[r]][n]
EndNode(r) == Cardinality(Nodes(r)) + 1

FlowTypeOK ==
    /\ run \in [Runs -> {"absent", "active", "completed", "failed", "expired"}]
    /\ of \in [Runs -> Flows \cup {NoFlow}]
    /\ node \in [Runs -> Nat]
    /\ parked \in [Runs -> {"no", "later", "due"}]
    /\ live \subseteq Flows
    /\ hand \in [Handlers -> {"idle", "met", "sweeping", "claimed", "walking", "spoke", "refused"}]
    /\ at \in [Handlers -> Runs \cup {NoRun}]
    /\ pos \in [Handlers -> Nat]
    /\ memo \in [Handlers -> Nat \X BOOLEAN]
    /\ toWake \in [FlowBeats -> SUBSET Runs]
    /\ DOMAIN told = Runs /\ \A r \in Runs : node[r] <= EndNode(r) /\ told[r] \in [Nodes(r) -> Nat]
    /\ unsaved \in [Runs -> Nat] /\ woken \in [Runs -> Nat]
    /\ hasty \subseteq Runs /\ crossed \subseteq Runs /\ dropped \subseteq Runs
    /\ faults \in 0 .. MaxFaults

NothingLoaded == <<0, FALSE>>

FlowInit ==
    /\ run = [r \in Runs |-> "absent"]
    /\ of = [r \in Runs |-> NoFlow]
    /\ node = [r \in Runs |-> 0]
    /\ parked = [r \in Runs |-> "no"]
    /\ live = Flows
    /\ hand = [w \in Handlers |-> "idle"]
    /\ at = [w \in Handlers |-> NoRun]
    /\ pos = [w \in Handlers |-> 0]
    /\ memo = [w \in Handlers |-> NothingLoaded]
    /\ toWake = [b \in FlowBeats |-> {}]
    /\ told = [r \in Runs |-> [n \in {} |-> 0]]
    /\ unsaved = [r \in Runs |-> 0] /\ woken = [r \in Runs |-> 0]
    /\ hasty = {} /\ crossed = {} /\ dropped = {}
    /\ faults = 0

Attended(r) == \E w \in Handlers : at[w] = r
ActiveRuns == {r \in Runs : run[r] = "active"}
Enabled(r) == of[r] \in live

\* A commit writes the columns that differ from what was loaded: the status
\* when it was assigned, the node when it moved, resume_at when it is set
\* anew, or cleared after it was loaded set.  The first one inserts the row.
Save(w, status, next, resume) ==
    LET r == at[w] IN
    /\ run' = [run EXCEPT ![r] = IF status # "active" \/ @ = "absent" THEN status ELSE @]
    /\ node' = [node EXCEPT ![r] = IF next # memo[w][1] THEN next ELSE @]
    /\ parked' = [parked EXCEPT ![r] =
                    CASE resume = "later" -> "later"
                      [] resume = "no" /\ memo[w][2] -> "no"
                      [] OTHER -> @]

\* The handler is through with its run; a beat turns to its next one.
Leave(w) ==
    /\ hand' = [hand EXCEPT ![w] = IF w \in FlowBeats THEN "sweeping" ELSE "idle"]
    /\ at' = [at EXCEPT ![w] = NoRun]
    /\ pos' = [pos EXCEPT ![w] = 0]
    /\ memo' = [memo EXCEPT ![w] = NothingLoaded]

\* The handler commits and goes on to the next node.
StepTo(w, next) ==
    /\ Save(w, "active", next, "same")
    /\ hand' = [hand EXCEPT ![w] = "walking"]
    /\ pos' = [pos EXCEPT ![w] = next]
    /\ memo' = [memo EXCEPT ![w] = <<next, @[2]>>]
    /\ UNCHANGED at

Finish(w, status) == Save(w, status, memo[w][1], "no") /\ Leave(w)
Park(w, next, resume) == Save(w, "active", next, resume) /\ Leave(w)

-----------------------------------------------------------------------------
(* handle_incoming_message.  Of several active runs scalar_one_or_none       *)
(* raises, and a parked one is left to the beat: both leave the message to   *)
(* the keyword rules.                                                        *)

WaitsOrSleeps(r) == ActiveRuns = {r} \* mutant: a message advances a parked run
WaitsForInput(r) == ActiveRuns = {r} /\ parked[r] = "no"

MessageFinds(h, r) ==
    /\ hand[h] = "idle"
    /\ WaitsForInput(r)
    /\ hand' = [hand EXCEPT ![h] = "met"]
    /\ at' = [at EXCEPT ![h] = r]
    /\ memo' = [memo EXCEPT ![h] = <<node[r], FALSE>>]
    /\ IF Attended(r)
       THEN faults < MaxFaults /\ faults' = faults + 1 /\ crossed' = crossed \cup {r}
       ELSE UNCHANGED <<faults, crossed>>
    /\ UNCHANGED <<flowRows, pos, toWake, told, unsaved, woken, hasty, dropped>>

(* No active run is seen (that of another handler is inserted by its first   *)
(* commit), and the cooldown of this instance lets it start.                 *)
MessageStarts(h, r) ==
    /\ hand[h] = "idle"
    /\ ActiveRuns = {}
    /\ run[r] = "absent" /\ ~Attended(r)
    /\ \E f \in live :
        /\ of' = [of EXCEPT ![r] = f]
        /\ told' = [told EXCEPT ![r] = [n \in DOMAIN Path[f] |-> 0]]
    /\ hand' = [hand EXCEPT ![h] = "walking"]
    /\ at' = [at EXCEPT ![h] = r]
    /\ pos' = [pos EXCEPT ![h] = 1]
    /\ UNCHANGED <<run, node, parked, live, memo, toWake, unsaved, woken, hasty, crossed, dropped, faults>>

(* advance_on_message *)
Advances(h) ==
    /\ hand[h] = "met"
    /\ LET r == at[h]
           n == memo[h][1]
           gated == n \in Nodes(r) /\ Kind(r, n) = "gate"
           next == IF gated THEN n + 1 ELSE n IN
       \/ ~Enabled(r) /\ Finish(h, "expired")
       \/ Enabled(r) /\ next = EndNode(r) /\ Finish(h, "completed")
       \/ Enabled(r) /\ gated /\ Leave(h) /\ UNCHANGED <<run, node, parked>>
       \/ /\ Enabled(r) /\ next \in Nodes(r)
          /\ hand' = [hand EXCEPT ![h] = "walking"]
          /\ pos' = [pos EXCEPT ![h] = next]
          /\ UNCHANGED <<run, node, parked, at, memo>>
    /\ UNCHANGED <<of, live, toWake, flowHistory, faults>>

-----------------------------------------------------------------------------
(* FlowRuntime._run, one node a step; a message is two, its POST and the     *)
(* commit.                                                                   *)

Stands(w, kinds) == hand[w] = "walking" /\ pos[w] \in Nodes(at[w]) /\ Kind(at[w], pos[w]) \in kinds

Speak(w) ==
    /\ Stands(w, {"message", "ask"})
    /\ \E outcome \in {"spoke", "refused"}, lost \in 0 .. MaxFaults - faults :
        /\ told' = [told EXCEPT ![at[w]][pos[w]] = @ + lost + (IF outcome = "spoke" THEN 1 ELSE 0)]
        /\ unsaved' = [unsaved EXCEPT ![at[w]] = @ + lost]
        /\ faults' = faults + lost
        /\ hand' = [hand EXCEPT ![w] = outcome]
    /\ UNCHANGED <<flowRows, at, pos, memo, toWake, woken, hasty, crossed, dropped>>

Spoken(w, kind) == hand[w] = "spoke" /\ Kind(at[w], pos[w]) = kind

AwaitReply(w) ==
    /\ Spoken(w, "ask")
    /\ Park(w, pos[w] + 1, "no")
    /\ UNCHANGED <<of, live, toWake, flowHistory, faults>>

Proceed(w) ==
    /\ Spoken(w, "message") \/ Stands(w, {"condition", "action"})
    /\ \/ pos[w] + 1 < EndNode(at[w]) /\ StepTo(w, pos[w] + 1)
       \/ pos[w] + 1 = EndNode(at[w]) /\ Finish(w, "completed")
    /\ UNCHANGED <<of, live, toWake, flowHistory, faults>>

(* A send that failed, or an error at a node. *)
FailRun(w) ==
    /\ hand[w] = "refused" \/ Stands(w, {"condition", "action"})
    /\ Finish(w, "failed")
    /\ UNCHANGED <<of, live, toWake, flowHistory, faults>>

AwaitKeyword(w) ==
    /\ Stands(w, {"gate"})
    /\ Park(w, pos[w], "no")
    /\ UNCHANGED <<of, live, toWake, flowHistory, faults>>

ParkOnDelay(w) ==
    /\ Stands(w, {"delay"})
    /\ Park(w, pos[w] + 1, "later")
    /\ UNCHANGED <<of, live, toWake, flowHistory, faults>>

(* A goal, a condition's dead end, or behind the last node. *)
CompleteRun(w) ==
    /\ Stands(w, {"goal", "condition"}) \/ (hand[w] = "walking" /\ pos[w] = EndNode(at[w]))
    /\ Finish(w, "completed")
    /\ UNCHANGED <<of, live, toWake, flowHistory, faults>>

-----------------------------------------------------------------------------
(* resume_due_flow_executions                                               *)

DueOfEnabled(r) == parked[r] = "due" /\ Enabled(r) \* mutant: the sweep leaves out flows that were taken back
Due(r) == parked[r] = "due"

FindSleepers(b) ==
    /\ hand[b] = "idle"
    /\ toWake' = [toWake EXCEPT ![b] = {r \in ActiveRuns : Due(r)}]
    /\ hand' = [hand EXCEPT ![b] = "sweeping"]
    /\ UNCHANGED <<flowRows, at, pos, memo, flowHistory, faults>>

(* The claim asks that resume_at is set, not that it has passed. *)
ClaimAlways(r) == TRUE \* mutant: the claim asks nothing
CanWake(r) == parked[r] # "no"

ClaimSleeper(b, r) ==
    /\ hand[b] = "sweeping" /\ r \in toWake[b]
    /\ toWake' = [toWake EXCEPT ![b] = @ \ {r}]
    /\ IF CanWake(r)
       THEN /\ parked' = [parked EXCEPT ![r] = "no"]
            /\ hand' = [hand EXCEPT ![b] = "claimed"]
            /\ at' = [at EXCEPT ![b] = r]
            /\ IF parked[r] = "later"
               THEN hasty' = hasty \cup {r} /\ UNCHANGED woken
               ELSE woken' = [woken EXCEPT ![r] = @ + 1] /\ UNCHANGED hasty
       ELSE UNCHANGED <<parked, hand, at, woken, hasty>>
    /\ UNCHANGED <<run, of, node, live, pos, memo, told, unsaved, crossed, dropped, faults>>

LoadSleeper(b) ==
    /\ hand[b] = "claimed"
    /\ LET r == at[b] IN
       \/ run[r] # "active" /\ Leave(b) /\ UNCHANGED run
       \/ run[r] = "active" /\ ~Enabled(r) /\ Leave(b) /\ run' = [run EXCEPT ![r] = "expired"]
       \/ /\ run[r] = "active" /\ Enabled(r)
          /\ hand' = [hand EXCEPT ![b] = "walking"]
          /\ pos' = [pos EXCEPT ![b] = node[r]]
          /\ memo' = [memo EXCEPT ![b] = <<node[r], parked[r] # "no">>]
          /\ UNCHANGED <<run, at>>
    /\ UNCHANGED <<of, node, parked, live, toWake, flowHistory, faults>>

EndSweep(b) ==
    /\ hand[b] = "sweeping" /\ toWake[b] = {}
    /\ hand' = [hand EXCEPT ![b] = "idle"]
    /\ UNCHANGED <<flowRows, at, pos, memo, toWake, flowHistory, faults>>

-----------------------------------------------------------------------------

(* A handler dies or raises, or its commit does: what it had not committed   *)
(* is lost.  The exception of one run does not end a beat.                   *)
BreakOff(w) ==
    /\ hand[w] # "idle"
    /\ faults < MaxFaults
    /\ faults' = faults + 1
    /\ unsaved' = IF hand[w] = "spoke" THEN [unsaved EXCEPT ![at[w]] = @ + 1] ELSE unsaved
    /\ dropped' = IF at[w] \in Runs THEN dropped \cup {at[w]} ELSE dropped
    /\ at' = [at EXCEPT ![w] = NoRun]
    /\ pos' = [pos EXCEPT ![w] = 0]
    /\ memo' = [memo EXCEPT ![w] = NothingLoaded]
    /\ \/ hand' = [hand EXCEPT ![w] = "idle"] /\ toWake' = [b \in FlowBeats |-> IF b = w THEN {} ELSE toWake[b]]
       \/ w \in FlowBeats /\ hand' = [hand EXCEPT ![w] = "sweeping"] /\ UNCHANGED toWake
    /\ UNCHANGED <<flowRows, told, woken, hasty, crossed>>

DelayPasses(r) ==
    /\ parked[r] = "later"
    /\ parked' = [parked EXCEPT ![r] = "due"]
    /\ UNCHANGED <<run, of, node, live, flowHands, flowHistory, faults>>

(* The operator takes a flow back, or publishes it again. *)
ToggleFlow(f) ==
    /\ live' = IF f \in live THEN live \ {f} ELSE live \cup {f}
    /\ UNCHANGED <<run, of, node, parked, flowHands, flowHistory, faults>>

Walk(w) ==
    Speak(w) \/ AwaitReply(w) \/ Proceed(w) \/ FailRun(w) \/ AwaitKeyword(w) \/ ParkOnDelay(w) \/ CompleteRun(w)

Sweep(b) == (\E r \in Runs : ClaimSleeper(b, r)) \/ LoadSleeper(b) \/ EndSweep(b) \/ Walk(b)

FlowRunsNext ==
    \/ \E h \in Hooks : Advances(h) \/ Walk(h) \/ \E r \in Runs : MessageFinds(h, r) \/ MessageStarts(h, r)
    \/ \E b \in FlowBeats : FindSleepers(b) \/ Sweep(b)
    \/ \E w \in Handlers : BreakOff(w)
    \/ \E r \in Runs : DelayPasses(r)
    \/ \E f \in Flows : ToggleFlow(f)

FlowRunsSpec == FlowInit /\ [][FlowRunsNext]_flowVars

(* Beats keep coming, one that runs gets on, and time passes. *)
SweepStartsAgain == \E b \in FlowBeats : FindSleepers(b)

FlowFairness ==
    /\ WF_flowVars(SweepStartsAgain)
    /\ \A b \in FlowBeats : WF_flowVars(Sweep(b))
    /\ \A r \in Runs : WF_flowVars(DelayPasses(r))

FlowFairSpec == FlowRunsSpec /\ FlowFairness

-----------------------------------------------------------------------------

(* One handler walks a run at a time: a beat never takes a run another       *)
(* handler is at.  Only a message does, of a run that looks as if it waited  *)
(* for input: walked by the handler of an earlier message, or claimed by a   *)
(* beat.                                                                     *)
OneWalker ==
    \A r \in Runs \ crossed : \A v, w \in Handlers : at[v] = r /\ at[w] = r => v = w

(* A message of the flow is sent once, none before the current node is left  *)
(* out and none behind it is sent ahead, whatever breaks off between two     *)
(* nodes; one more only for a send that could not be recorded.               *)
SpokenOnce ==
    \A r \in Runs \ crossed : \A n \in Nodes(r) :
        /\ told[r][n] <= 1 + unsaved[r]
        /\ n < node[r] /\ Kind(r, n) \in {"message", "ask"} => told[r][n] > 0
        /\ n > node[r] + 1 => told[r][n] = 0

(* Nothing behind a delay is sent unless a beat has claimed the run once for *)
(* each delay before it, after it had passed: a message does not skip one.   *)
(* A beat does that claims on an older scan (hasty).                         *)
DelaysAreWaited ==
    \A r \in Runs \ (hasty \cup crossed) : \A n \in Nodes(r) :
        told[r][n] > 0 => Cardinality({d \in Nodes(r) : d < n /\ Kind(r, d) = "delay"}) <= woken[r]

(* A run that nobody walks and that is not parked waits for input: after a   *)
(* question or before a gate.                                                *)
RestsWhereItWaits ==
    \A r \in ActiveRuns \ (crossed \cup dropped) :
        parked[r] = "no" /\ ~Attended(r) =>
            \/ node[r] \in Nodes(r) /\ Kind(r, node[r]) = "gate"
            \/ node[r] - 1 \in Nodes(r) /\ Kind(r, node[r] - 1) = "ask"

FlowRunsInv == FlowTypeOK /\ OneWalker /\ SpokenOnce /\ DelaysAreWaited /\ RestsWhereItWaits

(* A run that has ended stays ended: no handler that loaded it earlier      *)
(* brings it back, moves it on, or says one of its messages.  And no run     *)
(* falls back to a node it has left.                                         *)
Ended == {"completed", "failed", "expired"}

RunsEnd ==
    [][\A r \in Runs \ crossed' :
        /\ run[r] \in Ended => run'[r] = run[r] /\ node'[r] = node[r] /\ told'[r] = told[r]
        /\ node'[r] >= node[r]]_flowVars

(* Every delay ends: a parked run is claimed in the end, though beats die. *)
DelaysEnd ==
    \A r \in Runs : run[r] = "active" /\ parked[r] # "no" ~> parked[r] = "no" \/ run[r] # "active"

(* flow_engine.py:29: one active run per subscriber at a time. *)
OneActiveRun == Cardinality(ActiveRuns) <= 1

(* flow_engine.py:1562-1565: a racing beat gets rowcount 0 and skips. *)
NeverEarly == hasty = {}

=============================================================================
