------------------------------ MODULE MCMessages ------------------------------
(***************************************************************************)
(* What a customer's message sets off: it is filed and answered, and it    *)
(* starts or advances the run of a flow; and the pages on which the        *)
(* merchant writes what is sent then, the editors of flows and sequences.  *)
(* The run of a flow is, step by step, what the answer has as TryFlows;    *)
(* the editors share no state with either.  One of them is at work in each *)
(* behaviour.                                                              *)
(***************************************************************************)
EXTENDS FlowRuns, Conversations, SequenceEditor, FlowGraph

VARIABLE part   \* which of them is at work in this behaviour

\* The others rest.
Still(p) ==
    /\ part = p /\ UNCHANGED part
    /\ p # "flows" => UNCHANGED flowVars
    /\ p # "answers" => UNCHANGED convVars
    /\ p # "sequence" => UNCHANGED editorVars
    /\ p # "graph" => UNCHANGED graphVars

\* Every type of node but one; a path that ends with a question, and one that
\* does not.
MCPath == [long |-> <<"ask", "delay", "condition", "gate", "message", "delay", "ask">>,
           short |-> <<"message", "action">>]

MCInit ==
    /\ part \in {"flows", "answers", "sequence", "graph"}
    /\ FlowInit /\ ConvInit
    /\ part # "answers" => conv = [c \in Ids |-> "none"]
    /\ EditorInit
    /\ GraphInit /\ (part # "graph" => Cardinality(storedGraph.nodes) = 1 /\ storedGraph.edges = <<>>)

MCNext ==
    \/ Still("flows") /\ FlowRunsNext
    \/ Still("answers") /\ ConvNext
    \/ Still("sequence") /\ EditorNext
    \/ Still("graph") /\ GraphNext

mcVars == <<part, flowVars, convVars, editorVars, graphVars>>

\* The fairness of the flows, while they are at work.
MCFairness ==
    /\ WF_flowVars(part = "flows" /\ SweepStartsAgain)
    /\ \A b \in FlowBeats : WF_flowVars(part = "flows" /\ Sweep(b))
    /\ \A r \in Runs : WF_flowVars(part = "flows" /\ DelayPasses(r))

MCSpec == MCInit /\ [][MCNext]_mcVars /\ MCFairness
=============================================================================
