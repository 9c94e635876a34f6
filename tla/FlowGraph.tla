----------------------------- MODULE FlowGraph -----------------------------
(***************************************************************************)
(* The graph of an automation flow and the tree of cards it is edited as:  *)
(* building nodes and edges from the tree, reading a tree from whatever    *)
(* graph the server holds, and the operations on the cards.  A card is     *)
(* reduced to its place, its kind and, for an action, its type; texts,     *)
(* delays and goals are cards of kind MESSAGE.                             *)
(***************************************************************************)
EXTENDS Naturals, Sequences, FiniteSets, SequencesExt

CONSTANTS MaxNodes,   \* bound: cards of a tree, and ids
          MaxLoaded,  \* bound: nodes of the graph that is first loaded
          MaxEdges    \* bound: edges of the graph that is first loaded

ASSUME GraphAssumption == {MaxNodes, MaxLoaded, MaxEdges} \subseteq Nat

VARIABLES storedGraph,   \* server: [nodes, edges] of the flow
          chain,    \* the tree of cards, a sequence of steps
          orphans,  \* ids of loaded nodes the tree does not hold
          source    \* whether stored was "loaded" or "built" by the editor

graphVars == <<storedGraph, chain, orphans, source>>

Trigger == 0
CardIds == 1 .. MaxNodes
Handles == {"", "yes", "no"}
Step(id, kind, type, raw, yes, no) ==
    [id |-> id, kind |-> kind, type |-> type, raw |-> raw, yes |-> yes, no |-> no]
Node(id, kind, type) == [id |-> id, kind |-> kind, type |-> type]
Edge(s, t, h) == [source |-> s, target |-> t, handle |-> h]
-----------------------------------------------------------------------------
\* Building.

EmittedType(s) == IF s.raw THEN "webhook" ELSE s.type

RECURSIVE EmitEdges(_, _, _), EmitNodes(_), StepIds(_), WellFormed(_)

\* One edge into the chain, then one from each card to the next.
EmitEdges(c, entry, handle) ==
    IF c = <<>> THEN <<>>
    ELSE <<Edge(entry, c[1].id, handle)>>
         \o EmitEdges(c[1].yes, c[1].id, "yes") \o EmitEdges(c[1].no, c[1].id, "no")
         \o EmitEdges(Tail(c), c[1].id, "")

EmitNodes(c) ==
    IF c = <<>> THEN {}
    ELSE {Node(c[1].id, c[1].kind, EmittedType(c[1]))}
         \cup EmitNodes(c[1].yes) \cup EmitNodes(c[1].no) \cup EmitNodes(Tail(c))

BuildGraph(c) ==
    [nodes |-> EmitNodes(c) \cup {Node(Trigger, "TRIGGER", "")},
     edges |-> EmitEdges(c, Trigger, "")]

StepIds(c) == UNION {{c[i].id} \cup StepIds(c[i].yes) \cup StepIds(c[i].no) : i \in 1 .. Len(c)}
CountSteps(c) == Cardinality(StepIds(c))
-----------------------------------------------------------------------------
\* Reading.

NodeIds(g) == {n.id : n \in g.nodes}
NodeOf(g, id) == CHOOSE n \in g.nodes : n.id = id

\* The targets of the edges that leave id under a handle in H, in their order.
Targets(g, id, H) ==
    LET out == SelectSeq(g.edges, LAMBDA e : e.source = id /\ e.handle \in H /\ e.target \in NodeIds(g))
    IN  [i \in 1 .. Len(out) |-> out[i].target]

FirstOutgoing(g, id) == Targets(g, id, Handles)

AnyIsYes(g, id) == [yes |-> FirstOutgoing(g, id), no |-> Targets(g, id, {"no"})]   \* mutant

\* A condition goes to its first yes edge, or else its first plain one, and
\* to its first no edge.
ConditionTargets(g, id) ==
    LET yes == Targets(g, id, {"yes"}) IN
    [yes |-> IF yes # <<>> THEN yes ELSE Targets(g, id, {""}),
     no  |-> Targets(g, id, {"no"})]

StepFromNode(n, yes, no) == Step(n.id, n.kind, n.type, n.type = "webhook", yes, no)

RECURSIVE WalkGraph(_, _, _)

\* What is walked from the first of tos: steps, and the nodes visited by then.
\* A walk ends behind a condition, and at a node it was at before.
WalkGraph(g, tos, visited) ==
    IF tos = <<>> \/ tos[1] \in visited \/ NodeOf(g, tos[1]).kind = "TRIGGER"
    THEN [steps |-> <<>>, visited |-> visited]
    ELSE LET n == NodeOf(g, tos[1])
             seen == visited \cup {n.id} IN
         IF n.kind = "CONDITION"
         THEN LET to == ConditionTargets(g, n.id)
                  y  == WalkGraph(g, to.yes, seen)
                  no == WalkGraph(g, to.no, y.visited)
              IN  [steps |-> <<StepFromNode(n, y.steps, no.steps)>>, visited |-> no.visited]
         ELSE LET rest == WalkGraph(g, FirstOutgoing(g, n.id), seen)
              IN  [steps |-> <<StepFromNode(n, <<>>, <<>>)>> \o rest.steps, visited |-> rest.visited]

ParseGraph(g) == WalkGraph(g, FirstOutgoing(g, Trigger), {}).steps

\* Nodes the tree has no card for, with a second trigger among them.
OrphanNodes(g) == NodeIds(g) \ (StepIds(ParseGraph(g)) \cup {Trigger})
-----------------------------------------------------------------------------
\* The operations on a chain.

\* A condition swallows the rest of the chain into its yes branch.
SwallowTail(c, i, s) == SubSeq(c, 1, i) \o <<[s EXCEPT !.yes = SubSeq(c, i + 1, Len(c))]>>
InsertStep(c, i, s) ==
    IF s.kind = "CONDITION" THEN SwallowTail(c, i, s)
    ELSE SubSeq(c, 1, i) \o <<s>> \o SubSeq(c, i + 1, Len(c))

\* The branches of a removed condition are poured into its place.
RemoveCard(c, i) == SubSeq(c, 1, i - 1) \o c[i].yes \o c[i].no \o SubSeq(c, i + 1, Len(c))

MoveStep(c, i, j) == [c EXCEPT ![i] = c[j], ![j] = c[i]]

\* The select of an action offers the plain types; the raw data stays.
PatchCard(c, i) == [c EXCEPT ![i].type = "add_tag"]

NewStep(kind, used) ==
    Step(CHOOSE n \in CardIds \ used : \A k \in CardIds \ used : n <= k, kind, "", FALSE, <<>>, <<>>)

\* What the buttons of one stack make of its chain: an insert point stands
\* behind every card, a condition included, and in an empty stack.
StackEdits(c, used) ==
    {InsertStep(c, i, NewStep(k, used)) :
        i \in IF used = CardIds THEN {} ELSE IF c = <<>> THEN {0} ELSE 1 .. Len(c), k \in {"MESSAGE", "CONDITION"}}
CardEdits(c) ==
    {RemoveCard(c, i) : i \in 1 .. Len(c)}
    \cup {MoveStep(c, i, i + 1) : i \in 1 .. Len(c) - 1}
    \cup {PatchCard(c, i) : i \in {k \in 1 .. Len(c) : c[k].type = "webhook"}}

RECURSIVE TreeEdits(_, _)
\* The stacks of the branches edit the tree through onPatch of their condition.
BranchEdits(c, i, used) ==
    {[c EXCEPT ![i].yes = b] : b \in TreeEdits(c[i].yes, used)}
    \cup {[c EXCEPT ![i].no = b] : b \in TreeEdits(c[i].no, used)}
TreeEdits(c, used) ==
    StackEdits(c, used) \cup CardEdits(c)
    \cup UNION {BranchEdits(c, i, used) : i \in {k \in 1 .. Len(c) : c[k].kind = "CONDITION"}}

\* "A chain ends at a condition" (graph.ts:18-21), and a card shows its data.
WellFormed(c) ==
    \A i \in 1 .. Len(c) :
        /\ c[i].kind = "CONDITION" => i = Len(c) /\ WellFormed(c[i].yes) /\ WellFormed(c[i].no)
        /\ c[i].raw => c[i].type = "webhook"
-----------------------------------------------------------------------------
\* A graph the API was given: every small one.
LoadedNodes(n) == {[i \in 1 .. n |-> k[i]] : k \in [1 .. n -> {"MESSAGE", "WEBHOOK", "CONDITION", "TRIGGER"}]}
LoadedNode(i, k) == IF k = "WEBHOOK" THEN Node(i, "ACTION", "webhook") ELSE Node(i, k, "")
PossibleEdges(kinds) ==
    {Edge(0, t, "") : t \in 1 .. Len(kinds)}
    \cup {Edge(s, t, h) : s \in {i \in 1 .. Len(kinds) : kinds[i] = "CONDITION"},
                          t \in 1 .. Len(kinds), h \in Handles}
    \cup {Edge(s, t, "") : s \in 1 .. Len(kinds), t \in 1 .. Len(kinds)}

GraphInit ==
    /\ \E n \in 0 .. MaxLoaded : \E kinds \in LoadedNodes(n) :
          \E es \in UNION {[1 .. m -> PossibleEdges(kinds)] : m \in 0 .. MaxEdges} :
              storedGraph = [nodes |-> {LoadedNode(i, kinds[i]) : i \in 1 .. n} \cup {Node(Trigger, "TRIGGER", "")},
                        edges |-> es]
    /\ chain = ParseGraph(storedGraph) /\ orphans = OrphanNodes(storedGraph)
    /\ source = "loaded"

\* One click in the studio, and the save that follows it: what is stored is
\* built from the cards, and nothing else.  FlowStudio has the two apart.
SaveTree(c) == storedGraph' = BuildGraph(c) /\ orphans' = {} /\ source' = "built"

EditTree ==
    \E c \in TreeEdits(chain, StepIds(chain) \cup orphans) : chain' = c /\ SaveTree(c)

\* The studio is opened again.
ReopenTree ==
    /\ chain' = ParseGraph(storedGraph) /\ orphans' = OrphanNodes(storedGraph)
    /\ UNCHANGED <<storedGraph, source>>

GraphNext == EditTree \/ ReopenTree

GraphSpec == GraphInit /\ [][GraphNext]_graphVars
-----------------------------------------------------------------------------

\* No card is in the tree twice, and no two share an id with an orphan; the
\* tree that is read has the shape the editor counts on.
GraphTypeOK ==
    /\ storedGraph.edges \in Seq([source : CardIds \cup {Trigger}, target : CardIds, handle : Handles])
    /\ NodeIds(storedGraph) \subseteq CardIds \cup {Trigger} /\ orphans \subseteq CardIds
    /\ source \in {"loaded", "built"}

\* A tree in which every chain ends at its condition comes back from the
\* server as it was saved, card for card; and what is read from any graph, a
\* cyclic or disconnected one included, is such a tree.
RoundTrip ==
    /\ WellFormed(chain) => ParseGraph(BuildGraph(chain)) = chain
    /\ WellFormed(ParseGraph(storedGraph))

\* Removing a condition loses nothing (graph.ts:573): every card of the tree
\* is still there when the saved flow is opened again.
NothingIsLost == StepIds(ParseGraph(BuildGraph(chain))) = StepIds(chain)

\* Stored graph and tree of cards say the same.
GraphInv == GraphTypeOK /\ RoundTrip
=============================================================================
