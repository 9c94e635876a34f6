\* One run of one of two flows, one message at a time, two beats and two
\* faults; one text, delivered at will, two requests and one upset; drafts of
\* two steps and two saves; trees of four cards.
CONSTANTS
    Runs = {e1}
    Flows = {"long", "short"}
    Path <- MCPath
    Hooks = {h1}
    FlowBeats = {f1, f2}
    MaxFaults = 2
    Texts = {t1}
    Requests = {q1, q2}
    MaxUpsets = 1
    Messages = {a}
    NoMessage = NoMessage
    MaxSteps = 2
    MaxSeqs = 2
    MaxIds = 3
    MaxSaves = 2
    MaxNodes = 4
    MaxLoaded = 2
    MaxEdges = 2
SPECIFICATION MCSpec
CONSTRAINT Unblemished
INVARIANTS
    FlowRunsInv
    ConversationsInv
    EditorInv
    GraphInv
PROPERTIES
    RunsEnd
    DelaysEnd
CHECK_DEADLOCK FALSE
