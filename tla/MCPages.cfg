SPECIFICATION MCSpec
CONSTANTS
  NoThread = NoThread
  Threads = {x, y}
  MaxEntries = 4
  Convs = {c1, c2}
  Operators = {u1, u2}
  Human = {h1}
  Suggested = {g1}
  None = None
  Unset = Unset
  MaxMounts = 2
  Values = {v1, v2}
  MaxPatches = 2
  MaxNotes = 1
  Batch = 2
  MaxMessages = 3
  MaxPosts = 3
  MaxForms = 2
  Accounts = {p, q}
  MaxWizardMounts = 2
  Switches = {"ai", "mention"}
  AiSwitch = "ai"
  Tones = {0, 1, 2}
  NoTone = NoTone
  MaxPuts = 2
  MaxReads = 1
  MaxVisits = 1
INVARIANTS HistoryInv DraftsInv ThreadInv
           FormsInv BehaviorInv
CONSTRAINT OnboardingBound
CHECK_DEADLOCK FALSE
