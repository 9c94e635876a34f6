---------------------------- MODULE MessagesProofs ----------------------------
(***************************************************************************)
(* What holds of the messages of a customer, of the runs of a flow and of  *)
(* the page a sequence is written on, for every number of texts, handlers, *)
(* runs, beats, upsets, steps and saves, and every path.                   *)
(***************************************************************************)
EXTENDS FlowRuns, Conversations, SequenceEditor, FiniteSetTheorems, SequenceTheorems, TLAPS

-----------------------------------------------------------------------------
(* Sets that differ in one element at most.                                *)

Has(S, x) == IF x \in S THEN 1 ELSE 0

LEMMA OneMember ==
    ASSUME NEW S, NEW T, NEW x, IsFiniteSet(S), T \ {x} = S \ {x}
    PROVE  IsFiniteSet(T) /\ Cardinality(T) + Has(S, x) = Cardinality(S) + Has(T, x)
           /\ Cardinality(S) \in Nat /\ Cardinality(T) \in Nat
<1>1. CASE x \in S /\ x \notin T
  <2>1. T = S \ {x}
    BY <1>1
  <2>2. IsFiniteSet(T) /\ Cardinality(T) = Cardinality(S) - 1
    BY <1>1, <2>1, FS_RemoveElement
  <2> QED BY <1>1, <2>2, FS_CardinalityType DEF Has
<1>2. CASE x \notin S /\ x \in T
  <2>1. T = S \cup {x}
    BY <1>2
  <2> QED BY <1>2, <2>1, FS_AddElement, FS_CardinalityType DEF Has
<1>3. CASE x \in S <=> x \in T
  <2>1. T = S
    BY <1>3
  <2> QED BY <1>3, <2>1, FS_CardinalityType DEF Has
<1> QED BY <1>1, <1>2, <1>3

-----------------------------------------------------------------------------
(* Conversations.  That a text is answered once is not inductive: it rests *)
(* on every handler that may still answer it being accounted for, and that *)
(* a reply is filed on what its handler knows of the conversation.         *)

\* A handler that may still answer a text, unless it learns better.
Owing(t) == {h \in Requests : about[h] = {In(t)} /\ stage[h] \in {"stored", "free", "matching"}}

\* Those a pause of the conversation the text is in does not stop any more.
Unheld(t) ==
    {h \in Owing(t) : stage[h] = "stored" => to[h] # filed[In(t)]}

Unfiled(t) == IF filed[In(t)] = Nowhere THEN 1 ELSE 0

\* Answers given and answers that may come, of the text as it is filed or of
\* one that is yet to be, are excused but for one; while it is quiet, all are.
Counted(t) ==
    /\ IsFiniteSet(Owing(t))
    /\ answers[t] + Cardinality(Owing(t)) + Unfiled(t) <= 1 + excused[t]
    /\ t \in quiet =>
        /\ filed[In(t)] \in Ids /\ paused[filed[In(t)]]
        /\ answers[t] + Cardinality(Unheld(t)) <= excused[t]

\* A handler has the answer in its hands and is going to file it.
Carries(h, t) ==
    \/ Answering(h, t) /\ At(h, "answered")
    \/ about[h] = {Bot(t)} /\ At(h, "storing")

ReplyKept(t) ==
    Bot(t) \in graph /\ filed[Bot(t)] = Nowhere => upsets > 0 \/ \E h \in Requests : Carries(h, t)

\* What a handler has read of its conversation still holds, or it is gone.
Answerer == {"stored", "free", "flowing", "recording", "matching", "answered"}
KnowsRow(h) ==
    /\ seen[h] = "row" => conv[to[h]] # "none"
    /\ stage[h] = "writing" => seen[h] # "nothing"
    /\ upsets = 0 => seen[h] # "gone" /\ (stage[h] \in Answerer => conv[to[h]] = "named")

CInv ==
    /\ ConvTypeOK
    /\ \A t \in Texts : Counted(t) /\ ReplyKept(t)
    /\ \A h \in Requests : KnowsRow(h)

LEMMA CInvImplies == CInv => ConversationsInv
<1> SUFFICES ASSUME CInv PROVE ConversationsInv
  OBVIOUS
<1>1. ASSUME NEW t \in Texts
      PROVE  /\ answers[t] \in Nat /\ excused[t] \in Nat
             /\ Cardinality(Owing(t)) \in Nat /\ Cardinality(Unheld(t)) \in Nat
  <2>1. IsFiniteSet(Owing(t)) /\ Unheld(t) \subseteq Owing(t)
    BY <1>1 DEF CInv, Counted, Unheld
  <2> QED BY <2>1, <1>1, FS_Subset, FS_CardinalityType DEF CInv, ConvTypeOK
<1>2. AnsweredOnce
  BY <1>1 DEF CInv, Counted, Unfiled, AnsweredOnce
<1>3. AnsweredIsFiled
  BY <1>1 DEF CInv, Counted, Unfiled, AnsweredIsFiled
<1>4. PausedIsQuiet
  BY <1>1 DEF CInv, ConvTypeOK, Counted, PausedIsQuiet
<1>5. RepliesAreFiled
  BY DEF CInv, ReplyKept, Carries, RepliesAreFiled
<1> QED BY <1>2, <1>3, <1>4, <1>5 DEF CInv, ConversationsInv

LEMMA ConvInitCInv == ConvInit => CInv
<1> SUFFICES ASSUME ConvInit PROVE CInv
  OBVIOUS
<1>1. ConvTypeOK
  <2>1. \A t \in Texts : In(t) \in Mids
    BY DEF In, Mids
  <2> QED BY <2>1, MaxUpsetsAssumption DEF ConvInit, ConvTypeOK, Ids, Nowhere
<1>2. ASSUME NEW t \in Texts PROVE Counted(t) /\ ReplyKept(t)
  <2>1. Owing(t) = {}
    BY DEF ConvInit, Owing
  <2>2. IsFiniteSet(Owing(t)) /\ Cardinality(Owing(t)) = 0
    BY <2>1, FS_EmptySet
  <2>3. Bot(t) \notin graph
    BY DEF ConvInit, Bot, In
  <2> QED BY <2>2, <2>3 DEF ConvInit, Counted, Unfiled, ReplyKept
<1>3. \A h \in Requests : KnowsRow(h)
  BY DEF ConvInit, KnowsRow, Answerer
<1> QED BY <1>1, <1>2, <1>3 DEF CInv

LEMMA MidsDiffer ==
    \A t, u \in Texts :
        /\ In(t) \in Mids /\ Bot(t) \in Mids /\ FlowOf(t) \in Mids
        /\ (In(t) = In(u) <=> t = u) /\ (Bot(t) = Bot(u) <=> t = u)
        /\ In(t) # Bot(u) /\ In(t) # FlowOf(u) /\ Bot(t) # FlowOf(u)
BY DEF In, Bot, FlowOf, Mids, Sendings

-----------------------------------------------------------------------------
(* One handler moves.                                                      *)

Stages == {"idle", "looking", "storing", "opening", "writing", "stored",
           "free", "flowing", "recording", "matching", "answered"}

HandsTyped ==
    /\ stage \in [Requests -> Stages]
    /\ about \in [Requests -> SUBSET Mids]
    /\ to \in [Requests -> Ids]
    /\ seen \in [Requests -> {"nothing", "row", "gone"}]

OnlyHand(h) ==
    \A g \in Requests \ {h} :
        stage'[g] = stage[g] /\ about'[g] = about[g] /\ to'[g] = to[g] /\ seen'[g] = seen[g]

Hand(h, where, messages, c, row) ==
    stage'[h] = where /\ about'[h] = messages /\ to'[h] = c /\ seen'[h] = row

LEMMA TakesUpMoves ==
    ASSUME HandsTyped, NEW h \in Requests, NEW where \in Stages, NEW messages \in SUBSET Mids,
           NEW c \in Ids, NEW row \in {"nothing", "row", "gone"}, TakesUp(h, where, messages, c, row)
    PROVE  HandsTyped' /\ OnlyHand(h) /\ Hand(h, where, messages, c, row)
BY DEF HandsTyped, TakesUp, OnlyHand, Hand

LEMMA RestMoves ==
    ASSUME HandsTyped, NEW h \in Requests, Rest(h)
    PROVE  HandsTyped' /\ OnlyHand(h) /\ Hand(h, "idle", {}, "page", "nothing")
<1>1. "idle" \in Stages /\ {} \in SUBSET Mids /\ "page" \in Ids
  BY DEF Stages, Ids
<1> QED BY <1>1, TakesUpMoves DEF Rest

LEMMA GoToMoves ==
    ASSUME HandsTyped, NEW h \in Requests, NEW where \in Stages, GoTo(h, where)
    PROVE  HandsTyped' /\ OnlyHand(h) /\ Hand(h, where, about[h], to[h], seen[h])
BY DEF HandsTyped, GoTo, OnlyHand, Hand

LEMMA HandsAreTyped == ASSUME CInv PROVE HandsTyped
BY DEF CInv, ConvTypeOK, HandsTyped, Stages

\* Of a text that stays where it is, what is answered or may come to be is
\* excused as much.
LEMMA CountKept ==
    ASSUME CInv, NEW h \in Requests, NEW t \in Texts, OnlyHand(h),
           filed'[In(t)] = filed[In(t)], t \in quiet' => t \in quiet /\ paused'[filed[In(t)]],
           answers'[t] \in Nat, excused'[t] \in Nat,
           answers'[t] + Has(Owing(t)', h) + excused[t] <= answers[t] + Has(Owing(t), h) + excused'[t],
           t \in quiet' =>
             answers'[t] + Has(Unheld(t)', h) + excused[t] <= answers[t] + Has(Unheld(t), h) + excused'[t]
    PROVE  Counted(t)'
<1>1. IsFiniteSet(Owing(t)) /\ answers[t] \in Nat /\ excused[t] \in Nat
  BY DEF CInv, ConvTypeOK, Counted
<1>2. Owing(t)' \ {h} = Owing(t) \ {h}
  BY DEF Owing, OnlyHand
<1>3. Unheld(t)' \ {h} = Unheld(t) \ {h}
  BY DEF Unheld, Owing, OnlyHand
<1>4. IsFiniteSet(Unheld(t))
  BY <1>1, FS_Subset DEF Unheld
<1>5. /\ IsFiniteSet(Owing(t)') /\ Cardinality(Owing(t)') + Has(Owing(t), h) = Cardinality(Owing(t)) + Has(Owing(t)', h)
      /\ Cardinality(Owing(t)') \in Nat /\ Cardinality(Owing(t)) \in Nat
  BY <1>1, <1>2, OneMember
<1>6. /\ Cardinality(Unheld(t)') + Has(Unheld(t), h) = Cardinality(Unheld(t)) + Has(Unheld(t)', h)
      /\ Cardinality(Unheld(t)') \in Nat /\ Cardinality(Unheld(t)) \in Nat
  BY <1>3, <1>4, OneMember
<1>7. Has(Owing(t), h) \in {0, 1} /\ Has(Owing(t)', h) \in {0, 1} /\ Has(Unheld(t), h) \in {0, 1} /\ Has(Unheld(t)', h) \in {0, 1}
  BY DEF Has
<1>8. Unfiled(t)' = Unfiled(t) /\ Unfiled(t) \in {0, 1}
  BY DEF Unfiled
<1>9. answers'[t] + Cardinality(Owing(t)') + Unfiled(t)' <= 1 + excused'[t]
  <2>1. answers[t] + Cardinality(Owing(t)) + Unfiled(t) <= 1 + excused[t]
    BY DEF CInv, Counted
  <2> QED BY <1>1, <1>5, <1>7, <1>8, <2>1
<1>10. ASSUME t \in quiet'
       PROVE  /\ filed'[In(t)] \in Ids /\ paused'[filed'[In(t)]]
              /\ answers'[t] + Cardinality(Unheld(t)') <= excused'[t]
  <2>1. filed[In(t)] \in Ids /\ answers[t] + Cardinality(Unheld(t)) <= excused[t]
    BY <1>10 DEF CInv, Counted
  <2> QED BY <1>1, <1>6, <1>7, <1>10, <2>1
<1> QED BY <1>5, <1>9, <1>10 DEF Counted

LEMMA ReplyStays ==
    ASSUME CInv, NEW h \in Requests, NEW t \in Texts, OnlyHand(h), upsets' \in Nat, upsets' >= upsets,
           upsets' = 0 /\ Bot(t) \in graph' /\ filed'[Bot(t)] = Nowhere =>
               /\ Bot(t) \in graph /\ filed[Bot(t)] = Nowhere
               /\ Carries(h, t) => Carries(h, t)'
    PROVE  ReplyKept(t)'
<1> SUFFICES ASSUME Bot(t) \in graph', filed'[Bot(t)] = Nowhere, upsets' = 0
             PROVE  \E g \in Requests : Carries(g, t)'
  BY DEF ReplyKept
<1>1. upsets = 0
  BY MaxUpsetsAssumption DEF CInv, ConvTypeOK
<1>2. PICK g \in Requests : Carries(g, t)
  BY <1>1 DEF CInv, ReplyKept
<1>3. CASE g = h
  BY <1>2, <1>3
<1>4. CASE g # h
  BY <1>2, <1>4 DEF OnlyHand, Carries, Answering, At
<1> QED BY <1>3, <1>4

LEMMA OthersKnow ==
    ASSUME CInv, NEW h \in Requests, OnlyHand(h), upsets' \in Nat, upsets' >= upsets,
           \A c \in Ids : conv'[c] \in {conv[c], "named"}
    PROVE  \A g \in Requests \ {h} : KnowsRow(g)'
<1> SUFFICES ASSUME NEW g \in Requests \ {h} PROVE KnowsRow(g)'
  OBVIOUS
<1>1. upsets \in Nat /\ to[g] \in Ids /\ KnowsRow(g)
  BY MaxUpsetsAssumption DEF CInv, ConvTypeOK
<1> QED BY <1>1 DEF KnowsRow, OnlyHand

\* A handler that only moves, and holds no more of a text than before.
LEMMA HandMoves ==
    ASSUME CInv, NEW h \in Requests, HandsTyped', OnlyHand(h), UNCHANGED <<convRows, graph, convHistory>>,
           upsets' = upsets \/ Upset, KnowsRow(h)',
           \A t \in Texts : h \in Owing(t)' => h \in Owing(t),
           \A t \in quiet : h \in Unheld(t)' => h \in Unheld(t),
           upsets' = 0 => \A t \in Texts :
               filed[Bot(t)] = Nowhere /\ Carries(h, t) => Carries(h, t)'
    PROVE  CInv'
<1>1. upsets' \in 0 .. MaxUpsets /\ upsets' \in Nat /\ upsets' >= upsets
  BY MaxUpsetsAssumption DEF CInv, ConvTypeOK, Upset
<1>2. ConvTypeOK'
  BY <1>1 DEF CInv, ConvTypeOK, HandsTyped, Stages, convRows, convHistory
<1>3. ASSUME NEW t \in Texts PROVE Counted(t)'
  <2>1. Has(Owing(t)', h) <= Has(Owing(t), h) /\ Has(Owing(t)', h) \in Nat /\ Has(Owing(t), h) \in Nat
    BY DEF Has
  <2>2. t \in quiet => Has(Unheld(t)', h) <= Has(Unheld(t), h)
    BY DEF Has
  <2>3. Has(Unheld(t)', h) \in Nat /\ Has(Unheld(t), h) \in Nat
    BY DEF Has
  <2>4. answers[t] \in Nat /\ excused[t] \in Nat /\ answers' = answers /\ excused' = excused /\ quiet' = quiet
    BY DEF CInv, ConvTypeOK, convHistory
  <2>5. t \in quiet => paused[filed[In(t)]]
    BY DEF CInv, Counted
  <2>6. filed' = filed /\ paused' = paused
    BY DEF convRows
  <2>7. answers'[t] + Has(Owing(t)', h) + excused[t] <= answers[t] + Has(Owing(t), h) + excused'[t]
    BY <2>1, <2>4
  <2>8. t \in quiet' => answers'[t] + Has(Unheld(t)', h) + excused[t] <= answers[t] + Has(Unheld(t), h) + excused'[t]
    BY <2>2, <2>3, <2>4
  <2> QED BY <2>4, <2>5, <2>6, <2>7, <2>8, CountKept
<1>4. ASSUME NEW t \in Texts PROVE ReplyKept(t)'
  BY <1>1, ReplyStays DEF convRows
<1>5. \A g \in Requests \ {h} : KnowsRow(g)'
  BY <1>1, OthersKnow DEF convRows, CInv, ConvTypeOK
<1> QED BY <1>2, <1>3, <1>4, <1>5 DEF CInv

-----------------------------------------------------------------------------
(* The moves.                                                              *)

LEMMA CountsTyped == ASSUME CInv PROVE upsets \in Nat /\ upsets \in 0 .. MaxUpsets /\ MaxUpsets \in Nat
BY MaxUpsetsAssumption DEF CInv, ConvTypeOK

LEMMA RestCInv ==
    ASSUME CInv, NEW h \in Requests, Rest(h), UNCHANGED <<convRows, graph, convHistory>>,
           upsets' = upsets \/ Upset,
           upsets' = 0 => \A t \in Texts : filed[Bot(t)] = Nowhere => ~Carries(h, t)
    PROVE  CInv'
<1>1. HandsTyped' /\ OnlyHand(h) /\ Hand(h, "idle", {}, "page", "nothing")
  BY HandsAreTyped, RestMoves
<1>2. KnowsRow(h)'
  BY <1>1 DEF KnowsRow, Hand, Answerer
<1>3. \A t \in Texts : h \notin Owing(t)' /\ h \notin Unheld(t)'
  BY <1>1 DEF Owing, Unheld, Hand
<1>4. \A t \in quiet : t \in Texts
  BY DEF CInv, ConvTypeOK
<1> QED BY <1>1, <1>2, <1>3, <1>4, HandMoves

\* A handler takes up messages it will not answer before it has filed them.
LEMMA TakesUpCInv ==
    ASSUME CInv, NEW h \in Requests, NEW where \in {"looking", "storing", "opening", "writing", "flowing"},
           NEW messages \in SUBSET Mids, NEW c \in Ids, NEW row \in {"nothing", "row"},
           TakesUp(h, where, messages, c, row), UNCHANGED <<convRows, graph, convHistory, upsets>>,
           row = "row" => conv[c] # "none", where = "writing" => row = "row",
           where = "flowing" => (upsets = 0 => conv[c] = "named"),
           \A t \in Texts : filed[Bot(t)] = Nowhere /\ Carries(h, t) => where = "storing" /\ messages = {Bot(t)}
    PROVE  CInv'
<1>1. HandsTyped' /\ OnlyHand(h) /\ Hand(h, where, messages, c, row)
  BY HandsAreTyped, TakesUpMoves DEF Stages
<1>2. KnowsRow(h)'
  BY <1>1 DEF KnowsRow, Hand, Answerer, convRows
<1>3. \A t \in Texts : h \notin Owing(t)' /\ h \notin Unheld(t)'
  BY <1>1 DEF Owing, Unheld, Hand
<1>4. \A t \in quiet : t \in Texts
  BY DEF CInv, ConvTypeOK
<1>5. \A t \in Texts : filed[Bot(t)] = Nowhere /\ Carries(h, t) => Carries(h, t)'
  BY <1>1 DEF Carries, Hand, At
<1> QED BY <1>1, <1>2, <1>3, <1>4, <1>5, HandMoves

LEMMA DeliverCInv ==
    ASSUME CInv, NEW h \in Requests, NEW t \in Texts, NEW c \in Ids, Deliver(h, t, c) PROVE CInv'
<1>1. {In(t)} \in SUBSET Mids
  BY MidsDiffer
<1>2. \A u \in Texts : ~Carries(h, u)
  BY DEF Deliver, Carries, At
<1> QED BY <1>1, <1>2, TakesUpCInv DEF Deliver

LEMMA DeliverEchoCInv ==
    ASSUME CInv, NEW h \in Requests, NEW m \in Mids, DeliverEcho(h, m) PROVE CInv'
<1>1. \A u \in Texts : ~Carries(h, u)
  BY DEF DeliverEcho, Carries, At
<1>2. "page" \in Ids
  BY DEF Ids
<1> QED BY <1>1, <1>2, TakesUpCInv DEF DeliverEcho

LEMMA RowOfIsKnown ==
    ASSUME CInv, NEW c \in Ids PROVE RowOf(c) \in {"nothing", "row"} /\ (RowOf(c) = "row" => conv[c] # "none")
BY DEF RowOf

LEMMA LookUpCInv == ASSUME CInv, NEW h \in Requests, LookUp(h) PROVE CInv'
<1>1. \A u \in Texts : ~Carries(h, u)
  BY DEF LookUp, Carries, At
<1>2. about[h] \in SUBSET Mids /\ to[h] \in Ids /\ Missing(about[h]) \in SUBSET Mids
  BY DEF CInv, ConvTypeOK, Missing
<1>3. RowOf(to[h]) \in {"nothing", "row"} /\ (RowOf(to[h]) = "row" => conv[to[h]] # "none")
  BY <1>2, RowOfIsKnown
<1>4. CASE Missing(about[h]) = {}
  BY <1>1, <1>4, RestCInv DEF LookUp
<1>5. CASE Missing(about[h]) # {}
  BY <1>1, <1>2, <1>3, <1>5, TakesUpCInv DEF LookUp
<1> QED BY <1>4, <1>5

LEMMA OpenThreadCInv == ASSUME CInv, NEW h \in Requests, OpenThread(h) PROVE CInv'
<1>1. \A u \in Texts : ~Carries(h, u)
  BY DEF OpenThread, Carries, At
<1>2. graph \in SUBSET Mids /\ "real" \in Ids
  BY DEF CInv, ConvTypeOK, Ids
<1> QED BY <1>1, <1>2, TakesUpCInv DEF OpenThread

LEMMA ReadThreadCInv == ASSUME CInv, NEW h \in Requests, ReadThread(h) PROVE CInv'
<1>1. \A u \in Texts : ~Carries(h, u)
  BY DEF ReadThread, Carries, At
<1>2. Missing(about[h]) \in SUBSET Mids /\ "real" \in Ids
  BY DEF CInv, ConvTypeOK, Missing, Ids
<1> QED BY <1>1, <1>2, TakesUpCInv, RestCInv DEF ReadThread

LEMMA HandlerDiesCInv == ASSUME CInv, NEW h \in Requests, HandlerDies(h) PROVE CInv'
<1>1. upsets' # 0
  BY CountsTyped DEF HandlerDies, Upset
<1> QED BY <1>1, RestCInv DEF HandlerDies

-----------------------------------------------------------------------------
(* Filing.                                                                 *)

LEMMA RefusedCInv ==
    ASSUME CInv, NEW h \in Requests, stage[h] \in {"storing", "writing"}, Rest(h),
           UNCHANGED <<convRows, graph, convHistory>>, upsets' = upsets \/ Upset,
           upsets' = 0 => ~Accepted(h)
    PROVE  CInv'
<1>1. ASSUME NEW t \in Texts, upsets' = 0, filed[Bot(t)] = Nowhere, Carries(h, t) PROVE FALSE
  <2>1. upsets = 0
    BY <1>1, CountsTyped DEF Upset
  <2>2. about[h] = {Bot(t)} /\ seen[h] # "gone"
    BY <1>1, <2>1 DEF Carries, At, CInv, KnowsRow
  <2>3. Missing(about[h]) = about[h]
    BY <1>1, <2>2 DEF Missing
  <2> QED BY <1>1, <2>2, <2>3 DEF Accepted
<1> QED BY <1>1, RestCInv

\* What a handler files was filed nowhere, and its conversation has a row.
LEMMA FilesCInv ==
    ASSUME CInv, NEW h \in Requests, stage[h] \in {"storing", "writing"}, Accepted(h), Files(h),
           HandsTyped', OnlyHand(h), upsets' = upsets \/ Upset,
           UNCHANGED <<paused, graph, answers, excused>>,
           \/ stage'[h] = "idle" /\ about'[h] = {} /\ seen'[h] = "nothing"
           \/ stage[h] = "storing" /\ stage'[h] = "stored" /\ about'[h] = about[h] /\ to'[h] = to[h] /\ seen'[h] = seen[h]
    PROVE  CInv'
<1>1. upsets' \in 0 .. MaxUpsets /\ upsets' \in Nat /\ upsets' >= upsets /\ (upsets' = 0 => upsets = 0)
  BY CountsTyped DEF Upset
<1>2. about[h] \in SUBSET Mids /\ to[h] \in Ids /\ Nowhere \notin Ids
  BY DEF CInv, ConvTypeOK, Ids, Nowhere
<1>3. \A m \in about[h] : filed[m] = Nowhere /\ filed'[m] = to[h]
  BY <1>2 DEF Accepted, Missing, Files
<1>4. \A m \in Mids \ about[h] : filed'[m] = filed[m]
  BY DEF Files
<1>5. conv'[to[h]] # "none" /\ \A c \in Ids : conv'[c] \in {conv[c], "named"}
  <2>1. CASE stage[h] = "storing"
    BY <1>2, <2>1 DEF Files, At, CInv, ConvTypeOK
  <2>2. CASE stage[h] = "writing"
    <3>1. seen[h] = "row"
      BY <2>2 DEF CInv, ConvTypeOK, KnowsRow, Accepted
    <3> QED BY <1>2, <2>2, <3>1 DEF Files, At, CInv, ConvTypeOK, KnowsRow
  <2> QED BY <2>1, <2>2
<1>6. ConvTypeOK'
  <2>1. conv' \in [Ids -> {"none", "known", "named"}]
    BY DEF Files, CInv, ConvTypeOK
  <2>2. filed' \in [Mids -> Ids \cup {Nowhere}]
    BY <1>2 DEF Files, CInv, ConvTypeOK
  <2>3. \A m \in Mids : filed'[m] \in Ids => conv'[filed'[m]] # "none"
    BY <1>2, <1>3, <1>4, <1>5 DEF CInv, ConvTypeOK
  <2>4. quiet' \subseteq Texts
    BY DEF Files, CInv, ConvTypeOK
  <2> QED BY <1>1, <2>1, <2>2, <2>3, <2>4 DEF CInv, ConvTypeOK, HandsTyped, Stages
<1>7. ASSUME NEW t \in Texts PROVE Counted(t)'
  <2>0. In(t) \in Mids
    BY MidsDiffer
  <2>1. answers[t] \in Nat /\ excused[t] \in Nat /\ answers'[t] = answers[t] /\ excused'[t] = excused[t]
    BY DEF CInv, ConvTypeOK
  <2>2. h \notin Owing(t) /\ h \notin Unheld(t)
    BY DEF Owing, Unheld
  <2>3. CASE In(t) \notin about[h]
    <3>1. h \notin Owing(t)' /\ h \notin Unheld(t)'
      BY <2>3 DEF Owing, Unheld
    <3>2. t \in quiet' => t \in quiet
      BY <2>3 DEF Files
    <3>3. t \in quiet => paused'[filed[In(t)]]
      BY DEF CInv, Counted
    <3>4. Has(Owing(t)', h) = 0 /\ Has(Owing(t), h) = 0 /\ Has(Unheld(t)', h) = 0 /\ Has(Unheld(t), h) = 0
      BY <2>2, <3>1 DEF Has
    <3> QED BY <1>4, <2>0, <2>1, <2>3, <3>2, <3>3, <3>4, CountKept
  <2>4. CASE In(t) \in about[h]
    <3>1. filed[In(t)] = Nowhere /\ filed'[In(t)] = to[h]
      BY <1>3, <2>4
    <3>2. IsFiniteSet(Owing(t)) /\ answers[t] + Cardinality(Owing(t)) + 1 <= 1 + excused[t]
      BY <3>1 DEF CInv, Counted, Unfiled
    <3>3. Owing(t)' \ {h} = Owing(t) \ {h}
      BY DEF Owing, OnlyHand
    <3>4. /\ IsFiniteSet(Owing(t)') /\ Cardinality(Owing(t)') + Has(Owing(t), h) = Cardinality(Owing(t)) + Has(Owing(t)', h)
          /\ Cardinality(Owing(t)') \in Nat /\ Cardinality(Owing(t)) \in Nat
      BY <3>2, <3>3, OneMember
    <3>5. Has(Owing(t), h) = 0 /\ Has(Owing(t)', h) \in {0, 1}
      BY <2>2 DEF Has
    <3>6. Unfiled(t)' = 0
      BY <1>2, <3>1 DEF Unfiled
    <3>7. answers'[t] + Cardinality(Owing(t)') + Unfiled(t)' <= 1 + excused'[t]
      BY <2>1, <3>2, <3>4, <3>5, <3>6
    <3>8. ASSUME t \in quiet'
          PROVE  /\ filed'[In(t)] \in Ids /\ paused'[filed'[In(t)]]
                 /\ answers'[t] + Cardinality(Unheld(t)') <= excused'[t]
      <4>1. t \notin quiet
        BY <1>2, <3>1 DEF CInv, Counted
      <4>2. paused[to[h]]
        BY <3>8, <4>1 DEF Files
      <4>3. h \notin Unheld(t)'
        BY <3>1 DEF Unheld, Owing
      <4>4. Unheld(t)' \subseteq Owing(t)
        BY <4>3, <3>3 DEF Unheld
      <4>5. Cardinality(Unheld(t)') <= Cardinality(Owing(t)) /\ Cardinality(Unheld(t)') \in Nat
        BY <4>4, <3>2, FS_Subset, FS_CardinalityType
      <4> QED BY <1>2, <2>1, <3>1, <3>2, <3>4, <4>2, <4>5
    <3> QED BY <3>4, <3>7, <3>8 DEF Counted
  <2> QED BY <2>3, <2>4
<1>8. ASSUME NEW t \in Texts PROVE ReplyKept(t)'
  <2>1. Bot(t) \in Mids
    BY MidsDiffer
  <2>2. filed'[Bot(t)] = Nowhere => filed[Bot(t)] = Nowhere /\ Bot(t) \notin about[h]
    BY <1>2, <1>3, <1>4, <2>1
  <2>3. filed'[Bot(t)] = Nowhere => ~Carries(h, t)
    BY <2>2 DEF Carries, At
  <2> QED BY <1>1, <2>2, <2>3, ReplyStays
<1>9. KnowsRow(h)'
  <2>1. CASE stage'[h] = "idle"
    BY <2>1 DEF KnowsRow, Answerer
  <2>2. CASE stage'[h] = "stored"
    <3>1. conv'[to'[h]] = "named" /\ seen'[h] = seen[h]
      BY <1>2, <2>2 DEF Files, At, CInv, ConvTypeOK
    <3> QED BY <1>1, <2>2, <3>1 DEF KnowsRow, CInv
  <2> QED BY <2>1, <2>2
<1>10. \A g \in Requests \ {h} : KnowsRow(g)'
  BY <1>1, <1>5, OthersKnow
<1> QED BY <1>6, <1>7, <1>8, <1>9, <1>10 DEF CInv

LEMMA StoreCInv == ASSUME CInv, NEW h \in Requests, Store(h) PROVE CInv'
<1>1. CASE ~Accepted(h)
  BY <1>1, RefusedCInv DEF Store, AfterRefusal, Then, convRows, convHistory
<1>2. CASE Accepted(h) /\ NextIfStored(h) = "idle"
  <2>1. HandsTyped' /\ OnlyHand(h) /\ Hand(h, "idle", {}, "page", "nothing")
    BY <1>2, HandsAreTyped, RestMoves DEF Store, Then
  <2> QED BY <1>2, <2>1, FilesCInv DEF Store, Hand
<1>3. CASE Accepted(h) /\ NextIfStored(h) # "idle"
  <2>1. NextIfStored(h) = "stored" /\ stage[h] = "storing"
    BY <1>3 DEF NextIfStored, Store, Answering
  <2>2. HandsTyped' /\ OnlyHand(h) /\ Hand(h, "stored", about[h], to[h], seen[h])
    BY <1>3, <2>1, HandsAreTyped, GoToMoves DEF Store, Then, Stages
  <2> QED BY <1>3, <2>1, <2>2, FilesCInv DEF Store, Hand
<1> QED BY <1>1, <1>2, <1>3

LEMMA CommitFailsCInv == ASSUME CInv, NEW h \in Requests, CommitFails(h) PROVE CInv'
<1>1. CASE Accepted(h) /\ Files(h)
  <2>1. HandsTyped' /\ OnlyHand(h) /\ Hand(h, "idle", {}, "page", "nothing")
    BY HandsAreTyped, RestMoves DEF CommitFails
  <2> QED BY <1>1, <2>1, FilesCInv DEF CommitFails, Hand
<1>2. CASE UNCHANGED <<conv, filed, quiet>>
  <2>1. upsets' # 0
    BY CountsTyped DEF CommitFails, Upset
  <2> QED BY <1>2, <2>1, RefusedCInv DEF CommitFails, convRows, convHistory
<1> QED BY <1>1, <1>2 DEF CommitFails

-----------------------------------------------------------------------------
(* Answering.                                                              *)

LEMMA ProbeCInv == ASSUME CInv, NEW h \in Requests, Probe(h) PROVE CInv'
<1>1. stage[h] = "stored" /\ \A t \in Texts : ~Carries(h, t)
  BY DEF Probe, At, Carries
<1>2. CASE Rest(h)
  BY <1>1, <1>2, RestCInv DEF Probe
<1>3. CASE ~IsPaused(h) /\ GoTo(h, "free")
  <2>1. HandsTyped' /\ OnlyHand(h) /\ Hand(h, "free", about[h], to[h], seen[h])
    BY <1>3, HandsAreTyped, GoToMoves DEF Stages
  <2>2. KnowsRow(h)'
    BY <1>1, <2>1 DEF Probe, convRows, CInv, KnowsRow, Hand, Answerer
  <2>3. \A t \in Texts : h \in Owing(t)' => h \in Owing(t)
    BY <1>1, <2>1 DEF Owing, Hand
  <2>4. ASSUME NEW t \in quiet, h \in Unheld(t)' PROVE h \in Unheld(t)
    <3>1. t \in Texts /\ paused[filed[In(t)]] /\ ~paused[to[h]]
      BY <1>3 DEF CInv, ConvTypeOK, Counted, IsPaused
    <3>2. h \in Owing(t)'
      BY <2>4 DEF Unheld
    <3> QED BY <2>3, <3>1, <3>2 DEF Unheld
  <2> QED BY <1>1, <2>1, <2>2, <2>3, <2>4, HandMoves DEF Probe
<1> QED BY <1>2, <1>3 DEF Probe

\* What a handler does that has a text at hand it may answer.
LEMMA AnswerStep ==
    ASSUME CInv, NEW h \in Requests, NEW t \in Texts, HandsTyped', OnlyHand(h),
           about[h] = {In(t)}, stage[h] \in {"stored", "free", "recording", "matching"},
           about'[h] \in {{}, {In(t)}}, KnowsRow(h)',
           UNCHANGED <<conv, paused, quiet>>, filed' \in [Mids -> Ids \cup {Nowhere}],
           \A m \in Mids \ {FlowOf(t)} : filed'[m] = filed[m],
           filed'[FlowOf(t)] \in Ids => conv[filed'[FlowOf(t)]] # "none",
           graph' = graph \/ graph' = graph \cup {FlowOf(t)}
             \/ (graph' = graph \cup {Bot(t)} /\ stage'[h] = "answered" /\ about'[h] = {In(t)}),
           upsets' = upsets \/ Upset,
           NEW more \in Nat, NEW excuse \in Nat,
           answers' = [answers EXCEPT ![t] = @ + more], excused' = [excused EXCEPT ![t] = @ + excuse],
           more + Has(Owing(t)', h) <= Has(Owing(t), h) + excuse,
           t \in quiet => more + Has(Unheld(t)', h) <= Has(Unheld(t), h) + excuse
    PROVE  CInv'
<1>1. upsets' \in 0 .. MaxUpsets /\ upsets' \in Nat /\ upsets' >= upsets
  BY CountsTyped DEF Upset
<1>2. answers \in [Texts -> Nat] /\ excused \in [Texts -> Nat] /\ quiet' = quiet /\ conv' = conv /\ paused' = paused
  BY DEF CInv, ConvTypeOK
<1>3. ConvTypeOK'
  <2>1. graph' \subseteq Mids
    BY MidsDiffer DEF CInv, ConvTypeOK
  <2>2. \A m \in Mids : filed'[m] \in Ids => conv'[filed'[m]] # "none"
    BY DEF CInv, ConvTypeOK
  <2>3. answers' \in [Texts -> Nat] /\ excused' \in [Texts -> Nat]
    BY <1>2
  <2> QED BY <1>1, <2>1, <2>2, <2>3 DEF CInv, ConvTypeOK, HandsTyped, Stages
<1>4. ASSUME NEW u \in Texts PROVE Counted(u)'
  <2>1. filed'[In(u)] = filed[In(u)] /\ (u \in quiet => paused[filed[In(u)]])
    BY MidsDiffer DEF CInv, Counted
  <2>2. Has(Owing(u), h) \in Nat /\ Has(Owing(u)', h) \in Nat /\ Has(Unheld(u), h) \in Nat /\ Has(Unheld(u)', h) \in Nat
    BY DEF Has
  <2>3. CASE u = t
    <3>1. answers'[t] = answers[t] + more /\ excused'[t] = excused[t] + excuse
          /\ answers[t] \in Nat /\ excused[t] \in Nat /\ answers'[t] \in Nat /\ excused'[t] \in Nat
      BY <1>2
    <3>2. answers'[t] + Has(Owing(t)', h) + excused[t] <= answers[t] + Has(Owing(t), h) + excused'[t]
      BY <2>2, <2>3, <3>1
    <3>3. t \in quiet => answers'[t] + Has(Unheld(t)', h) + excused[t] <= answers[t] + Has(Unheld(t), h) + excused'[t]
      BY <2>2, <2>3, <3>1
    <3> QED BY <1>2, <2>1, <2>3, <3>1, <3>2, <3>3, CountKept
  <2>4. CASE u # t
    <3>1. h \notin Owing(u) /\ h \notin Owing(u)' /\ h \notin Unheld(u) /\ h \notin Unheld(u)'
      BY <2>4, MidsDiffer DEF Owing, Unheld
    <3>2. Has(Owing(u), h) = 0 /\ Has(Owing(u)', h) = 0 /\ Has(Unheld(u), h) = 0 /\ Has(Unheld(u)', h) = 0
      BY <3>1 DEF Has
    <3>3. answers'[u] = answers[u] /\ excused'[u] = excused[u] /\ answers[u] \in Nat /\ excused[u] \in Nat
      BY <1>2, <2>4
    <3>4. answers'[u] + 0 + excused[u] <= answers[u] + 0 + excused'[u]
      BY <3>3
    <3> QED BY <1>2, <2>1, <3>2, <3>3, <3>4, CountKept
  <2> QED BY <2>3, <2>4
<1>5. ASSUME NEW u \in Texts PROVE ReplyKept(u)'
  <2>1. filed'[Bot(u)] = filed[Bot(u)] /\ ~Carries(h, u)
    BY MidsDiffer DEF Carries, At
  <2>2. CASE Bot(u) \in graph \/ Bot(u) \notin graph'
    BY <1>1, <2>1, <2>2, ReplyStays
  <2>3. CASE Bot(u) \in graph' \ graph
    <3>1. u = t /\ stage'[h] = "answered" /\ about'[h] = {In(t)}
      BY <2>3, MidsDiffer
    <3> QED BY <3>1 DEF ReplyKept, Carries, Answering, At
  <2> QED BY <2>2, <2>3
<1>6. \A g \in Requests \ {h} : KnowsRow(g)'
  BY <1>1, <1>2, OthersKnow
<1> QED BY <1>3, <1>4, <1>5, <1>6 DEF CInv

\* A handler that goes on with its text knows its conversation as before.
LEMMA StillKnows ==
    ASSUME CInv, NEW h \in Requests, NEW where, Hand(h, where, about[h], to[h], seen[h]),
           stage[h] \in Answerer, where # "writing", UNCHANGED conv, upsets' = upsets \/ Upset
    PROVE  KnowsRow(h)'
<1>1. upsets' = 0 => upsets = 0
  BY CountsTyped DEF Upset
<1> QED BY <1>1 DEF CInv, KnowsRow, Hand

LEMMA ProbeFailsCInv ==
    ASSUME CInv, NEW h \in Requests, NEW t \in Texts, ProbeFails(h, t) PROVE CInv'
<1>1. stage[h] = "stored" /\ about[h] = {In(t)}
  BY DEF ProbeFails, At, Answering
<1>2. HandsTyped' /\ OnlyHand(h) /\ Hand(h, "free", about[h], to[h], seen[h])
  BY HandsAreTyped, GoToMoves DEF ProbeFails, Stages
<1>3. KnowsRow(h)'
  BY <1>1, <1>2, StillKnows DEF ProbeFails, convRows, Answerer
<1>4. Has(Owing(t)', h) \in {0, 1} /\ Has(Unheld(t)', h) \in {0, 1} /\ Has(Owing(t), h) \in Nat /\ Has(Unheld(t), h) \in Nat
  BY DEF Has
<1>5. answers' = [answers EXCEPT ![t] = @ + 0]
  BY DEF ProbeFails, CInv, ConvTypeOK
<1>6. filed' \in [Mids -> Ids \cup {Nowhere}] /\ FlowOf(t) \in Mids
      /\ \A m \in Mids : filed'[m] \in Ids => conv[filed'[m]] # "none"
  BY MidsDiffer DEF ProbeFails, convRows, CInv, ConvTypeOK
<1>7. 0 + Has(Owing(t)', h) <= Has(Owing(t), h) + 1 /\ 0 + Has(Unheld(t)', h) <= Has(Unheld(t), h) + 1
  BY <1>4
<1>8. about'[h] = {In(t)}
  BY <1>1, <1>2 DEF Hand
<1> QED BY <1>1, <1>2, <1>3, <1>5, <1>6, <1>7, <1>8, AnswerStep DEF ProbeFails, convRows

LEMMA TryFlowsCInv ==
    ASSUME CInv, NEW h \in Requests, NEW t \in Texts, TryFlows(h, t) PROVE CInv'
<1>1. stage[h] = "free" /\ about[h] = {In(t)} /\ (\A u \in Texts : ~Carries(h, u))
  BY DEF TryFlows, At, Answering, Carries
<1>2. CASE GoTo(h, "matching") /\ UNCHANGED <<graph, answers>>
  <2>1. HandsTyped' /\ OnlyHand(h) /\ Hand(h, "matching", about[h], to[h], seen[h])
    BY <1>2, HandsAreTyped, GoToMoves DEF Stages
  <2>2. KnowsRow(h)'
    BY <1>1, <2>1, StillKnows DEF TryFlows, convRows, Answerer
  <2>3. \A u \in Texts : h \in Owing(u)' => h \in Owing(u)
    BY <1>1, <2>1 DEF Owing, Hand
  <2>4. \A u \in quiet : h \in Unheld(u)' => h \in Unheld(u)
    BY <1>1, <2>1, <2>3 DEF Unheld, Owing, Hand, CInv, ConvTypeOK
  <2> QED BY <1>1, <1>2, <2>1, <2>2, <2>3, <2>4, HandMoves DEF TryFlows, convHistory
<1>3. CASE Rest(h) /\ UNCHANGED <<graph, answers>>
  BY <1>1, <1>3, RestCInv DEF TryFlows, convHistory
<1>4. CASE /\ TakesUp(h, "flowing", about[h], to[h], RowOf(to[h]))
           /\ graph' = graph \cup {FlowOf(t)} /\ answers' = [answers EXCEPT ![t] = @ + 1]
  <2>1. about[h] \in SUBSET Mids /\ to[h] \in Ids /\ "flowing" \in Stages
    BY DEF CInv, ConvTypeOK, Stages
  <2>2. RowOf(to[h]) \in {"nothing", "row"} /\ (RowOf(to[h]) = "row" => conv[to[h]] # "none")
    BY <2>1, RowOfIsKnown
  <2>3. HandsTyped' /\ OnlyHand(h) /\ Hand(h, "flowing", about[h], to[h], RowOf(to[h]))
    BY <1>4, <2>1, <2>2, HandsAreTyped, TakesUpMoves
  <2>4. KnowsRow(h)'
    BY <1>1, <2>2, <2>3 DEF TryFlows, convRows, CInv, KnowsRow, Hand, Answerer
  <2>5. Has(Owing(t), h) = 1 /\ Has(Owing(t)', h) = 0 /\ Has(Unheld(t), h) = 1 /\ Has(Unheld(t)', h) = 0
    BY <1>1, <2>3 DEF Has, Owing, Unheld, Hand
  <2>6. excused' = [excused EXCEPT ![t] = @ + 0]
    BY DEF TryFlows, CInv, ConvTypeOK
  <2>7. filed' \in [Mids -> Ids \cup {Nowhere}] /\ FlowOf(t) \in Mids
        /\ \A m \in Mids : filed'[m] \in Ids => conv[filed'[m]] # "none"
    BY MidsDiffer DEF TryFlows, convRows, CInv, ConvTypeOK
  <2>8. 1 + Has(Owing(t)', h) <= Has(Owing(t), h) + 0 /\ 1 + Has(Unheld(t)', h) <= Has(Unheld(t), h) + 0
    BY <2>5
  <2>9. about'[h] = {In(t)}
    BY <1>1, <2>3 DEF Hand
  <2> QED BY <1>1, <1>4, <2>3, <2>4, <2>6, <2>7, <2>8, <2>9, AnswerStep DEF TryFlows, convRows
<1> QED BY <1>2, <1>3, <1>4 DEF TryFlows

LEMMA LookForFlowEchoCInv ==
    ASSUME CInv, NEW h \in Requests, NEW t \in Texts, LookForFlowEcho(h, t) PROVE CInv'
<1>1. stage[h] = "flowing" /\ \A u \in Texts : ~Carries(h, u)
  BY DEF LookForFlowEcho, At, Carries
<1>2. CASE Missing({FlowOf(t)}) = {}
  BY <1>1, <1>2, RestCInv DEF LookForFlowEcho
<1>3. CASE Missing({FlowOf(t)}) # {}
  <2>1. HandsTyped' /\ OnlyHand(h) /\ Hand(h, "recording", about[h], to[h], seen[h])
    BY <1>3, HandsAreTyped, GoToMoves DEF LookForFlowEcho, Stages
  <2>2. KnowsRow(h)'
    BY <1>1, <2>1, StillKnows DEF LookForFlowEcho, convRows, Answerer
  <2>3. \A u \in Texts : h \notin Owing(u)' /\ h \notin Unheld(u)'
    BY <2>1 DEF Owing, Unheld, Hand
  <2>4. quiet \subseteq Texts
    BY DEF CInv, ConvTypeOK
  <2> QED BY <1>1, <2>1, <2>2, <2>3, <2>4, HandMoves DEF LookForFlowEcho
<1> QED BY <1>2, <1>3

\* What remains of an answer a flow gave: the keyword rules take over, for an excuse.
LEMMA FallsBackCInv ==
    ASSUME CInv, NEW h \in Requests, NEW t \in Texts, stage[h] = "recording", about[h] = {In(t)},
           excused' = [excused EXCEPT ![t] = @ + 1], GoTo(h, "matching"),
           UNCHANGED <<convRows, graph, answers, quiet>>, upsets' = upsets \/ Upset
    PROVE  CInv'
<1>1. HandsTyped' /\ OnlyHand(h) /\ Hand(h, "matching", about[h], to[h], seen[h])
  BY HandsAreTyped, GoToMoves DEF Stages
<1>2. KnowsRow(h)'
  BY <1>1, StillKnows DEF convRows, Answerer
<1>3. Has(Owing(t)', h) \in {0, 1} /\ Has(Unheld(t)', h) \in {0, 1} /\ Has(Owing(t), h) \in Nat /\ Has(Unheld(t), h) \in Nat
  BY DEF Has
<1>4. answers' = [answers EXCEPT ![t] = @ + 0]
  BY DEF CInv, ConvTypeOK
<1>5. filed' \in [Mids -> Ids \cup {Nowhere}] /\ FlowOf(t) \in Mids
      /\ \A m \in Mids : filed'[m] \in Ids => conv[filed'[m]] # "none"
  BY MidsDiffer DEF convRows, CInv, ConvTypeOK
<1>6. 0 + Has(Owing(t)', h) <= Has(Owing(t), h) + 1 /\ 0 + Has(Unheld(t)', h) <= Has(Unheld(t), h) + 1
  BY <1>3
<1>7. about'[h] = {In(t)}
  BY <1>1 DEF Hand
<1> QED BY <1>1, <1>2, <1>4, <1>5, <1>6, <1>7, AnswerStep DEF convRows

LEMMA RecordFlowCInv ==
    ASSUME CInv, NEW h \in Requests, NEW t \in Texts, RecordFlow(h, t) PROVE CInv'
<1>1. stage[h] = "recording" /\ about[h] = {In(t)}
  BY DEF RecordFlow, At, Answering
<1>2. CASE filed[FlowOf(t)] = Nowhere /\ seen[h] = "row"
  <2>1. filed' = [filed EXCEPT ![FlowOf(t)] = to[h]] /\ Rest(h) /\ excused' = excused
    BY <1>2 DEF RecordFlow
  <2>2. HandsTyped' /\ OnlyHand(h) /\ Hand(h, "idle", {}, "page", "nothing")
    BY <2>1, HandsAreTyped, RestMoves
  <2>3. KnowsRow(h)'
    BY <2>2 DEF KnowsRow, Hand, Answerer
  <2>4. FlowOf(t) \in Mids /\ to[h] \in Ids /\ conv[to[h]] # "none"
    BY <1>2, MidsDiffer DEF CInv, ConvTypeOK, KnowsRow
  <2>5. /\ filed' \in [Mids -> Ids \cup {Nowhere}] /\ filed'[FlowOf(t)] = to[h]
        /\ \A m \in Mids \ {FlowOf(t)} : filed'[m] = filed[m]
    BY <2>1, <2>4 DEF CInv, ConvTypeOK
  <2>6. Has(Owing(t)', h) = 0 /\ Has(Unheld(t)', h) = 0 /\ Has(Owing(t), h) \in Nat /\ Has(Unheld(t), h) \in Nat
    BY <2>2 DEF Has, Owing, Unheld, Hand
  <2>7. answers' = [answers EXCEPT ![t] = @ + 0] /\ excused' = [excused EXCEPT ![t] = @ + 0]
    BY <2>1 DEF RecordFlow, CInv, ConvTypeOK
  <2>8. 0 + Has(Owing(t)', h) <= Has(Owing(t), h) + 0 /\ 0 + Has(Unheld(t)', h) <= Has(Unheld(t), h) + 0
    BY <2>6
  <2>9. about'[h] = {}
    BY <2>2 DEF Hand
  <2> QED BY <1>1, <2>2, <2>3, <2>4, <2>5, <2>7, <2>8, <2>9, AnswerStep DEF RecordFlow
<1>3. CASE ~(filed[FlowOf(t)] = Nowhere /\ seen[h] = "row")
  BY <1>1, <1>3, FallsBackCInv DEF RecordFlow, convRows
<1> QED BY <1>2, <1>3

LEMMA RecordFlowFailsCInv ==
    ASSUME CInv, NEW h \in Requests, NEW t \in Texts, RecordFlowFails(h, t) PROVE CInv'
<1>1. stage[h] = "recording" /\ about[h] = {In(t)}
  BY DEF RecordFlowFails, At, Answering
<1> QED BY <1>1, FallsBackCInv DEF RecordFlowFails

LEMMA MatchRulesCInv ==
    ASSUME CInv, NEW h \in Requests, NEW t \in Texts, MatchRules(h, t) PROVE CInv'
<1>1. stage[h] = "matching" /\ about[h] = {In(t)} /\ (\A u \in Texts : ~Carries(h, u))
  BY DEF MatchRules, At, Answering, Carries
<1>2. CASE Rest(h) /\ UNCHANGED <<graph, answers>>
  BY <1>1, <1>2, RestCInv DEF MatchRules, convHistory
<1>3. CASE GoTo(h, "answered") /\ graph' = graph \cup {Bot(t)} /\ answers' = [answers EXCEPT ![t] = @ + 1]
  <2>1. HandsTyped' /\ OnlyHand(h) /\ Hand(h, "answered", about[h], to[h], seen[h])
    BY <1>3, HandsAreTyped, GoToMoves DEF Stages
  <2>2. KnowsRow(h)'
    BY <1>1, <2>1, StillKnows DEF MatchRules, convRows, Answerer
  <2>3. Has(Owing(t), h) = 1 /\ Has(Owing(t)', h) = 0 /\ Has(Unheld(t), h) = 1 /\ Has(Unheld(t)', h) = 0
    BY <1>1, <2>1 DEF Has, Owing, Unheld, Hand
  <2>4. excused' = [excused EXCEPT ![t] = @ + 0]
    BY DEF MatchRules, CInv, ConvTypeOK
  <2>5. filed' \in [Mids -> Ids \cup {Nowhere}] /\ FlowOf(t) \in Mids
        /\ \A m \in Mids : filed'[m] \in Ids => conv[filed'[m]] # "none"
    BY MidsDiffer DEF MatchRules, convRows, CInv, ConvTypeOK
  <2>6. 1 + Has(Owing(t)', h) <= Has(Owing(t), h) + 0 /\ 1 + Has(Unheld(t)', h) <= Has(Unheld(t), h) + 0
    BY <2>3
  <2>7. about'[h] = {In(t)} /\ stage'[h] = "answered"
    BY <1>1, <2>1 DEF Hand
  <2> QED BY <1>1, <1>3, <2>1, <2>2, <2>4, <2>5, <2>6, <2>7, AnswerStep DEF MatchRules, convRows
<1> QED BY <1>2, <1>3 DEF MatchRules

LEMMA AnswerIsLostCInv ==
    ASSUME CInv, NEW h \in Requests, NEW t \in Texts, AnswerIsLost(h, t) PROVE CInv'
<1>1. stage[h] = "matching" /\ about[h] = {In(t)} /\ UNCHANGED <<stage, about, to, seen>>
  BY DEF AnswerIsLost, At, Answering, convHands
<1>2. HandsTyped' /\ OnlyHand(h) /\ Hand(h, "matching", about[h], to[h], seen[h])
  BY <1>1, HandsAreTyped DEF HandsTyped, OnlyHand, Hand
<1>3. KnowsRow(h)'
  BY <1>1, <1>2, StillKnows DEF AnswerIsLost, convRows, Answerer
<1>4. UNCHANGED filed
  BY DEF AnswerIsLost, convRows
<1>5. Has(Owing(t)', h) = Has(Owing(t), h) /\ Has(Unheld(t)', h) = Has(Unheld(t), h)
  BY <1>1, <1>4 DEF Owing, Unheld, Has
<1>6. Has(Owing(t), h) \in Nat /\ Has(Unheld(t), h) \in Nat
  BY DEF Has
<1>7. filed' \in [Mids -> Ids \cup {Nowhere}] /\ FlowOf(t) \in Mids
      /\ \A m \in Mids : filed'[m] \in Ids => conv[filed'[m]] # "none"
  BY <1>4, MidsDiffer DEF CInv, ConvTypeOK
<1>8. 1 + Has(Owing(t)', h) <= Has(Owing(t), h) + 1 /\ 1 + Has(Unheld(t)', h) <= Has(Unheld(t), h) + 1
  BY <1>5, <1>6
<1> QED BY <1>1, <1>2, <1>3, <1>4, <1>7, <1>8, AnswerStep DEF AnswerIsLost, convRows

LEMMA FindConversationCInv ==
    ASSUME CInv, NEW h \in Requests, NEW t \in Texts, FindConversation(h, t) PROVE CInv'
<1>1. stage[h] = "answered" /\ about[h] = {In(t)}
  BY DEF FindConversation, At, Answering
<1>2. \A u \in Texts : Carries(h, u) => u = t
  BY <1>1, MidsDiffer DEF Carries, Answering, At
<1>3. Bot(t) \in Mids
  BY MidsDiffer
<1>4. ASSUME NEW c \in Ids, conv[c] = "named",
             IF Missing({Bot(t)}) = {} THEN Rest(h) ELSE TakesUp(h, "storing", {Bot(t)}, c, "row")
      PROVE  CInv'
  <2>1. CASE Missing({Bot(t)}) = {}
    <3>1. filed[Bot(t)] # Nowhere
      BY <2>1 DEF Missing
    <3> QED BY <1>2, <1>4, <2>1, <3>1, RestCInv DEF FindConversation
  <2>2. CASE Missing({Bot(t)}) # {}
    <3>1. {Bot(t)} \in SUBSET Mids
      BY <1>3
    <3> QED BY <1>2, <1>4, <2>2, <3>1, TakesUpCInv DEF FindConversation
  <2> QED BY <2>1, <2>2
<1>5. CASE (\A c \in Ids : conv[c] # "named") /\ Rest(h)
  <2>1. upsets # 0
    BY <1>1, <1>5 DEF CInv, ConvTypeOK, KnowsRow, Answerer
  <2> QED BY <1>5, <2>1, RestCInv DEF FindConversation
<1> QED BY <1>4, <1>5 DEF FindConversation

-----------------------------------------------------------------------------
(* The inbox: no handler moves.                                            *)

LEMMA SyncListCInv == ASSUME CInv, SyncList PROVE CInv'
<1>1. PICK row \in {"known", "named"} : conv' = [conv EXCEPT !["real"] = row]
  BY DEF SyncList
<1>2. UNCHANGED <<paused, filed, graph, stage, about, to, seen, answers, excused, quiet, upsets>> /\ conv["real"] = "none"
  BY DEF SyncList, convHands, convHistory
<1>3. \A c \in Ids : conv'[c] = conv[c] \/ (conv[c] = "none" /\ conv'[c] # "none")
  BY <1>1, <1>2 DEF CInv, ConvTypeOK
<1>4. ConvTypeOK'
  <2>1. conv' \in [Ids -> {"none", "known", "named"}]
    BY <1>1 DEF CInv, ConvTypeOK
  <2> QED BY <1>2, <1>3, <2>1 DEF CInv, ConvTypeOK
<1>5. ASSUME NEW t \in Texts PROVE Counted(t)' /\ ReplyKept(t)'
  <2>1. Owing(t)' = Owing(t) /\ Unheld(t)' = Unheld(t) /\ Unfiled(t)' = Unfiled(t)
    BY <1>2 DEF Owing, Unheld, Unfiled
  <2>2. \A h \in Requests : Carries(h, t) => Carries(h, t)'
    BY <1>2 DEF Carries, Answering, At
  <2> QED BY <1>2, <2>1, <2>2 DEF CInv, Counted, ReplyKept
<1>6. ASSUME NEW h \in Requests PROVE KnowsRow(h)'
  <2>1. to[h] \in Ids
    BY DEF CInv, ConvTypeOK
  <2> QED BY <1>2, <1>3, <2>1 DEF CInv, KnowsRow
<1> QED BY <1>4, <1>5, <1>6 DEF CInv

LEMMA SetPauseCInv == ASSUME CInv, NEW c \in Ids, SetPause(c) PROVE CInv'
<1>1. /\ UNCHANGED <<conv, filed, graph, stage, about, to, seen, answers, excused, upsets>>
      /\ paused' = [paused EXCEPT ![c] = ~@]
      /\ quiet' = IF paused[c] THEN {t \in quiet : filed[In(t)] # c} ELSE quiet
  BY DEF SetPause, convHands
<1>2. /\ paused' \in [Ids -> BOOLEAN] /\ paused'[c] = ~paused[c]
      /\ \A i \in Ids \ {c} : paused'[i] = paused[i]
  BY <1>1 DEF CInv, ConvTypeOK
<1>3. ConvTypeOK'
  BY <1>1, <1>2 DEF CInv, ConvTypeOK
<1>4. ASSUME NEW t \in Texts PROVE Counted(t)' /\ ReplyKept(t)'
  <2>1. Owing(t)' = Owing(t) /\ Unheld(t)' = Unheld(t) /\ Unfiled(t)' = Unfiled(t)
    BY <1>1 DEF Owing, Unheld, Unfiled
  <2>2. \A h \in Requests : Carries(h, t) => Carries(h, t)'
    BY <1>1 DEF Carries, Answering, At
  <2>3. t \in quiet' => t \in quiet /\ paused'[filed[In(t)]]
    <3>1. t \in quiet => filed[In(t)] \in Ids /\ paused[filed[In(t)]]
      BY DEF CInv, Counted
    <3> QED BY <1>1, <1>2, <3>1
  <2> QED BY <1>1, <2>1, <2>2, <2>3 DEF CInv, Counted, ReplyKept
<1>5. \A h \in Requests : KnowsRow(h)'
  BY <1>1 DEF CInv, KnowsRow
<1> QED BY <1>3, <1>4, <1>5 DEF CInv

LEMMA DeleteConversationCInv == ASSUME CInv, NEW c \in Ids, DeleteConversation(c) PROVE CInv'
<1>1. /\ conv' = [conv EXCEPT ![c] = "none"] /\ paused' = [paused EXCEPT ![c] = FALSE]
      /\ filed' = [m \in Mids |-> IF filed[m] = c THEN Nowhere ELSE filed[m]]
      /\ seen' = [h \in Requests |-> IF to[h] = c /\ seen[h] = "row" THEN "gone" ELSE seen[h]]
      /\ excused' = [t \in Texts |-> IF filed[In(t)] = c THEN excused[t] + 1 ELSE excused[t]]
      /\ quiet' = {t \in quiet : filed[In(t)] # c}
      /\ UNCHANGED <<graph, stage, about, to, answers>>
  BY DEF DeleteConversation
<1>2. upsets' \in 0 .. MaxUpsets /\ upsets' # 0
  BY CountsTyped DEF DeleteConversation, Upset
<1>3. c # Nowhere /\ Nowhere \notin Ids
  BY DEF Ids, Nowhere
<1>4. \A i \in Ids \ {c} : conv'[i] = conv[i] /\ paused'[i] = paused[i]
  BY <1>1 DEF CInv, ConvTypeOK
<1>5. ConvTypeOK'
  <2>1. filed' \in [Mids -> Ids \cup {Nowhere}] /\ seen' \in [Requests -> {"nothing", "row", "gone"}]
    BY <1>1 DEF CInv, ConvTypeOK
  <2>2. conv' \in [Ids -> {"none", "known", "named"}] /\ paused' \in [Ids -> BOOLEAN]
    BY <1>1 DEF CInv, ConvTypeOK
  <2>3. excused' \in [Texts -> Nat]
    BY <1>1 DEF CInv, ConvTypeOK
  <2>4. ASSUME NEW m \in Mids, filed'[m] \in Ids PROVE conv'[filed'[m]] # "none"
    <3>1. filed'[m] = filed[m] /\ filed[m] # c
      BY <1>1, <1>3, <2>4
    <3> QED BY <1>4, <2>4, <3>1 DEF CInv, ConvTypeOK
  <2> QED BY <1>1, <1>2, <2>1, <2>2, <2>3, <2>4 DEF CInv, ConvTypeOK
<1>6. ASSUME NEW t \in Texts PROVE Counted(t)'
  <2>1. In(t) \in Mids
    BY MidsDiffer
  <2>2. Owing(t)' = Owing(t)
    BY <1>1 DEF Owing
  <2>3. IsFiniteSet(Owing(t)) /\ Cardinality(Owing(t)) \in Nat /\ answers[t] \in Nat /\ excused[t] \in Nat
        /\ answers[t] + Cardinality(Owing(t)) + Unfiled(t) <= 1 + excused[t]
    BY FS_CardinalityType DEF CInv, ConvTypeOK, Counted
  <2>4. CASE filed[In(t)] = c
    <3>1. t \notin quiet' /\ excused'[t] = excused[t] + 1 /\ Unfiled(t) = 0 /\ Unfiled(t)' = 1
      BY <1>1, <1>3, <2>1, <2>4 DEF Unfiled
    <3> QED BY <1>1, <2>2, <2>3, <3>1 DEF Counted
  <2>5. CASE filed[In(t)] # c
    <3>1. filed'[In(t)] = filed[In(t)] /\ excused'[t] = excused[t] /\ (t \in quiet' => t \in quiet)
      BY <1>1, <2>1, <2>5
    <3>2. Unheld(t)' = Unheld(t) /\ Unfiled(t)' = Unfiled(t)
      BY <1>1, <2>2, <3>1 DEF Unheld, Unfiled
    <3>3. t \in quiet => filed[In(t)] \in Ids /\ paused'[filed[In(t)]]
      BY <1>4, <2>5 DEF CInv, Counted
    <3> QED BY <1>1, <2>2, <2>3, <3>1, <3>2, <3>3 DEF CInv, Counted
  <2> QED BY <2>4, <2>5
<1>7. \A t \in Texts : ReplyKept(t)'
  BY <1>2 DEF ReplyKept
<1>8. ASSUME NEW h \in Requests PROVE KnowsRow(h)'
  <2>1. seen'[h] = (IF to[h] = c /\ seen[h] = "row" THEN "gone" ELSE seen[h]) /\ to[h] \in Ids /\ KnowsRow(h)
    BY <1>1 DEF CInv, ConvTypeOK
  <2> QED BY <1>1, <1>2, <1>4, <2>1 DEF KnowsRow
<1> QED BY <1>5, <1>6, <1>7, <1>8 DEF CInv

-----------------------------------------------------------------------------

LEMMA ConvNextCInv == CInv /\ [ConvNext]_convVars => CInv'
<1> SUFFICES ASSUME CInv, [ConvNext]_convVars PROVE CInv'
  OBVIOUS
<1>1. ASSUME NEW h \in Requests, NEW m \in Mids, DeliverEcho(h, m) PROVE CInv'
  BY <1>1, DeliverEchoCInv
<1>2. ASSUME NEW h \in Requests, NEW t \in Texts, Answer(h, t) PROVE CInv'
  BY <1>2, ProbeFailsCInv, TryFlowsCInv, LookForFlowEchoCInv, RecordFlowCInv, RecordFlowFailsCInv,
     MatchRulesCInv, AnswerIsLostCInv, FindConversationCInv DEF Answer
<1>3. ASSUME NEW h \in Requests, NEW t \in Texts, NEW c \in Ids, Deliver(h, t, c) PROVE CInv'
  BY <1>3, DeliverCInv
<1>4. ASSUME NEW h \in Requests, LookUp(h) \/ Probe(h) \/ OpenThread(h) \/ ReadThread(h) PROVE CInv'
  BY <1>4, LookUpCInv, ProbeCInv, OpenThreadCInv, ReadThreadCInv
<1>5. ASSUME NEW h \in Requests, Store(h) \/ CommitFails(h) \/ HandlerDies(h) PROVE CInv'
  BY <1>5, StoreCInv, CommitFailsCInv, HandlerDiesCInv
<1>6. ASSUME NEW c \in Ids, SetPause(c) \/ DeleteConversation(c) PROVE CInv'
  BY <1>6, SetPauseCInv, DeleteConversationCInv
<1>7. CASE UNCHANGED convVars
  <2>1. UNCHANGED <<conv, paused, filed, graph, stage, about, to, seen, answers, excused, quiet, upsets>>
    BY <1>7 DEF convVars, convRows, convHands, convHistory
  <2>2. ConvTypeOK'
    BY <2>1 DEF CInv, ConvTypeOK
  <2>3. \A t \in Texts : Counted(t)' /\ ReplyKept(t)'
    BY <2>1 DEF CInv, Counted, Owing, Unheld, Unfiled, ReplyKept, Carries, Answering, At
  <2>4. \A h \in Requests : KnowsRow(h)'
    BY <2>1 DEF CInv, KnowsRow
  <2> QED BY <2>2, <2>3, <2>4 DEF CInv
<1> QED BY <1>1, <1>2, <1>3, <1>4, <1>5, <1>6, <1>7, SyncListCInv DEF ConvNext

(* A text is answered once but for the excuses, what was answered is in the  *)
(* inbox, a paused conversation stays quiet, and a reply is filed.           *)
THEOREM ConversationsHold == ConvSpec => []ConversationsInv
<1>1. ConvInit => CInv
  BY ConvInitCInv
<1>2. CInv /\ [ConvNext]_convVars => CInv'
  BY ConvNextCInv
<1>3. CInv => ConversationsInv
  BY CInvImplies
<1> QED BY <1>1, <1>2, <1>3, PTL DEF ConvSpec

-----------------------------------------------------------------------------
(* Flow runs.  What a run has said and where it rests follow from how far   *)
(* the one handler that walks it has come, and from what that has loaded.   *)

AtRun == {"met", "claimed", "walking", "spoke", "refused"}
OnPath == {"walking", "spoke", "refused"}

DelaysBefore(r, n) == Cardinality({d \in Nodes(r) : d < n /\ Kind(r, d) = "delay"})
Speaks(r, n) == n \in Nodes(r) /\ Kind(r, n) \in {"message", "ask"}

\* What is so of every handler and every run, whoever else is at it.
HandOK(w) ==
    /\ at[w] \in Runs <=> hand[w] \in AtRun
    /\ at[w] \in Runs =>
        /\ of[at[w]] \in Flows
        /\ pos[w] <= EndNode(at[w]) /\ memo[w][1] <= EndNode(at[w])
    /\ hand[w] \in {"spoke", "refused"} => Speaks(at[w], pos[w])
    /\ hand[w] \in {"idle", "sweeping", "claimed"} => memo[w] = NothingLoaded /\ pos[w] = 0

RowOK(r) ==
    /\ run[r] # "absent" => of[r] \in Flows
    /\ run[r] = "absent" => node[r] = 0 /\ parked[r] = "no"

Unfinished(r) == run[r] \in {"absent", "active"}

\* The handler of a run is the only one, and has loaded what is in its row.
Follows(w, r) ==
    /\ \A v \in Handlers : at[v] = r => v = w
    /\ parked[r] = "no" /\ Unfinished(r)
    /\ hand[w] # "claimed" => memo[w][1] = node[r] /\ ~memo[w][2]
    /\ hand[w] \in OnPath =>
        /\ \/ pos[w] = node[r]
           \/ pos[w] = node[r] + 1 /\ (node[r] \in Nodes(r) => Kind(r, node[r]) = "gate")
        /\ hand[w] = "spoke" => told[r][pos[w]] > 0

\* Handlers whose message reached the subscriber and is not recorded.
Unrecorded(r, n) == \E w \in Handlers : at[w] = r /\ hand[w] = "spoke" /\ pos[w] = n

Said(r) ==
    \A n \in Nodes(r) :
        /\ told[r][n] <= 1 + unsaved[r]
        /\ Unfinished(r) /\ n >= node[r] /\ ~Unrecorded(r, n) => told[r][n] <= unsaved[r]
        /\ n < node[r] /\ Kind(r, n) \in {"message", "ask"} => told[r][n] > 0
        /\ n > node[r] + 1 => told[r][n] = 0

Waited(r) ==
    /\ DelaysBefore(r, node[r]) <= woken[r] + (IF parked[r] = "no" THEN 0 ELSE 1)
    /\ \A n \in Nodes(r) : told[r][n] > 0 => DelaysBefore(r, n) <= woken[r]

Rests(r) ==
    run[r] = "active" /\ parked[r] = "no" /\ ~Attended(r) =>
        \/ node[r] \in Nodes(r) /\ Kind(r, node[r]) = "gate"
        \/ node[r] - 1 \in Nodes(r) /\ Kind(r, node[r] - 1) = "ask"

RunOK(r) ==
    /\ RowOK(r)
    /\ r \notin crossed =>
        /\ \A w \in Handlers : at[w] = r => Follows(w, r)
        /\ parked[r] # "no" => run[r] = "active"
        /\ Said(r)
        /\ r \notin hasty => Waited(r)
        /\ r \notin dropped => Rests(r)

FInv ==
    /\ FlowTypeOK
    /\ \A w \in Handlers : HandOK(w)
    /\ \A r \in Runs : RunOK(r)

LEMMA FInvImplies == FInv => FlowRunsInv
<1> SUFFICES ASSUME FInv PROVE FlowRunsInv
  OBVIOUS
<1>1. OneWalker
  BY DEF FInv, RunOK, Follows, OneWalker
<1>2. SpokenOnce
  BY DEF FInv, RunOK, Said, SpokenOnce
<1>3. DelaysAreWaited
  BY DEF FInv, RunOK, Waited, DelaysBefore, DelaysAreWaited
<1>4. RestsWhereItWaits
  BY DEF FInv, RunOK, Rests, ActiveRuns, RestsWhereItWaits
<1> QED BY <1>1, <1>2, <1>3, <1>4 DEF FInv, FlowRunsInv

-----------------------------------------------------------------------------
(* The nodes of a flow, and the delays before one.                         *)

LEMMA PathOfFlow ==
    ASSUME NEW f \in Flows
    PROVE  /\ f # NoFlow /\ Len(Path[f]) \in Nat /\ DOMAIN Path[f] = 1 .. Len(Path[f])
           /\ IsFiniteSet(DOMAIN Path[f]) /\ Cardinality(DOMAIN Path[f]) = Len(Path[f])
<1>1. Path[f] \in Seq(Kinds)
  BY PathAssumption
<1>2. Len(Path[f]) \in Nat /\ DOMAIN Path[f] = 1 .. Len(Path[f])
  BY <1>1
<1> QED BY <1>2, FS_Interval, NoneAssumption

LEMMA PathNodes ==
    ASSUME NEW r, of[r] \in Flows
    PROVE  /\ Len(Path[of[r]]) \in Nat
           /\ Nodes(r) = 1 .. Len(Path[of[r]]) /\ EndNode(r) = Len(Path[of[r]]) + 1
           /\ IsFiniteSet(Nodes(r))
BY PathOfFlow DEF Nodes, EndNode

LEMMA NoNodes ==
    ASSUME NEW r, of[r] = NoFlow PROVE Nodes(r) = {} /\ EndNode(r) = 1
<1>1. Nodes(r) = {}
  BY DEF Nodes
<1> QED BY <1>1, FS_EmptySet DEF EndNode

LEMMA NodesAreFinite ==
    ASSUME FlowTypeOK, NEW r \in Runs
    PROVE  IsFiniteSet(Nodes(r)) /\ Nodes(r) \subseteq Nat \ {0} /\ EndNode(r) \in Nat /\ EndNode(r) >= 1
           /\ \A n \in Nodes(r) : n + 1 <= EndNode(r)
<1>1. CASE of[r] \in Flows
  BY <1>1, PathNodes
<1>2. CASE of[r] = NoFlow
  BY <1>2, NoNodes, FS_EmptySet
<1> QED BY <1>1, <1>2 DEF FlowTypeOK

LEMMA DelaysType ==
    ASSUME FlowTypeOK, NEW r \in Runs, NEW n PROVE DelaysBefore(r, n) \in Nat
<1>1. IsFiniteSet({d \in Nodes(r) : d < n /\ Kind(r, d) = "delay"})
  BY NodesAreFinite, FS_Subset
<1> QED BY <1>1, FS_CardinalityType DEF DelaysBefore

LEMMA DelaysNext ==
    ASSUME FlowTypeOK, NEW r \in Runs, NEW n \in Nat
    PROVE  DelaysBefore(r, n + 1) =
             DelaysBefore(r, n) + (IF n \in Nodes(r) /\ Kind(r, n) = "delay" THEN 1 ELSE 0)
<1> DEFINE D(m) == {d \in Nodes(r) : d < m /\ Kind(r, d) = "delay"}
<1>1. IsFiniteSet(D(n)) /\ IsFiniteSet(D(n + 1)) /\ Nodes(r) \subseteq Nat
  BY NodesAreFinite, FS_Subset
<1>2. CASE n \in Nodes(r) /\ Kind(r, n) = "delay"
  <2>1. D(n + 1) = D(n) \cup {n} /\ n \notin D(n)
    BY <1>1, <1>2
  <2>2. Cardinality(D(n + 1)) = Cardinality(D(n)) + 1
    BY <1>1, <2>1, FS_AddElement
  <2> QED BY <1>2, <2>2 DEF DelaysBefore
<1>3. CASE ~(n \in Nodes(r) /\ Kind(r, n) = "delay")
  <2>1. D(n + 1) = D(n)
    BY <1>1, <1>3
  <2>2. Cardinality(D(n)) \in Nat
    BY <1>1, FS_CardinalityType
  <2> QED BY <1>3, <2>1, <2>2 DEF DelaysBefore
<1> QED BY <1>2, <1>3

LEMMA DelaysOfNone ==
    ASSUME FlowTypeOK, NEW r \in Runs PROVE DelaysBefore(r, 0) = 0 /\ DelaysBefore(r, 1) = 0
<1>1. {d \in Nodes(r) : d < 0 /\ Kind(r, d) = "delay"} = {} /\ {d \in Nodes(r) : d < 1 /\ Kind(r, d) = "delay"} = {}
  BY NodesAreFinite
<1> QED BY <1>1, FS_EmptySet DEF DelaysBefore

LEMMA SamePath ==
    ASSUME NEW r, of'[r] = of[r]
    PROVE  /\ Nodes(r)' = Nodes(r) /\ EndNode(r)' = EndNode(r)
           /\ \A n : Kind(r, n)' = Kind(r, n)
           /\ \A n : DelaysBefore(r, n)' = DelaysBefore(r, n)
           /\ \A n : Speaks(r, n)' <=> Speaks(r, n)
<1>1. Nodes(r)' = Nodes(r) /\ \A n : Kind(r, n)' = Kind(r, n)
  BY DEF Nodes, Kind
<1> QED BY <1>1 DEF EndNode, DelaysBefore, Speaks

-----------------------------------------------------------------------------
(* A step of some handlers at some runs leaves the others alone.           *)

SameRow(r) ==
    /\ run'[r] = run[r] /\ of'[r] = of[r] /\ node'[r] = node[r] /\ parked'[r] = parked[r]
    /\ told'[r] = told[r] /\ unsaved'[r] = unsaved[r] /\ woken'[r] = woken[r]

SameHand(w) == hand'[w] = hand[w] /\ at'[w] = at[w] /\ pos'[w] = pos[w] /\ memo'[w] = memo[w]

Frame(W, X) ==
    /\ \A r \in Runs \ X : SameRow(r)
    /\ \A v \in Handlers \ W : SameHand(v)
    /\ crossed \subseteq crossed' /\ hasty \subseteq hasty' /\ dropped \subseteq dropped'
    /\ \A w \in W : at[w] \notin Runs \ X /\ at'[w] \notin Runs \ X
    /\ \A x \in X : of'[x] = of[x] \/ ~Attended(x)

LEMMA FlowStep ==
    ASSUME FInv, NEW W \in SUBSET Handlers, NEW X \in SUBSET Runs, Frame(W, X), FlowTypeOK',
           \A w \in W : HandOK(w)', \A x \in X : RunOK(x)'
    PROVE  FInv'
<1>1. ASSUME NEW v \in Handlers \ W PROVE HandOK(v)'
  <2>1. HandOK(v) /\ SameHand(v)
    BY DEF FInv, Frame
  <2>2. CASE at[v] \in Runs
    <3>1. of'[at[v]] = of[at[v]]
      BY <2>2 DEF Frame, SameRow, Attended
    <3> QED BY <2>1, <3>1, SamePath DEF HandOK, SameHand
  <2>3. CASE at[v] \notin Runs
    BY <2>1, <2>3 DEF HandOK, SameHand, AtRun
  <2> QED BY <2>2, <2>3
<1>2. ASSUME NEW r \in Runs \ X PROVE RunOK(r)'
  <2>1. SameRow(r) /\ RunOK(r)
    BY DEF FInv, Frame
  <2>2. \A v \in Handlers : at'[v] = r \/ at[v] = r => SameHand(v)
    BY DEF Frame
  <2>3. \A n : Unrecorded(r, n)' <=> Unrecorded(r, n)
    BY <2>2 DEF Unrecorded, SameHand
  <2>4. Attended(r)' <=> Attended(r)
    BY <2>2 DEF Attended, SameHand
  <2>5. \A v \in Handlers : Follows(v, r) /\ at'[v] = r => Follows(v, r)'
    BY <2>1, <2>2, SamePath DEF SameRow, SameHand, Follows, Unfinished
  <2>6. \A v \in Handlers : at'[v] = r => at[v] = r
    BY <2>2 DEF SameHand
  <2>7. Said(r) => Said(r)'
    BY <2>1, <2>3, SamePath DEF SameRow, Said, Unfinished
  <2>8. Waited(r) => Waited(r)'
    BY <2>1, SamePath DEF SameRow, Waited
  <2>9. Rests(r) => Rests(r)'
    BY <2>1, <2>4, SamePath DEF SameRow, Rests
  <2>10. r \notin crossed' => r \notin crossed
    BY DEF Frame
  <2>11. r \notin hasty' => r \notin hasty
    BY DEF Frame
  <2>12. r \notin dropped' => r \notin dropped
    BY DEF Frame
  <2>13. RowOK(r)'
    BY <2>1 DEF RunOK, RowOK, SameRow
  <2> QED BY <2>1, <2>5, <2>6, <2>7, <2>8, <2>9, <2>10, <2>11, <2>12, <2>13 DEF RunOK, SameRow
<1> QED BY <1>1, <1>2 DEF FInv

LEMMA FlowInitFInv == FlowInit => FInv
<1> SUFFICES ASSUME FlowInit PROVE FInv
  OBVIOUS
<1>1. ASSUME NEW r \in Runs
      PROVE  /\ of[r] = NoFlow /\ Nodes(r) = {} /\ EndNode(r) = 1 /\ told[r] = [n \in {} |-> 0]
             /\ run[r] = "absent" /\ node[r] = 0 /\ parked[r] = "no" /\ woken[r] = 0
  BY NoNodes DEF FlowInit
<1>2. NoRun \notin Runs
  BY NoneAssumption
<1>3. FlowTypeOK
  <2>1. \A r \in Runs : told[r] \in [Nodes(r) -> Nat]
    BY <1>1
  <2>2. DOMAIN told = Runs /\ faults \in 0 .. MaxFaults
    BY MaxFaultsAssumption DEF FlowInit
  <2>3. memo \in [Handlers -> Nat \X BOOLEAN]
    BY DEF FlowInit, NothingLoaded
  <2> QED BY <1>1, <2>1, <2>2, <2>3 DEF FlowInit, FlowTypeOK
<1>4. \A w \in Handlers : HandOK(w)
  BY <1>2 DEF FlowInit, HandOK, AtRun, NothingLoaded
<1>5. ASSUME NEW r \in Runs PROVE RunOK(r)
  <2>1. RowOK(r) /\ Said(r) /\ Rests(r)
    BY <1>1 DEF RowOK, Said, Rests
  <2>2. Waited(r)
    BY <1>1, <1>3, DelaysOfNone DEF Waited
  <2>3. \A w \in Handlers : at[w] # r
    BY <1>2 DEF FlowInit
  <2> QED BY <1>1, <2>1, <2>2, <2>3 DEF RunOK
<1> QED BY <1>3, <1>4, <1>5 DEF FInv

-----------------------------------------------------------------------------
(* What a commit writes, and where it leaves the handler.                  *)

Statuses == {"absent", "active", "completed", "failed", "expired"}

FlowHandsTyped ==
    /\ hand \in [Handlers -> {"idle", "met", "sweeping", "claimed", "walking", "spoke", "refused"}]
    /\ at \in [Handlers -> Runs \cup {NoRun}]
    /\ pos \in [Handlers -> Nat]
    /\ memo \in [Handlers -> Nat \X BOOLEAN]

LEMMA SaveIsOfOne ==
    ASSUME FlowTypeOK, NEW w \in Handlers, NEW x \in Runs, at[w] = x, UNCHANGED of,
           NEW status \in Statuses, NEW next \in Nat, next <= EndNode(x), NEW resume \in {"no", "later", "same"},
           Save(w, status, next, resume)
    PROVE  /\ run' \in [Runs -> Statuses] /\ node' \in [Runs -> Nat]
           /\ parked' \in [Runs -> {"no", "later", "due"}]
           /\ \A r \in Runs : node'[r] <= EndNode(r)
           /\ \A r \in Runs \ {x} : run'[r] = run[r] /\ node'[r] = node[r] /\ parked'[r] = parked[r]
           /\ run'[x] = IF status # "active" \/ run[x] = "absent" THEN status ELSE run[x]
           /\ memo[w][1] = node[x] => node'[x] = next
           /\ parked[x] = "no" => parked'[x] = IF resume = "later" THEN "later" ELSE "no"
<1>1. /\ run' = [run EXCEPT ![x] = IF status # "active" \/ @ = "absent" THEN status ELSE @]
      /\ node' = [node EXCEPT ![x] = IF next # memo[w][1] THEN next ELSE @]
      /\ parked' = [parked EXCEPT ![x] = CASE resume = "later" -> "later"
                                           [] resume = "no" /\ memo[w][2] -> "no"
                                           [] OTHER -> @]
  BY Zenon DEF Save
<1>2. run \in [Runs -> Statuses] /\ node \in [Runs -> Nat] /\ parked \in [Runs -> {"no", "later", "due"}]
      /\ \A r \in Runs : node[r] <= EndNode(r)
  BY DEF FlowTypeOK, Statuses
<1>3. run' \in [Runs -> Statuses]
      /\ run'[x] = (IF status # "active" \/ run[x] = "absent" THEN status ELSE run[x])
      /\ \A r \in Runs \ {x} : run'[r] = run[r]
  BY <1>1, <1>2
<1>4. node' \in [Runs -> Nat] /\ node'[x] \in {next, node[x]} /\ (memo[w][1] = node[x] => node'[x] = next)
      /\ \A r \in Runs \ {x} : node'[r] = node[r]
  BY <1>1, <1>2
<1>5. parked' \in [Runs -> {"no", "later", "due"}]
      /\ (parked[x] = "no" => parked'[x] = IF resume = "later" THEN "later" ELSE "no")
      /\ \A r \in Runs \ {x} : parked'[r] = parked[r]
  BY <1>1, <1>2
<1> QED BY <1>2, <1>3, <1>4, <1>5

Moves(w, where, r, n) == hand'[w] = where /\ at'[w] = r /\ pos'[w] = n

OthersStay(w) == \A v \in Handlers \ {w} : SameHand(v)

LEMMA LeaveIsOfOne ==
    ASSUME FlowTypeOK, NEW w \in Handlers, Leave(w)
    PROVE  /\ FlowHandsTyped' /\ OthersStay(w)
           /\ at'[w] = NoRun /\ hand'[w] \in {"idle", "sweeping"} /\ memo'[w] = NothingLoaded /\ pos'[w] = 0
<1>1. NothingLoaded \in Nat \X BOOLEAN
  BY DEF NothingLoaded
<1>2. hand' = [hand EXCEPT ![w] = IF w \in FlowBeats THEN "sweeping" ELSE "idle"]
      /\ at' = [at EXCEPT ![w] = NoRun] /\ pos' = [pos EXCEPT ![w] = 0] /\ memo' = [memo EXCEPT ![w] = NothingLoaded]
  BY DEF Leave
<1>3. hand' \in [Handlers -> {"idle", "met", "sweeping", "claimed", "walking", "spoke", "refused"}]
      /\ at' \in [Handlers -> Runs \cup {NoRun}] /\ pos' \in [Handlers -> Nat]
      /\ at'[w] = NoRun /\ hand'[w] \in {"idle", "sweeping"} /\ pos'[w] = 0
  BY <1>2 DEF FlowTypeOK
<1>4. memo' \in [Handlers -> Nat \X BOOLEAN] /\ memo'[w] = NothingLoaded
  BY <1>1, <1>2 DEF FlowTypeOK
<1>5. OthersStay(w)
  BY <1>2 DEF FlowTypeOK, OthersStay, SameHand
<1> QED BY <1>3, <1>4, <1>5 DEF FlowHandsTyped

LEMMA GoneOK ==
    ASSUME NEW w \in Handlers, at'[w] = NoRun, hand'[w] \in {"idle", "sweeping"}, memo'[w] = NothingLoaded,
           pos'[w] = 0
    PROVE  HandOK(w)'
BY NoneAssumption DEF HandOK, AtRun

\* Between the node that is written and the one a handler is at there is but a gate.
LEMMA Passed ==
    ASSUME FInv, NEW w \in Handlers, NEW x \in Runs, at[w] = x, x \notin crossed, hand[w] \in OnPath
    PROVE  /\ pos[w] \in Nat /\ node[x] \in Nat /\ node[x] <= pos[w] /\ pos[w] <= node[x] + 1
           /\ DelaysBefore(x, pos[w]) = DelaysBefore(x, node[x])
           /\ \A n \in Nodes(x) : node[x] <= n /\ n < pos[w] => Kind(x, n) = "gate"
           /\ memo[w][1] = node[x] /\ ~memo[w][2] /\ parked[x] = "no" /\ Unfinished(x)
           /\ \A v \in Handlers : at[v] = x => v = w
<1>1. Follows(w, x) /\ FlowTypeOK
  BY DEF FInv, RunOK
<1>2. pos[w] \in Nat /\ node[x] \in Nat /\ Nodes(x) \subseteq Nat
  BY <1>1, NodesAreFinite DEF FlowTypeOK
<1>3. \/ pos[w] = node[x]
      \/ pos[w] = node[x] + 1 /\ (node[x] \in Nodes(x) => Kind(x, node[x]) = "gate")
  BY <1>1 DEF Follows
<1>4. DelaysBefore(x, pos[w]) = DelaysBefore(x, node[x])
  <2>1. DelaysBefore(x, node[x]) \in Nat
    BY <1>1, DelaysType
  <2> QED BY <1>1, <1>2, <1>3, <2>1, DelaysNext
<1>5. \A n \in Nodes(x) : node[x] <= n /\ n < pos[w] => Kind(x, n) = "gate"
  BY <1>2, <1>3
<1> QED BY <1>1, <1>2, <1>3, <1>4, <1>5 DEF Follows, OnPath

\* A handler commits and goes on, or commits and leaves.
LEMMA CommitStep ==
    ASSUME FInv, NEW w \in Handlers, NEW x \in Runs, at[w] = x, hand[w] \in OnPath \cup {"met"},
           NEW status \in Statuses \ {"absent"}, NEW next \in Nat, next <= EndNode(x),
           NEW resume \in {"no", "later", "same"}, resume = "later" => status = "active",
           Save(w, status, next, resume), UNCHANGED <<of, live, toWake, flowHistory, faults>>,
           FlowHandsTyped', OthersStay(w), HandOK(w)',
           \/ at'[w] = NoRun
           \/ /\ at'[w] = x /\ hand'[w] = "walking" /\ pos'[w] = next /\ memo'[w][1] = next /\ memo'[w][2] = memo[w][2]
              /\ status = "active" /\ resume # "later",
           x \notin crossed =>
             /\ memo[w][1] = node[x] /\ node[x] <= next
             /\ \A n \in Nodes(x) : node[x] <= n /\ n < next /\ Kind(x, n) \in {"message", "ask"} => told[x][n] > 0
             /\ hand[w] = "spoke" => next > pos[w] \/ status # "active"
             /\ x \notin hasty => DelaysBefore(x, next) <= woken[x] + (IF resume = "later" THEN 1 ELSE 0)
             /\ status = "active" /\ resume # "later" /\ at'[w] # x =>
                  \/ next \in Nodes(x) /\ Kind(x, next) = "gate"
                  \/ next - 1 \in Nodes(x) /\ Kind(x, next - 1) = "ask"
    PROVE  FInv'
<1>0. FlowTypeOK /\ HandOK(w) /\ RunOK(x) /\ NoRun \notin Runs /\ of[x] \in Flows
  BY NoneAssumption DEF FInv, HandOK
<1>1. /\ run' \in [Runs -> Statuses] /\ node' \in [Runs -> Nat]
      /\ parked' \in [Runs -> {"no", "later", "due"}]
      /\ \A r \in Runs : node'[r] <= EndNode(r)
      /\ \A r \in Runs \ {x} : run'[r] = run[r] /\ node'[r] = node[r] /\ parked'[r] = parked[r]
      /\ run'[x] = IF status # "active" \/ run[x] = "absent" THEN status ELSE run[x]
      /\ memo[w][1] = node[x] => node'[x] = next
      /\ parked[x] = "no" => parked'[x] = IF resume = "later" THEN "later" ELSE "no"
  BY <1>0, SaveIsOfOne
<1>2. UNCHANGED <<of, live, toWake, told, unsaved, woken, hasty, crossed, dropped, faults>>
  BY DEF flowHistory
<1>3. \A r \in Runs : of'[r] = of[r] /\ Nodes(r)' = Nodes(r) /\ EndNode(r)' = EndNode(r)
  BY <1>2, SamePath
<1>4. FlowTypeOK'
  <2>1. DOMAIN told' = Runs /\ \A r \in Runs : told'[r] \in [Nodes(r)' -> Nat]
    BY <1>0, <1>2, <1>3 DEF FlowTypeOK
  <2>2. \A r \in Runs : node'[r] <= EndNode(r)'
    BY <1>1, <1>3
  <2> QED BY <1>0, <1>1, <1>2, <2>1, <2>2 DEF FlowTypeOK, FlowHandsTyped, Statuses
<1>5. Frame({w}, {x})
  <2>1. \A r \in Runs \ {x} : SameRow(r)
    BY <1>1, <1>2 DEF SameRow
  <2>2. \A v \in {w} : at[v] \notin Runs \ {x} /\ at'[v] \notin Runs \ {x}
    BY <1>0
  <2> QED BY <1>2, <2>1, <2>2 DEF Frame, OthersStay
<1>6. RowOK(x)'
  <2>1. run'[x] # "absent" /\ of'[x] \in Flows
    BY <1>0, <1>1, <1>3
  <2> QED BY <2>1 DEF RowOK
<1>7. ASSUME x \notin crossed'
      PROVE  /\ \A v \in Handlers : at'[v] = x => Follows(v, x)'
             /\ parked'[x] # "no" => run'[x] = "active"
             /\ Said(x)' /\ (x \notin hasty' => Waited(x)') /\ Rests(x)'
  <2>1. x \notin crossed /\ Follows(w, x) /\ Said(x)
    BY <1>0, <1>2, <1>7 DEF RunOK
  <2>2. node'[x] = next /\ parked'[x] = (IF resume = "later" THEN "later" ELSE "no") /\ run[x] \in {"absent", "active"}
        /\ ~memo[w][2]
    BY <1>1, <2>1 DEF Follows, Unfinished, OnPath
  <2>3. \A v \in Handlers : at'[v] = x => v = w
    BY <2>1 DEF OthersStay, SameHand, Follows
  <2>4. at'[w] = x => status = "active" /\ resume # "later" /\ run'[x] = "active"
    BY <1>0, <1>1, <2>2
  <2>5. \A v \in Handlers : at'[v] = x => Follows(v, x)'
    BY <1>0, <2>2, <2>3, <2>4 DEF Follows, Unfinished, OnPath
  <2>6. parked'[x] # "no" => run'[x] = "active"
    BY <1>1, <2>2
  <2>7. \A n : ~Unrecorded(x, n)'
    BY <1>0, <2>3 DEF Unrecorded
  <2>8. \A n : Unrecorded(x, n) => hand[w] = "spoke" /\ n = pos[w]
    BY <2>1 DEF Unrecorded, Follows
  <2>9. ASSUME NEW n \in Nodes(x)
        PROVE  /\ told[x][n] <= 1 + unsaved[x]
               /\ Unfinished(x)' /\ n >= next => told[x][n] <= unsaved[x]
               /\ n < next /\ Kind(x, n) \in {"message", "ask"} => told[x][n] > 0
               /\ n > next + 1 => told[x][n] = 0
    <3>1. n \in Nat /\ node[x] \in Nat /\ node[x] <= next /\ pos[w] \in Nat
      BY <1>0, <2>1, NodesAreFinite DEF FlowTypeOK
    <3>2. told[x][n] <= 1 + unsaved[x] /\ (n < node[x] /\ Kind(x, n) \in {"message", "ask"} => told[x][n] > 0)
          /\ (n > node[x] + 1 => told[x][n] = 0)
          /\ (Unfinished(x) /\ n >= node[x] /\ ~Unrecorded(x, n) => told[x][n] <= unsaved[x])
      BY <2>1 DEF Said
    <3>3. Unfinished(x)' => status = "active"
      BY <1>1 DEF Unfinished
    <3>4. Unfinished(x)' /\ n >= next => told[x][n] <= unsaved[x]
      BY <2>1, <2>2, <2>8, <3>1, <3>2, <3>3 DEF Unfinished
    <3> QED BY <2>1, <3>1, <3>2, <3>4
  <2>10. Said(x)'
    BY <1>2, <1>3, <2>2, <2>9, SamePath DEF Said
  <2>11. ASSUME x \notin hasty' PROVE Waited(x)'
    <3>1. Waited(x) /\ DelaysBefore(x, next) <= woken[x] + (IF resume = "later" THEN 1 ELSE 0)
      BY <1>0, <1>2, <2>1, <2>11 DEF RunOK
    <3> QED BY <1>2, <1>3, <2>2, <3>1, SamePath DEF Waited
  <2>12. Rests(x)'
    <3>1. at'[w] = x => Attended(x)'
      BY DEF Attended
    <3>2. run'[x] = "active" => status = "active"
      BY <1>1
    <3> QED BY <1>3, <2>1, <2>2, <3>1, <3>2, SamePath DEF Rests
  <2> QED BY <2>5, <2>6, <2>10, <2>11, <2>12
<1>8. RunOK(x)'
  BY <1>6, <1>7 DEF RunOK
<1> QED BY <1>4, <1>5, <1>8, FlowStep

-----------------------------------------------------------------------------
(* A handler walks its run.                                                *)

LEMMA FInvHas ==
    ASSUME FInv, NEW w \in Handlers
    PROVE  FlowTypeOK /\ HandOK(w) /\ at[w] \in Runs \cup {NoRun} /\ NoRun \notin Runs
           /\ pos[w] \in Nat /\ memo[w] \in Nat \X BOOLEAN
           /\ \A r \in Runs : RunOK(r)
BY NoneAssumption DEF FInv, FlowTypeOK

LEMMA WalkerStands ==
    ASSUME FInv, NEW w \in Handlers, NEW kinds, Stands(w, kinds) \/ hand[w] \in {"spoke", "refused"}
    PROVE  /\ at[w] \in Runs /\ hand[w] \in OnPath /\ pos[w] \in Nodes(at[w])
           /\ pos[w] + 1 \in Nat /\ pos[w] + 1 <= EndNode(at[w])
<1>1. hand[w] \in OnPath /\ at[w] \in Runs
  BY FInvHas DEF Stands, HandOK, OnPath, AtRun
<1>2. pos[w] \in Nodes(at[w])
  BY FInvHas DEF Stands, HandOK, Speaks
<1> QED BY <1>1, <1>2, FInvHas, NodesAreFinite

\* Behind the node a handler is at, everything up to it is said.
LEMMA SaidSoFar ==
    ASSUME FInv, NEW w \in Handlers, at[w] \in Runs, at[w] \notin crossed, hand[w] \in OnPath,
           pos[w] \in Nodes(at[w]), hand[w] = "spoke" \/ Kind(at[w], pos[w]) \notin {"message", "ask"}
    PROVE  LET x == at[w] IN
           /\ memo[w][1] = node[x] /\ node[x] <= pos[w] + 1
           /\ \A n \in Nodes(x) : node[x] <= n /\ n < pos[w] + 1 /\ Kind(x, n) \in {"message", "ask"} => told[x][n] > 0
           /\ x \notin hasty => DelaysBefore(x, pos[w] + 1) <=
                woken[x] + (IF Kind(x, pos[w]) = "delay" THEN 1 ELSE 0)
<1> DEFINE x == at[w]
<1>1. /\ pos[w] \in Nat /\ node[x] \in Nat /\ node[x] <= pos[w] /\ pos[w] <= node[x] + 1
      /\ DelaysBefore(x, pos[w]) = DelaysBefore(x, node[x])
      /\ \A n \in Nodes(x) : node[x] <= n /\ n < pos[w] => Kind(x, n) = "gate"
      /\ memo[w][1] = node[x] /\ parked[x] = "no"
  BY Passed
<1>2. Follows(w, x) /\ Nodes(x) \subseteq Nat /\ FlowTypeOK
  BY FInvHas, NodesAreFinite DEF RunOK
<1>3. hand[w] = "spoke" => told[x][pos[w]] > 0
  BY <1>2 DEF Follows
<1>4. ASSUME NEW n \in Nodes(x), node[x] <= n, n < pos[w] + 1, Kind(x, n) \in {"message", "ask"}
      PROVE  told[x][n] > 0
  <2>1. n < pos[w] \/ n = pos[w]
    BY <1>1, <1>2, <1>4
  <2> QED BY <1>1, <1>3, <1>4, <2>1
<1>5. ASSUME x \notin hasty
      PROVE  DelaysBefore(x, pos[w] + 1) <= woken[x] + (IF Kind(x, pos[w]) = "delay" THEN 1 ELSE 0)
  <2>1. DelaysBefore(x, node[x]) <= woken[x] + 0
    BY <1>1, <1>5, FInvHas DEF RunOK, Waited
  <2>2. DelaysBefore(x, node[x]) \in Nat /\ woken[x] \in Nat
    BY <1>2, DelaysType DEF FlowTypeOK
  <2>3. DelaysBefore(x, pos[w] + 1) = DelaysBefore(x, pos[w]) + (IF pos[w] \in Nodes(x) /\ Kind(x, pos[w]) = "delay" THEN 1 ELSE 0)
    BY <1>1, <1>2, DelaysNext
  <2> QED BY <1>1, <2>1, <2>2, <2>3
<1> QED BY <1>1, <1>4, <1>5

LEMMA AwaitReplyFInv == ASSUME FInv, NEW w \in Handlers, AwaitReply(w) PROVE FInv'
<1> DEFINE x == at[w]
           next == pos[w] + 1
<1>1. x \in Runs /\ hand[w] = "spoke" /\ hand[w] \in OnPath /\ pos[w] \in Nodes(x) /\ Kind(x, pos[w]) = "ask"
      /\ next \in Nat /\ next <= EndNode(x) /\ pos[w] \in Nat
  BY WalkerStands, FInvHas DEF AwaitReply, Spoken
<1>2. Save(w, "active", next, "no") /\ Leave(w)
  BY DEF AwaitReply, Park
<1>3. FlowHandsTyped' /\ OthersStay(w) /\ HandOK(w)' /\ at'[w] = NoRun
  BY <1>2, FInvHas, LeaveIsOfOne, GoneOK
<1>4. x \notin crossed =>
        /\ memo[w][1] = node[x] /\ node[x] <= next
        /\ \A n \in Nodes(x) : node[x] <= n /\ n < next /\ Kind(x, n) \in {"message", "ask"} => told[x][n] > 0
        /\ x \notin hasty => DelaysBefore(x, next) <= woken[x] + 0
  BY <1>1, SaidSoFar
<1>5. next > pos[w] /\ next - 1 = pos[w]
  BY <1>1
<1>6. "active" \in Statuses \ {"absent"}
  BY DEF Statuses
<1>7. UNCHANGED <<of, live, toWake, flowHistory, faults>>
  BY DEF AwaitReply
<1> QED BY <1>1, <1>2, <1>3, <1>4, <1>5, <1>6, <1>7, CommitStep

LEMMA ParkOnDelayFInv == ASSUME FInv, NEW w \in Handlers, ParkOnDelay(w) PROVE FInv'
<1> DEFINE x == at[w]
           next == pos[w] + 1
<1>1. x \in Runs /\ hand[w] = "walking" /\ hand[w] \in OnPath /\ pos[w] \in Nodes(x) /\ Kind(x, pos[w]) = "delay"
      /\ next \in Nat /\ next <= EndNode(x) /\ pos[w] \in Nat
  BY WalkerStands, FInvHas DEF ParkOnDelay, Stands
<1>2. Save(w, "active", next, "later") /\ Leave(w)
  BY DEF ParkOnDelay, Park
<1>3. FlowHandsTyped' /\ OthersStay(w) /\ HandOK(w)' /\ at'[w] = NoRun
  BY <1>2, FInvHas, LeaveIsOfOne, GoneOK
<1>4. x \notin crossed =>
        /\ memo[w][1] = node[x] /\ node[x] <= next
        /\ \A n \in Nodes(x) : node[x] <= n /\ n < next /\ Kind(x, n) \in {"message", "ask"} => told[x][n] > 0
        /\ x \notin hasty => DelaysBefore(x, next) <= woken[x] + 1
  BY <1>1, SaidSoFar
<1>5. "active" \in Statuses \ {"absent"}
  BY DEF Statuses
<1>6. UNCHANGED <<of, live, toWake, flowHistory, faults>>
  BY DEF ParkOnDelay
<1> QED BY <1>1, <1>2, <1>3, <1>4, <1>5, <1>6, CommitStep

LEMMA AwaitKeywordFInv == ASSUME FInv, NEW w \in Handlers, AwaitKeyword(w) PROVE FInv'
<1> DEFINE x == at[w]
           next == pos[w]
<1>1. x \in Runs /\ hand[w] = "walking" /\ hand[w] \in OnPath /\ pos[w] \in Nodes(x) /\ Kind(x, pos[w]) = "gate"
  BY WalkerStands DEF AwaitKeyword, Stands
<1>2. next \in Nat /\ next <= EndNode(x)
  BY <1>1, FInvHas DEF HandOK
<1>3. Save(w, "active", next, "no") /\ Leave(w)
  BY DEF AwaitKeyword, Park
<1>4. FlowHandsTyped' /\ OthersStay(w) /\ HandOK(w)' /\ at'[w] = NoRun
  BY <1>3, FInvHas, LeaveIsOfOne, GoneOK
<1>5. ASSUME x \notin crossed
      PROVE  /\ memo[w][1] = node[x] /\ node[x] <= next
             /\ \A n \in Nodes(x) : node[x] <= n /\ n < next => Kind(x, n) = "gate"
             /\ x \notin hasty => DelaysBefore(x, next) <= woken[x] + 0
  <2>1. /\ DelaysBefore(x, next) = DelaysBefore(x, node[x]) /\ node[x] <= next /\ memo[w][1] = node[x] /\ parked[x] = "no"
        /\ \A n \in Nodes(x) : node[x] <= n /\ n < next => Kind(x, n) = "gate"
    BY <1>1, <1>5, Passed
  <2>2. x \notin hasty => DelaysBefore(x, node[x]) <= woken[x] + 0
    BY <1>1, <1>5, <2>1, FInvHas DEF RunOK, Waited
  <2> QED BY <2>1, <2>2
<1>6. "active" \in Statuses \ {"absent"}
  BY DEF Statuses
<1>7. UNCHANGED <<of, live, toWake, flowHistory, faults>>
  BY DEF AwaitKeyword
<1> QED BY <1>2, <1>1, <1>3, <1>4, <1>5, <1>6, <1>7, CommitStep

\* A run that ends is not walked any more: its row keeps its node.
LEMMA FinishFInv ==
    ASSUME FInv, NEW w \in Handlers, at[w] \in Runs, hand[w] \in OnPath \cup {"met"},
           NEW status \in {"completed", "failed", "expired"}, Finish(w, status),
           UNCHANGED <<of, live, toWake, flowHistory, faults>>
    PROVE  FInv'
<1> DEFINE x == at[w]
           next == memo[w][1]
<1>1. Save(w, status, next, "no") /\ Leave(w)
  BY DEF Finish
<1>2. FlowHandsTyped' /\ OthersStay(w) /\ HandOK(w)' /\ at'[w] = NoRun
  BY <1>1, FInvHas, LeaveIsOfOne, GoneOK
<1>3. next \in Nat /\ next <= EndNode(x)
  BY FInvHas DEF HandOK
<1>4. ASSUME x \notin crossed
      PROVE  /\ memo[w][1] = node[x] /\ node[x] <= next
             /\ \A n \in Nodes(x) : ~(node[x] <= n /\ n < next)
             /\ x \notin hasty => DelaysBefore(x, next) <= woken[x] + 0
  <2>1. next = node[x] /\ node[x] \in Nat /\ parked[x] = "no" /\ Nodes(x) \subseteq Nat
    BY <1>4, FInvHas, NodesAreFinite DEF RunOK, Follows, OnPath, FlowTypeOK
  <2>2. x \notin hasty => DelaysBefore(x, node[x]) <= woken[x] + 0
    BY <1>4, <2>1, FInvHas DEF RunOK, Waited
  <2> QED BY <2>1, <2>2
<1>5. status \in Statuses \ {"absent"} /\ status # "active"
  BY DEF Statuses
<1> QED BY <1>1, <1>2, <1>3, <1>4, <1>5, CommitStep

LEMMA StepToIsOfOne ==
    ASSUME FInv, NEW w \in Handlers, NEW next \in Nat, StepTo(w, next), at[w] \in Runs, next <= EndNode(at[w]), UNCHANGED of
    PROVE  /\ FlowHandsTyped' /\ OthersStay(w) /\ HandOK(w)'
           /\ at'[w] = at[w] /\ hand'[w] = "walking" /\ pos'[w] = next /\ memo'[w][1] = next /\ memo'[w][2] = memo[w][2]
<1>1. /\ hand' = [hand EXCEPT ![w] = "walking"] /\ pos' = [pos EXCEPT ![w] = next] /\ at' = at
      /\ memo' = [memo EXCEPT ![w] = <<next, @[2]>>]
  BY DEF StepTo
<1>2. memo[w][2] \in BOOLEAN /\ FlowTypeOK
  BY FInvHas
<1>3. memo' \in [Handlers -> Nat \X BOOLEAN] /\ memo'[w] = <<next, memo[w][2]>>
      /\ \A v \in Handlers \ {w} : memo'[v] = memo[v]
  BY <1>1, <1>2 DEF FlowTypeOK
<1>4. /\ hand' \in [Handlers -> {"idle", "met", "sweeping", "claimed", "walking", "spoke", "refused"}]
      /\ pos' \in [Handlers -> Nat] /\ hand'[w] = "walking" /\ pos'[w] = next
      /\ \A v \in Handlers \ {w} : hand'[v] = hand[v] /\ pos'[v] = pos[v]
  BY <1>1, <1>2 DEF FlowTypeOK
<1>5. HandOK(w)'
  <2>1. PICK x \in Runs : x = at[w]
    OBVIOUS
  <2>2. of'[x] \in Flows /\ EndNode(x)' = EndNode(x)
    BY <2>1, FInvHas, SamePath DEF HandOK
  <2> QED BY <1>1, <1>3, <1>4, <2>1, <2>2 DEF HandOK, AtRun
<1> QED BY <1>1, <1>2, <1>3, <1>4, <1>5 DEF FlowHandsTyped, OthersStay, SameHand, FlowTypeOK

LEMMA ProceedFInv == ASSUME FInv, NEW w \in Handlers, Proceed(w) PROVE FInv'
<1> DEFINE x == at[w]
           next == pos[w] + 1
<1>1. x \in Runs /\ hand[w] \in OnPath /\ pos[w] \in Nodes(x) /\ next \in Nat /\ next <= EndNode(x) /\ pos[w] \in Nat
      /\ Kind(x, pos[w]) # "delay" /\ (hand[w] = "spoke" \/ Kind(x, pos[w]) \notin {"message", "ask"})
  BY WalkerStands, FInvHas DEF Proceed, Spoken, Stands
<1>2. CASE StepTo(w, next)
  <2>1. UNCHANGED <<of, live, toWake, flowHistory, faults>>
    BY DEF Proceed
  <2>2. /\ FlowHandsTyped' /\ OthersStay(w) /\ HandOK(w)'
        /\ at'[w] = x /\ hand'[w] = "walking" /\ pos'[w] = next /\ memo'[w][1] = next /\ memo'[w][2] = memo[w][2]
    BY <1>1, <1>2, <2>1, StepToIsOfOne
  <2>3. x \notin crossed =>
          /\ memo[w][1] = node[x] /\ node[x] <= next
          /\ \A n \in Nodes(x) : node[x] <= n /\ n < next /\ Kind(x, n) \in {"message", "ask"} => told[x][n] > 0
          /\ x \notin hasty => DelaysBefore(x, next) <= woken[x] + 0
    BY <1>1, SaidSoFar
  <2>4. next > pos[w]
    BY <1>1
  <2>5. "active" \in Statuses \ {"absent"}
    BY DEF Statuses
  <2>6. Save(w, "active", next, "same")
    BY <1>2 DEF StepTo
  <2> QED BY <1>1, <2>1, <2>2, <2>3, <2>4, <2>5, <2>6, CommitStep
<1>3. CASE Finish(w, "completed")
  BY <1>1, <1>3, FinishFInv DEF Proceed
<1> QED BY <1>2, <1>3 DEF Proceed

LEMMA FailRunFInv == ASSUME FInv, NEW w \in Handlers, FailRun(w) PROVE FInv'
<1>1. at[w] \in Runs /\ hand[w] \in OnPath
  BY WalkerStands DEF FailRun
<1> QED BY <1>1, FinishFInv DEF FailRun

LEMMA CompleteRunFInv == ASSUME FInv, NEW w \in Handlers, CompleteRun(w) PROVE FInv'
<1>1. hand[w] \in OnPath
  BY DEF CompleteRun, Stands, OnPath
<1>2. at[w] \in Runs
  BY <1>1, FInvHas DEF HandOK, AtRun, OnPath
<1> QED BY <1>1, <1>2, FinishFInv DEF CompleteRun

-----------------------------------------------------------------------------
(* Steps of a handler that leave what its run has said, and its row but for  *)
(* a status, as they are.                                                    *)

LEMMA HandStep ==
    ASSUME FInv, NEW w \in Handlers, NEW x \in Runs, at[w] \in {x, NoRun}, at'[w] \in {x, NoRun},
           hand[w] # "spoke", hand'[w] # "spoke", FlowHandsTyped', OthersStay(w), HandOK(w)',
           UNCHANGED <<of, node, parked, live, told, unsaved, woken, hasty>>,
           run' = run \/ (at[w] = x /\ run[x] = "active" /\ run' = [run EXCEPT ![x] = "expired"]),
           toWake' \in [FlowBeats -> SUBSET Runs], faults' \in 0 .. MaxFaults,
           crossed \subseteq crossed', crossed' \subseteq Runs, dropped \subseteq dropped', dropped' \subseteq Runs,
           x \notin crossed' => (at'[w] = x => Follows(w, x)') /\ (x \notin dropped' => Rests(x)')
    PROVE  FInv'
<1>0. FlowTypeOK /\ RunOK(x) /\ NoRun \notin Runs /\ (at[w] = x => of[x] \in Flows)
  BY FInvHas DEF HandOK
<1>1. run' \in [Runs -> Statuses] /\ (\A r \in Runs \ {x} : run'[r] = run[r])
      /\ (run'[x] = run[x] \/ (at[w] = x /\ run[x] = "active" /\ run'[x] = "expired"))
  BY <1>0 DEF FlowTypeOK, Statuses
<1>2. \A r \in Runs : of'[r] = of[r] /\ Nodes(r)' = Nodes(r) /\ EndNode(r)' = EndNode(r)
  BY SamePath
<1>3. FlowTypeOK'
  BY <1>0, <1>1, <1>2 DEF FlowTypeOK, FlowHandsTyped, Statuses
<1>4. Frame({w}, {x})
  <2>1. \A r \in Runs \ {x} : SameRow(r)
    BY <1>1 DEF SameRow
  <2> QED BY <1>0, <2>1 DEF Frame, OthersStay
<1>5. RowOK(x)'
  BY <1>0, <1>1 DEF RunOK, RowOK
<1>6. ASSUME x \notin crossed'
      PROVE  /\ \A v \in Handlers : at'[v] = x => Follows(v, x)'
             /\ parked'[x] # "no" => run'[x] = "active"
             /\ Said(x)' /\ (x \notin hasty' => Waited(x)')
  <2>1. /\ \A v \in Handlers : at[v] = x => Follows(v, x)
        /\ parked[x] # "no" => run[x] = "active"
        /\ Said(x) /\ (x \notin hasty => Waited(x))
    BY <1>0, <1>6 DEF RunOK
  <2>2. ASSUME NEW v \in Handlers \ {w}, at'[v] = x PROVE Follows(v, x)'
    <3>1. Follows(v, x) /\ SameHand(v) /\ at[w] # x
      BY <2>1, <2>2 DEF OthersStay, SameHand, Follows
    <3>2. at'[w] # x
      BY <1>6, <2>2 DEF Follows
    <3>3. \A u \in Handlers : at'[u] = x => u = v
      BY <3>1, <3>2 DEF OthersStay, SameHand, Follows
    <3> QED BY <1>1, <3>1, <3>3, SamePath DEF SameHand, Follows, Unfinished
  <2>3. \A v \in Handlers : at'[v] = x => Follows(v, x)'
    BY <1>6, <2>2
  <2>4. parked'[x] # "no" => run'[x] = "active"
    BY <1>1, <2>1 DEF Follows
  <2>5. \A n : Unrecorded(x, n)' <=> Unrecorded(x, n)
    BY DEF Unrecorded, OthersStay, SameHand
  <2>6. Unfinished(x)' => Unfinished(x)
    BY <1>1 DEF Unfinished
  <2>7. Said(x)'
    BY <1>2, <2>1, <2>5, <2>6, SamePath DEF Said
  <2>8. Waited(x) => Waited(x)'
    BY <1>2, SamePath DEF Waited
  <2> QED BY <2>1, <2>3, <2>4, <2>7, <2>8
<1>7. RunOK(x)'
  BY <1>5, <1>6 DEF RunOK
<1> QED BY <1>3, <1>4, <1>7, FlowStep

LEMMA HandIsTyped ==
    ASSUME FlowTypeOK, NEW w \in Handlers,
           NEW where \in {"idle", "met", "sweeping", "claimed", "walking", "spoke", "refused"},
           NEW r \in Runs \cup {NoRun}, NEW n \in Nat, NEW m \in Nat \X BOOLEAN,
           hand' = [hand EXCEPT ![w] = where], at' = [at EXCEPT ![w] = r],
           pos' = [pos EXCEPT ![w] = n], memo' = [memo EXCEPT ![w] = m]
    PROVE  /\ FlowHandsTyped' /\ OthersStay(w)
           /\ hand'[w] = where /\ at'[w] = r /\ pos'[w] = n /\ memo'[w] = m
BY DEF FlowTypeOK, FlowHandsTyped, OthersStay, SameHand

LEMMA SameEntries ==
    ASSUME FlowTypeOK, NEW w \in Handlers
    PROVE  /\ at = [at EXCEPT ![w] = at[w]] /\ pos = [pos EXCEPT ![w] = pos[w]]
           /\ memo = [memo EXCEPT ![w] = memo[w]]
BY DEF FlowTypeOK

LEMMA AdvancesFInv == ASSUME FInv, NEW h \in Handlers, Advances(h) PROVE FInv'
<1>1. PICK x \in Runs : x = at[h]
  BY FInvHas DEF Advances, HandOK, AtRun
<1> DEFINE n == memo[h][1]
           gated == n \in Nodes(x) /\ Kind(x, n) = "gate"
           next == IF gated THEN n + 1 ELSE n
<1>2. /\ hand[h] = "met" /\ UNCHANGED <<of, live, toWake, flowHistory, faults>>
      /\ \/ Finish(h, "expired")
         \/ Finish(h, "completed")
         \/ gated /\ Leave(h) /\ UNCHANGED <<run, node, parked>>
         \/ /\ next \in Nodes(x)
            /\ hand' = [hand EXCEPT ![h] = "walking"]
            /\ pos' = [pos EXCEPT ![h] = next]
            /\ UNCHANGED <<run, node, parked, at, memo>>
  BY <1>1 DEF Advances
<1>3. UNCHANGED <<told, unsaved, woken, hasty, crossed, dropped>> /\ FlowTypeOK /\ n \in Nat
      /\ toWake' \in [FlowBeats -> SUBSET Runs] /\ faults' \in 0 .. MaxFaults /\ crossed' \subseteq Runs /\ dropped' \subseteq Runs
  BY <1>2, FInvHas DEF flowHistory, FlowTypeOK
<1>4. x \notin crossed => Follows(h, x) /\ n = node[x] /\ ~memo[h][2]
  BY <1>1, <1>2, FInvHas DEF RunOK, Follows
<1>5. CASE Finish(h, "expired") \/ Finish(h, "completed")
  BY <1>1, <1>2, <1>5, FinishFInv
<1>6. CASE gated /\ Leave(h) /\ UNCHANGED <<run, node, parked>>
  <2>1. FlowHandsTyped' /\ OthersStay(h) /\ HandOK(h)' /\ at'[h] = NoRun /\ hand'[h] # "spoke"
    BY <1>3, <1>6, LeaveIsOfOne, GoneOK
  <2>2. x \notin crossed => Rests(x)'
    BY <1>2, <1>4, <1>6, SamePath DEF Rests
  <2>3. at'[h] # x
    BY <2>1, FInvHas
  <2> QED BY <1>1, <1>2, <1>3, <1>6, <2>1, <2>2, <2>3, HandStep
<1>7. CASE /\ next \in Nodes(x)
           /\ hand' = [hand EXCEPT ![h] = "walking"] /\ pos' = [pos EXCEPT ![h] = next]
           /\ UNCHANGED <<run, node, parked, at, memo>>
  <2>1. next \in Nat /\ next <= EndNode(x)
    BY <1>3, <1>7, NodesAreFinite
  <2>2. /\ FlowHandsTyped' /\ OthersStay(h)
        /\ hand'[h] = "walking" /\ at'[h] = x /\ pos'[h] = next /\ memo'[h] = memo[h]
    BY <1>1, <1>3, <1>7, <2>1 DEF FlowTypeOK, FlowHandsTyped, OthersStay, SameHand
  <2>3. of[x] \in Flows /\ memo[h][1] <= EndNode(x) /\ EndNode(x)' = EndNode(x)
    BY <1>1, <1>2, FInvHas, SamePath DEF HandOK
  <2>4. HandOK(h)'
    BY <1>2, <2>1, <2>2, <2>3 DEF HandOK, AtRun
  <2>5. ASSUME x \notin crossed PROVE Follows(h, x)' /\ Rests(x)'
    <3>1. \A v \in Handlers : at'[v] = x => v = h
      BY <1>4, <1>7, <2>5 DEF Follows
    <3>2. \/ next = node[x]
          \/ next = node[x] + 1 /\ Kind(x, node[x]) = "gate"
      BY <1>4, <2>5
    <3>3. Follows(h, x)'
      BY <1>2, <1>4, <1>7, <2>2, <2>5, <3>1, <3>2, SamePath DEF Follows, Unfinished, OnPath
    <3> QED BY <2>2, <3>3 DEF Rests, Attended
  <2> QED BY <1>1, <1>2, <1>3, <1>7, <2>2, <2>4, <2>5, HandStep
<1> QED BY <1>2, <1>5, <1>6, <1>7

LEMMA MessageFindsFInv ==
    ASSUME FInv, NEW h \in Handlers, NEW x \in Runs, MessageFinds(h, x) PROVE FInv'
<1>1. /\ hand[h] = "idle" /\ run[x] = "active" /\ parked[x] = "no"
      /\ hand' = [hand EXCEPT ![h] = "met"] /\ at' = [at EXCEPT ![h] = x]
      /\ memo' = [memo EXCEPT ![h] = <<node[x], FALSE>>]
      /\ UNCHANGED <<run, of, node, parked, live, pos, toWake, told, unsaved, woken, hasty, dropped>>
      /\ \/ Attended(x) /\ faults < MaxFaults /\ faults' = faults + 1 /\ crossed' = crossed \cup {x}
         \/ ~Attended(x) /\ UNCHANGED <<faults, crossed>>
  BY DEF MessageFinds, WaitsForInput, ActiveRuns, flowRows
<1>2. FlowTypeOK /\ node[x] \in Nat /\ node[x] <= EndNode(x) /\ at[h] = NoRun /\ of[x] \in Flows
  BY <1>1, FInvHas DEF FlowTypeOK, HandOK, AtRun, RunOK, RowOK
<1>3. <<node[x], FALSE>> \in Nat \X BOOLEAN
  BY <1>2
<1>4. pos[h] = 0
  BY <1>1, FInvHas DEF HandOK
<1>5. /\ FlowHandsTyped' /\ OthersStay(h)
      /\ hand'[h] = "met" /\ at'[h] = x /\ pos'[h] = 0 /\ memo'[h] = <<node[x], FALSE>>
  BY <1>1, <1>2, <1>3, <1>4 DEF FlowTypeOK, FlowHandsTyped, OthersStay, SameHand
<1>6. memo'[h][1] = node[x] /\ memo'[h][2] = FALSE
  BY <1>5
<1>7. toWake' \in [FlowBeats -> SUBSET Runs] /\ faults' \in 0 .. MaxFaults
      /\ crossed \subseteq crossed' /\ crossed' \subseteq Runs /\ dropped' \subseteq Runs
  BY <1>1, <1>2, MaxFaultsAssumption DEF FlowTypeOK
<1>8. EndNode(x)' = EndNode(x)
  BY <1>1, SamePath
<1>9. 0 <= EndNode(x)
  BY <1>2, NodesAreFinite
<1>10. HandOK(h)'
  BY <1>1, <1>2, <1>5, <1>8, <1>9, <1>6 DEF HandOK, AtRun
<1>11. ASSUME x \notin crossed' PROVE Follows(h, x)' /\ Rests(x)'
  <2>1. \A v \in Handlers : at'[v] = x => v = h
    BY <1>1, <1>5, <1>11 DEF Attended, OthersStay, SameHand
  <2>2. Follows(h, x)'
    BY <1>1, <1>5, <1>6, <2>1 DEF Follows, Unfinished, OnPath
  <2> QED BY <1>5, <2>2 DEF Rests, Attended
<1> QED BY <1>1, <1>2, <1>5, <1>7, <1>10, <1>11, HandStep

LEMMA LoadSleeperFInv == ASSUME FInv, NEW b \in Handlers, LoadSleeper(b) PROVE FInv'
<1>1. PICK x \in Runs : x = at[b]
  BY FInvHas DEF LoadSleeper, HandOK, AtRun
<1>2. /\ hand[b] = "claimed" /\ UNCHANGED <<of, node, parked, live, toWake, told, unsaved, woken, hasty, crossed, dropped, faults>>
      /\ \/ run[x] # "active" /\ Leave(b) /\ UNCHANGED run
         \/ run[x] = "active" /\ Leave(b) /\ run' = [run EXCEPT ![x] = "expired"]
         \/ /\ run[x] = "active"
            /\ hand' = [hand EXCEPT ![b] = "walking"]
            /\ pos' = [pos EXCEPT ![b] = node[x]]
            /\ memo' = [memo EXCEPT ![b] = <<node[x], parked[x] # "no">>]
            /\ UNCHANGED <<run, at>>
  BY <1>1 DEF LoadSleeper, flowHistory
<1>3. FlowTypeOK /\ node[x] \in Nat /\ node[x] <= EndNode(x) /\ of[x] \in Flows
      /\ toWake' \in [FlowBeats -> SUBSET Runs] /\ faults' \in 0 .. MaxFaults /\ crossed' \subseteq Runs /\ dropped' \subseteq Runs
  BY <1>1, <1>2, FInvHas DEF FlowTypeOK, HandOK
<1>4. CASE Leave(b)
  <2>1. FlowHandsTyped' /\ OthersStay(b) /\ HandOK(b)' /\ at'[b] = NoRun /\ hand'[b] # "spoke"
    BY <1>3, <1>4, LeaveIsOfOne, GoneOK
  <2>2. hand'[b] # "walking" /\ at'[b] # x
    BY <1>3, <1>4, LeaveIsOfOne, FInvHas
  <2>3. run'[x] # "active" /\ (run' = run \/ (run[x] = "active" /\ run' = [run EXCEPT ![x] = "expired"]))
    BY <1>2, <1>3, <1>4, <2>1, <2>2 DEF FlowTypeOK
  <2>4. Rests(x)'
    BY <2>3 DEF Rests
  <2> QED BY <1>1, <1>2, <1>3, <2>1, <2>2, <2>3, <2>4, HandStep
<1>5. CASE ~Leave(b)
  <2>1. <<node[x], parked[x] # "no">> \in Nat \X BOOLEAN
    BY <1>3
  <2>2. /\ FlowHandsTyped' /\ OthersStay(b)
        /\ hand'[b] = "walking" /\ at'[b] = x /\ pos'[b] = node[x] /\ memo'[b] = <<node[x], parked[x] # "no">>
    BY <1>1, <1>2, <1>3, <1>5, <2>1, HandIsTyped, SameEntries, FInvHas
  <2>3. memo'[b][1] = node[x] /\ memo'[b][2] = (parked[x] # "no")
    BY <2>2
  <2>4. EndNode(x)' = EndNode(x)
    BY <1>2, SamePath
  <2>5. HandOK(b)'
    BY <1>2, <1>3, <2>2, <2>4, <2>3 DEF HandOK, AtRun
  <2>6. ASSUME x \notin crossed PROVE Follows(b, x)' /\ Rests(x)'
    <3>1. Follows(b, x)
      BY <1>1, <2>6, FInvHas DEF RunOK
    <3>2. \A v \in Handlers : at'[v] = x => v = b
      BY <2>2, <3>1 DEF Follows, OthersStay, SameHand
    <3>3. Follows(b, x)'
      BY <1>2, <1>5, <2>2, <2>3, <3>1, <3>2 DEF Follows, Unfinished, OnPath
    <3> QED BY <2>2, <3>3 DEF Rests, Attended
  <2> QED BY <1>1, <1>2, <1>3, <1>5, <2>2, <2>5, <2>6, HandStep
<1> QED BY <1>4, <1>5

-----------------------------------------------------------------------------
(* Sending a node's message, starting a run, claiming one.                 *)

LEMMA SpeakFInv == ASSUME FInv, NEW w \in Handlers, Speak(w) PROVE FInv'
<1>1. PICK x \in Runs : x = at[w]
  BY WalkerStands DEF Speak
<1> DEFINE n == pos[w]
<1>2. PICK outcome \in {"spoke", "refused"}, lost \in 0 .. MaxFaults - faults :
        /\ told' = [told EXCEPT ![x][n] = @ + lost + (IF outcome = "spoke" THEN 1 ELSE 0)]
        /\ unsaved' = [unsaved EXCEPT ![x] = @ + lost]
        /\ faults' = faults + lost
        /\ hand' = [hand EXCEPT ![w] = outcome]
  BY <1>1 DEF Speak
<1>3. /\ hand[w] = "walking" /\ hand[w] \in OnPath /\ n \in Nodes(x) /\ Kind(x, n) \in {"message", "ask"} /\ n \in Nat
      /\ UNCHANGED <<run, of, node, parked, live, at, pos, memo, toWake, woken, hasty, crossed, dropped>>
  BY <1>1, WalkerStands, FInvHas DEF Speak, Stands, flowRows
<1>4. FlowTypeOK /\ RunOK(x) /\ HandOK(w) /\ faults \in 0 .. MaxFaults /\ lost \in Nat
      /\ DOMAIN told = Runs /\ told[x] \in [Nodes(x) -> Nat] /\ unsaved[x] \in Nat
  BY FInvHas, MaxFaultsAssumption DEF FlowTypeOK
<1>5. /\ DOMAIN told' = Runs /\ told'[x] \in [Nodes(x) -> Nat] /\ (\A r \in Runs \ {x} : told'[r] = told[r])
      /\ told'[x][n] = told[x][n] + lost + (IF outcome = "spoke" THEN 1 ELSE 0)
      /\ \A m \in Nodes(x) \ {n} : told'[x][m] = told[x][m]
  BY <1>2, <1>3, <1>4
<1>6. unsaved' \in [Runs -> Nat] /\ unsaved'[x] = unsaved[x] + lost /\ \A r \in Runs \ {x} : unsaved'[r] = unsaved[r]
  BY <1>2, <1>4 DEF FlowTypeOK
<1>7. /\ hand' \in [Handlers -> {"idle", "met", "sweeping", "claimed", "walking", "spoke", "refused"}]
      /\ hand'[w] = outcome /\ OthersStay(w) /\ faults' \in 0 .. MaxFaults
  BY <1>2, <1>3, <1>4, MaxFaultsAssumption DEF FlowTypeOK, OthersStay, SameHand
<1>8. \A r \in Runs : of'[r] = of[r] /\ Nodes(r)' = Nodes(r) /\ EndNode(r)' = EndNode(r)
  BY <1>3, SamePath
<1>9. FlowTypeOK'
  <2>1. \A r \in Runs : told'[r] \in [Nodes(r)' -> Nat]
    BY <1>4, <1>5, <1>8 DEF FlowTypeOK
  <2> QED BY <1>3, <1>4, <1>5, <1>6, <1>7, <1>8, <2>1 DEF FlowTypeOK
<1>10. Frame({w}, {x})
  <2>1. \A r \in Runs \ {x} : SameRow(r)
    BY <1>3, <1>5, <1>6 DEF SameRow
  <2> QED BY <1>1, <1>3, <1>7, <2>1 DEF Frame, OthersStay
<1>11. HandOK(w)'
  BY <1>1, <1>3, <1>4, <1>7, <1>8, SamePath DEF HandOK, AtRun, Speaks
<1>12. RowOK(x)'
  BY <1>3, <1>4 DEF RunOK, RowOK
<1>13. ASSUME x \notin crossed'
       PROVE  /\ \A v \in Handlers : at'[v] = x => Follows(v, x)'
              /\ parked'[x] # "no" => run'[x] = "active"
              /\ Said(x)' /\ (x \notin hasty' => Waited(x)') /\ Rests(x)'
  <2>1. /\ n \in Nat /\ node[x] \in Nat /\ node[x] <= n /\ n <= node[x] + 1
        /\ DelaysBefore(x, n) = DelaysBefore(x, node[x]) /\ parked[x] = "no" /\ Unfinished(x)
        /\ \A v \in Handlers : at[v] = x => v = w
    BY <1>1, <1>3, <1>13, Passed
  <2>2. Follows(w, x) /\ Said(x)
    BY <1>1, <1>3, <1>4, <1>13 DEF RunOK
  <2>3. \A m : ~Unrecorded(x, m)
    BY <1>3, <2>1 DEF Unrecorded
  <2>4. told[x][n] \in Nat /\ told[x][n] <= unsaved[x] /\ (hand'[w] = "spoke" => told'[x][n] > 0)
    BY <1>3, <1>4, <1>5, <1>7, <2>1, <2>2, <2>3 DEF Said
  <2>5. \A v \in Handlers : at'[v] = x => Follows(v, x)'
    BY <1>3, <1>7, <2>1, <2>2, <2>4, SamePath DEF Follows, Unfinished, OnPath
  <2>6. \A m : Unrecorded(x, m)' <=> outcome = "spoke" /\ m = n
    BY <1>1, <1>3, <1>7, <2>1 DEF Unrecorded
  <2>7. ASSUME NEW m \in Nodes(x)
        PROVE  /\ told'[x][m] <= 1 + unsaved'[x]
               /\ m >= node[x] /\ ~Unrecorded(x, m)' => told'[x][m] <= unsaved'[x]
               /\ m < node[x] /\ Kind(x, m) \in {"message", "ask"} => told'[x][m] > 0
               /\ m > node[x] + 1 => told'[x][m] = 0
    <3>1. told[x][m] <= 1 + unsaved[x] /\ (m < node[x] /\ Kind(x, m) \in {"message", "ask"} => told[x][m] > 0)
          /\ (m > node[x] + 1 => told[x][m] = 0) /\ (m >= node[x] => told[x][m] <= unsaved[x])
          /\ told[x][m] \in Nat /\ m \in Nat
      BY <1>4, <2>1, <2>2, <2>3, NodesAreFinite DEF Said
    <3>2. CASE m = n
      BY <1>4, <1>5, <1>6, <2>1, <2>4, <2>6, <3>1, <3>2
    <3>3. CASE m # n
      BY <1>4, <1>5, <1>6, <3>1, <3>3
    <3> QED BY <3>2, <3>3
  <2>8. Said(x)'
    BY <1>3, <1>8, <2>7, SamePath DEF Said
  <2>9. ASSUME x \notin hasty' PROVE Waited(x)'
    <3>1. Waited(x)
      BY <1>3, <1>4, <1>13, <2>9 DEF RunOK
    <3>2. \A m \in Nodes(x) : told'[x][m] > 0 => DelaysBefore(x, m) <= woken[x]
      <4>1. DelaysBefore(x, n) <= woken[x]
        BY <1>4, <2>1, <3>1, DelaysType DEF Waited, FlowTypeOK
      <4> QED BY <1>5, <3>1, <4>1 DEF Waited
    <3> QED BY <1>3, <1>8, <3>1, <3>2, SamePath DEF Waited
  <2>10. Rests(x)'
    BY <1>1, <1>3 DEF Rests, Attended
  <2> QED BY <1>3, <2>1, <2>5, <2>8, <2>9, <2>10
<1>14. RunOK(x)'
  BY <1>12, <1>13 DEF RunOK
<1> QED BY <1>9, <1>10, <1>11, <1>14, FlowStep

LEMMA MessageStartsFInv ==
    ASSUME FInv, NEW h \in Handlers, NEW x \in Runs, MessageStarts(h, x) PROVE FInv'
<1>1. PICK f \in Flows : of' = [of EXCEPT ![x] = f] /\ told' = [told EXCEPT ![x] = [n \in DOMAIN Path[f] |-> 0]]
  BY FInvHas DEF MessageStarts, FlowTypeOK
<1>2. /\ hand[h] = "idle" /\ run[x] = "absent" /\ ~Attended(x)
      /\ hand' = [hand EXCEPT ![h] = "walking"] /\ at' = [at EXCEPT ![h] = x] /\ pos' = [pos EXCEPT ![h] = 1]
      /\ UNCHANGED <<run, node, parked, live, memo, toWake, unsaved, woken, hasty, crossed, dropped, faults>>
  BY DEF MessageStarts
<1>3. FlowTypeOK /\ at[h] = NoRun /\ memo[h] = NothingLoaded /\ node[x] = 0 /\ parked[x] = "no" /\ NoRun \notin Runs
  BY <1>2, FInvHas DEF HandOK, AtRun, RunOK, RowOK
<1>4. memo[h][1] = 0 /\ memo[h][2] = FALSE
  BY <1>3 DEF NothingLoaded
<1>5. /\ of' \in [Runs -> Flows \cup {NoFlow}] /\ of'[x] = f /\ \A r \in Runs \ {x} : of'[r] = of[r]
  BY <1>1, <1>3 DEF FlowTypeOK
<1>6. /\ Nodes(x)' = DOMAIN Path[f] /\ EndNode(x)' = Len(Path[f]) + 1 /\ Len(Path[f]) \in Nat
      /\ Nodes(x)' = 1 .. Len(Path[f])
  BY <1>5, PathOfFlow DEF Nodes, EndNode
<1>7. DOMAIN told' = Runs /\ told'[x] = [n \in Nodes(x)' |-> 0] /\ \A r \in Runs \ {x} : told'[r] = told[r]
  BY <1>1, <1>3, <1>6 DEF FlowTypeOK
<1>8. /\ FlowHandsTyped' /\ OthersStay(h)
      /\ hand'[h] = "walking" /\ at'[h] = x /\ pos'[h] = 1 /\ memo'[h] = memo[h]
  BY <1>2, <1>3 DEF FlowTypeOK, FlowHandsTyped, OthersStay, SameHand
<1>9. FlowTypeOK'
  <2>1. ASSUME NEW r \in Runs PROVE node'[r] <= EndNode(r)' /\ told'[r] \in [Nodes(r)' -> Nat]
    <3>1. CASE r = x
      BY <1>2, <1>3, <1>6, <1>7, <3>1
    <3>2. CASE r # x
      <4>1. Nodes(r)' = Nodes(r) /\ EndNode(r)' = EndNode(r)
        BY <1>5, <3>2, SamePath
      <4> QED BY <1>2, <1>3, <1>7, <3>2, <4>1 DEF FlowTypeOK
    <3> QED BY <3>1, <3>2
  <2> QED BY <1>2, <1>3, <1>5, <1>7, <1>8, <2>1 DEF FlowTypeOK, FlowHandsTyped
<1>10. Frame({h}, {x})
  <2>1. \A r \in Runs \ {x} : SameRow(r)
    BY <1>2, <1>5, <1>7 DEF SameRow
  <2> QED BY <1>2, <1>3, <1>8, <2>1 DEF Frame, OthersStay
<1>11. HandOK(h)'
  BY <1>4, <1>5, <1>6, <1>8 DEF HandOK, AtRun
<1>12. RunOK(x)'
  <2>1. \A v \in Handlers : at'[v] = x => v = h
    BY <1>2, <1>8 DEF Attended, OthersStay, SameHand
  <2>2. \A v \in Handlers : at'[v] = x => Follows(v, x)'
    BY <1>2, <1>3, <1>4, <1>6, <1>8, <2>1 DEF Follows, Unfinished, OnPath
  <2>3. RowOK(x)' /\ Rests(x)'
    BY <1>2, <1>3 DEF RowOK, Rests
  <2>4. unsaved[x] \in Nat /\ woken[x] \in Nat
    BY <1>3 DEF FlowTypeOK
  <2>5. \A n \in Nodes(x)' : told'[x][n] = 0 /\ ~(n < 0)
    BY <1>6, <1>7
  <2>6. Said(x)'
    BY <1>2, <1>3, <2>4, <2>5 DEF Said
  <2>7. DelaysBefore(x, 0)' = 0
    <3>1. {d \in Nodes(x)' : d < 0 /\ Kind(x, d)' = "delay"} = {}
      BY <2>5
    <3> QED BY <3>1, FS_EmptySet DEF DelaysBefore
  <2>8. Waited(x)'
    BY <1>2, <1>3, <2>4, <2>5, <2>7 DEF Waited
  <2> QED BY <1>2, <1>3, <2>2, <2>3, <2>6, <2>8 DEF RunOK
<1> QED BY <1>9, <1>10, <1>11, <1>12, FlowStep

-----------------------------------------------------------------------------
(* The sweep.                                                              *)

\* A beat that has no run at hand moves.
LEMMA SweepMoves ==
    ASSUME FInv, NEW b \in Handlers, hand[b] \in {"idle", "sweeping"}, NEW where \in {"idle", "sweeping"},
           hand' = [hand EXCEPT ![b] = where], toWake' \in [FlowBeats -> SUBSET Runs],
           UNCHANGED <<flowRows, at, pos, memo, flowHistory, faults>>
    PROVE  FInv'
<1>1. FlowTypeOK /\ at[b] \notin Runs /\ HandOK(b)
      /\ UNCHANGED <<run, of, node, parked, live, told, unsaved, woken, hasty, crossed, dropped>>
  BY FInvHas DEF HandOK, AtRun, flowRows, flowHistory
<1>2. /\ hand' \in [Handlers -> {"idle", "met", "sweeping", "claimed", "walking", "spoke", "refused"}]
      /\ hand'[b] = where /\ OthersStay(b)
  BY <1>1 DEF FlowTypeOK, OthersStay, SameHand
<1>3. \A r \in Runs : Nodes(r)' = Nodes(r) /\ EndNode(r)' = EndNode(r)
  BY <1>1, SamePath
<1>4. FlowTypeOK'
  BY <1>1, <1>2, <1>3 DEF FlowTypeOK
<1>5. Frame({b}, {})
  BY <1>1, <1>2 DEF Frame, OthersStay, SameRow
<1>6. HandOK(b)'
  BY <1>1, <1>2 DEF HandOK, AtRun
<1> QED BY <1>4, <1>5, <1>6, FlowStep

LEMMA FindSleepersFInv == ASSUME FInv, NEW b \in FlowBeats, FindSleepers(b) PROVE FInv'
<1>1. toWake' \in [FlowBeats -> SUBSET Runs]
  BY FInvHas DEF FindSleepers, ActiveRuns, FlowTypeOK, Handlers
<1> QED BY <1>1, SweepMoves DEF FindSleepers, Handlers

LEMMA EndSweepFInv == ASSUME FInv, NEW b \in FlowBeats, EndSweep(b) PROVE FInv'
<1>1. toWake' \in [FlowBeats -> SUBSET Runs]
  BY FInvHas DEF EndSweep, FlowTypeOK, Handlers
<1> QED BY <1>1, SweepMoves DEF EndSweep, Handlers

LEMMA ClaimSleeperFInv ==
    ASSUME FInv, NEW b \in FlowBeats, NEW x \in Runs, ClaimSleeper(b, x) PROVE FInv'
<1>1. /\ hand[b] = "sweeping" /\ toWake' = [toWake EXCEPT ![b] = @ \ {x}] /\ b \in Handlers
      /\ UNCHANGED <<run, of, node, live, pos, memo, told, unsaved, crossed, dropped, faults>>
  BY DEF ClaimSleeper, Handlers
<1>2. FlowTypeOK /\ RunOK(x) /\ HandOK(b) /\ at[b] = NoRun /\ NoRun \notin Runs /\ toWake' \in [FlowBeats -> SUBSET Runs]
  <2>1. FlowTypeOK /\ RunOK(x) /\ HandOK(b) /\ at[b] = NoRun /\ NoRun \notin Runs
    BY <1>1, FInvHas DEF HandOK, AtRun
  <2> QED BY <1>1, <2>1 DEF FlowTypeOK
<1>3. CASE ~CanWake(x)
  <2>1. hand' = [hand EXCEPT ![b] = "sweeping"] /\ UNCHANGED <<parked, at, woken, hasty, hand>>
    BY <1>1, <1>2, <1>3 DEF ClaimSleeper, FlowTypeOK
  <2> QED BY <1>1, <1>2, <2>1, SweepMoves DEF flowRows, flowHistory
<1>4. CASE CanWake(x)
  <2>1. /\ parked[x] # "no" /\ parked' = [parked EXCEPT ![x] = "no"]
        /\ hand' = [hand EXCEPT ![b] = "claimed"] /\ at' = [at EXCEPT ![b] = x]
        /\ \/ hasty' = hasty \cup {x} /\ woken' = woken
           \/ hasty' = hasty /\ woken' = [woken EXCEPT ![x] = @ + 1]
    BY <1>4 DEF ClaimSleeper, CanWake
  <2>2. /\ parked' \in [Runs -> {"no", "later", "due"}] /\ parked'[x] = "no"
        /\ \A r \in Runs \ {x} : parked'[r] = parked[r]
    BY <1>2, <2>1 DEF FlowTypeOK
  <2>3. /\ FlowHandsTyped' /\ OthersStay(b)
        /\ hand'[b] = "claimed" /\ at'[b] = x /\ pos'[b] = pos[b] /\ memo'[b] = memo[b]
    BY <1>1, <1>2, <2>1 DEF FlowTypeOK, FlowHandsTyped, OthersStay, SameHand
  <2>4. /\ woken' \in [Runs -> Nat] /\ woken[x] \in Nat /\ hasty \subseteq hasty' /\ hasty' \subseteq Runs
        /\ \A r \in Runs \ {x} : woken'[r] = woken[r]
        /\ x \notin hasty' => x \notin hasty /\ woken'[x] = woken[x] + 1
    <3>1. woken \in [Runs -> Nat] /\ hasty \subseteq Runs
      BY <1>2 DEF FlowTypeOK
    <3>2. CASE hasty' = hasty \cup {x} /\ woken' = woken
      BY <3>1, <3>2
    <3>3. CASE hasty' = hasty /\ woken' = [woken EXCEPT ![x] = @ + 1]
      BY <3>1, <3>3
    <3> QED BY <2>1, <3>2, <3>3
  <2>5. \A r \in Runs : Nodes(r)' = Nodes(r) /\ EndNode(r)' = EndNode(r)
    BY <1>1, SamePath
  <2>6. FlowTypeOK'
    BY <1>1, <1>2, <2>2, <2>3, <2>4, <2>5 DEF FlowTypeOK, FlowHandsTyped
  <2>7. Frame({b}, {x})
    <3>1. \A r \in Runs \ {x} : SameRow(r)
      BY <1>1, <2>2, <2>4 DEF SameRow
    <3> QED BY <1>1, <1>2, <2>3, <2>4, <3>1 DEF Frame, OthersStay
  <2>8. of[x] \in Flows
    BY <1>2, <2>1 DEF RunOK, RowOK
  <2>9. memo[b] = NothingLoaded /\ memo[b][1] = 0 /\ pos[b] = 0 /\ 0 <= EndNode(x)
    <3>1. memo[b] = NothingLoaded /\ pos[b] = 0
      BY <1>1, <1>2 DEF HandOK
    <3> QED BY <1>2, <3>1, NodesAreFinite DEF NothingLoaded
  <2>10. HandOK(b)'
    BY <1>1, <2>3, <2>5, <2>8, <2>9 DEF HandOK, AtRun
  <2>11. RowOK(x)'
    BY <1>1, <1>2, <2>1 DEF RunOK, RowOK
  <2>12. ASSUME x \notin crossed'
         PROVE  /\ \A v \in Handlers : at'[v] = x => Follows(v, x)'
                /\ parked'[x] # "no" => run'[x] = "active"
                /\ Said(x)' /\ (x \notin hasty' => Waited(x)') /\ Rests(x)'
    <3>1. run[x] = "active" /\ Said(x) /\ (x \notin hasty => Waited(x)) /\ \A v \in Handlers : at[v] # x
      BY <1>1, <1>2, <2>1, <2>12 DEF RunOK, Follows
    <3>2. \A v \in Handlers : at'[v] = x => v = b
      BY <2>3, <3>1 DEF OthersStay, SameHand
    <3>3. \A v \in Handlers : at'[v] = x => Follows(v, x)'
      BY <1>1, <2>2, <2>3, <3>1, <3>2 DEF Follows, Unfinished, OnPath
    <3>4. \A n : Unrecorded(x, n)' <=> Unrecorded(x, n)
      BY <2>3, <3>1, <3>2 DEF Unrecorded
    <3>5. Said(x)'
      BY <1>1, <2>5, <3>1, <3>4, SamePath DEF Said, Unfinished
    <3>6. ASSUME x \notin hasty' PROVE Waited(x)'
      <4>1. Waited(x) /\ woken'[x] = woken[x] + 1
        BY <2>4, <3>1, <3>6
      <4>2. \A n : DelaysBefore(x, n) \in Nat
        BY <1>2, DelaysType
      <4>3. DelaysBefore(x, node[x]) <= woken'[x]
        BY <2>1, <4>1 DEF Waited
      <4>4. \A n \in Nodes(x) : told[x][n] > 0 => DelaysBefore(x, n) <= woken'[x]
        BY <2>4, <4>1, <4>2 DEF Waited
      <4>5. woken'[x] \in Nat
        BY <2>4, <4>1
      <4> QED BY <1>1, <2>2, <2>5, <4>2, <4>3, <4>4, <4>5, SamePath DEF Waited
    <3>7. Rests(x)'
      BY <1>1, <2>3 DEF Rests, Attended
    <3> QED BY <2>2, <3>3, <3>5, <3>6, <3>7
  <2>13. RunOK(x)'
    BY <2>11, <2>12 DEF RunOK
  <2> QED BY <1>1, <2>6, <2>7, <2>10, <2>13, FlowStep
<1> QED BY <1>3, <1>4

-----------------------------------------------------------------------------
(* Breaking off, time, and the operator.                                   *)

LEMMA BreakOffFInv == ASSUME FInv, NEW w \in Handlers, BreakOff(w) PROVE FInv'
<1>1. /\ hand[w] # "idle" /\ faults < MaxFaults /\ faults' = faults + 1
      /\ unsaved' = IF hand[w] = "spoke" THEN [unsaved EXCEPT ![at[w]] = @ + 1] ELSE unsaved
      /\ dropped' = IF at[w] \in Runs THEN dropped \cup {at[w]} ELSE dropped
      /\ at' = [at EXCEPT ![w] = NoRun] /\ pos' = [pos EXCEPT ![w] = 0] /\ memo' = [memo EXCEPT ![w] = NothingLoaded]
      /\ UNCHANGED <<run, of, node, parked, live, told, woken, hasty, crossed>>
      /\ \/ hand' = [hand EXCEPT ![w] = "idle"] /\ toWake' = [b \in FlowBeats |-> IF b = w THEN {} ELSE toWake[b]]
         \/ hand' = [hand EXCEPT ![w] = "sweeping"] /\ UNCHANGED toWake
  BY DEF BreakOff, flowRows
<1>2. FlowTypeOK /\ HandOK(w) /\ NoRun \notin Runs /\ at[w] \in Runs \cup {NoRun} /\ NothingLoaded \in Nat \X BOOLEAN
  BY FInvHas DEF NothingLoaded
<1>3. /\ at' \in [Handlers -> Runs \cup {NoRun}] /\ pos' \in [Handlers -> Nat] /\ memo' \in [Handlers -> Nat \X BOOLEAN]
      /\ at'[w] = NoRun /\ pos'[w] = 0 /\ memo'[w] = NothingLoaded
      /\ \A v \in Handlers \ {w} : at'[v] = at[v] /\ pos'[v] = pos[v] /\ memo'[v] = memo[v]
  BY <1>1, <1>2 DEF FlowTypeOK
<1>4. /\ hand' \in [Handlers -> {"idle", "met", "sweeping", "claimed", "walking", "spoke", "refused"}]
      /\ hand'[w] \in {"idle", "sweeping"} /\ \A v \in Handlers \ {w} : hand'[v] = hand[v]
  BY <1>1, <1>2 DEF FlowTypeOK
<1>5. toWake' \in [FlowBeats -> SUBSET Runs]
  BY <1>1, <1>2 DEF FlowTypeOK
<1>6. faults' \in 0 .. MaxFaults /\ dropped \subseteq dropped' /\ dropped' \subseteq Runs
  BY <1>1, <1>2, MaxFaultsAssumption DEF FlowTypeOK
<1>7. OthersStay(w) /\ HandOK(w)'
  BY <1>3, <1>4, GoneOK DEF OthersStay, SameHand
<1>8. \A r \in Runs : Nodes(r)' = Nodes(r) /\ EndNode(r)' = EndNode(r)
  BY <1>1, SamePath
<1>9. CASE at[w] \notin Runs
  <2>1. unsaved' = unsaved /\ UNCHANGED <<run, of, node, parked, live, told, woken, hasty, crossed>>
    BY <1>1, <1>2, <1>9 DEF HandOK, AtRun
  <2>2. FlowTypeOK'
    BY <1>2, <1>3, <1>4, <1>5, <1>6, <1>8, <2>1 DEF FlowTypeOK
  <2>3. Frame({w}, {})
    BY <1>1, <1>2, <1>3, <1>6, <1>7, <1>9, <2>1 DEF Frame, OthersStay, SameRow
  <2> QED BY <1>7, <2>2, <2>3, FlowStep
<1>10. ASSUME NEW x \in Runs, at[w] = x PROVE FInv'
  <2>1. /\ unsaved' \in [Runs -> Nat] /\ unsaved[x] \in Nat
        /\ unsaved'[x] = unsaved[x] + (IF hand[w] = "spoke" THEN 1 ELSE 0)
        /\ \A r \in Runs \ {x} : unsaved'[r] = unsaved[r]
    BY <1>1, <1>2, <1>10 DEF FlowTypeOK
  <2>2. FlowTypeOK'
    BY <1>1, <1>2, <1>3, <1>4, <1>5, <1>6, <1>8, <2>1 DEF FlowTypeOK
  <2>3. Frame({w}, {x})
    <3>1. \A r \in Runs \ {x} : SameRow(r)
      BY <1>1, <2>1 DEF SameRow
    <3> QED BY <1>1, <1>2, <1>3, <1>6, <1>7, <1>10, <3>1 DEF Frame, OthersStay
  <2>4. RunOK(x)
    BY FInvHas
  <2>5. RowOK(x)'
    BY <1>1, <2>4 DEF RunOK, RowOK
  <2>6. x \in dropped'
    BY <1>1, <1>10
  <2>7. ASSUME x \notin crossed'
        PROVE  /\ \A v \in Handlers : at'[v] # x
               /\ parked'[x] # "no" => run'[x] = "active"
               /\ Said(x)' /\ (x \notin hasty' => Waited(x)')
    <3>1. Follows(w, x) /\ Said(x) /\ (x \notin hasty => Waited(x))
      BY <1>1, <1>10, <2>4, <2>7 DEF RunOK
    <3>2. \A v \in Handlers : at'[v] # x
      BY <1>2, <1>3, <3>1 DEF Follows
    <3>3. \A n : Unrecorded(x, n) => hand[w] = "spoke"
      BY <3>1 DEF Unrecorded, Follows
    <3>4. ASSUME NEW n \in Nodes(x)
          PROVE  told[x][n] <= 1 + unsaved'[x] /\ (Unfinished(x) /\ n >= node[x] => told[x][n] <= unsaved'[x])
      <4>1. told[x][n] \in Nat /\ told[x][n] <= 1 + unsaved[x]
            /\ (Unfinished(x) /\ n >= node[x] /\ ~Unrecorded(x, n) => told[x][n] <= unsaved[x])
        BY <1>2, <3>1 DEF Said, FlowTypeOK
      <4> QED BY <2>1, <3>3, <4>1
    <3>5. Said(x)'
      BY <1>1, <1>8, <3>1, <3>4, SamePath DEF Said, Unfinished
    <3>6. Waited(x) => Waited(x)'
      BY <1>1, <1>8, SamePath DEF Waited
    <3> QED BY <1>1, <3>1, <3>2, <3>5, <3>6 DEF Follows
  <2>8. RunOK(x)'
    BY <2>5, <2>6, <2>7 DEF RunOK
  <2> QED BY <1>7, <2>2, <2>3, <2>8, FlowStep
<1> QED BY <1>9, <1>10

LEMMA DelayPassesFInv == ASSUME FInv, NEW x \in Runs, DelayPasses(x) PROVE FInv'
<1>1. /\ parked[x] = "later" /\ parked' = [parked EXCEPT ![x] = "due"]
      /\ UNCHANGED <<run, of, node, live, hand, at, pos, memo, toWake, told, unsaved, woken, hasty, crossed, dropped, faults>>
  BY DEF DelayPasses, flowHands, flowHistory
<1>2. FlowTypeOK /\ RunOK(x)
  BY DEF FInv
<1>3. /\ parked' \in [Runs -> {"no", "later", "due"}] /\ parked'[x] = "due"
      /\ \A r \in Runs \ {x} : parked'[r] = parked[r]
  BY <1>1, <1>2 DEF FlowTypeOK
<1>4. \A r \in Runs : Nodes(r)' = Nodes(r) /\ EndNode(r)' = EndNode(r)
  BY <1>1, SamePath
<1>5. FlowTypeOK'
  BY <1>1, <1>2, <1>3, <1>4 DEF FlowTypeOK
<1>6. Frame({}, {x})
  BY <1>1, <1>3 DEF Frame, SameRow, SameHand
<1>7. RunOK(x)'
  <2>1. RowOK(x)'
    BY <1>1, <1>2 DEF RunOK, RowOK
  <2>2. ASSUME x \notin crossed'
        PROVE  /\ \A v \in Handlers : at'[v] # x
               /\ run'[x] = "active" /\ Said(x)' /\ (x \notin hasty' => Waited(x)') /\ Rests(x)'
    <3>1. /\ \A v \in Handlers : at[v] # x
          /\ run[x] = "active" /\ Said(x) /\ (x \notin hasty => Waited(x))
      BY <1>1, <1>2, <2>2 DEF RunOK, Follows
    <3>2. \A n : Unrecorded(x, n)' <=> Unrecorded(x, n)
      BY <1>1 DEF Unrecorded
    <3>3. Said(x)'
      BY <1>1, <1>4, <3>1, <3>2, SamePath DEF Said, Unfinished
    <3>4. Waited(x) => Waited(x)'
      BY <1>1, <1>3, <1>4, SamePath DEF Waited
    <3>5. Rests(x)'
      BY <1>3 DEF Rests
    <3> QED BY <1>1, <3>1, <3>3, <3>4, <3>5
  <2> QED BY <2>1, <2>2 DEF RunOK
<1> QED BY <1>5, <1>6, <1>7, FlowStep

LEMMA NothingMovesFInv ==
    ASSUME FInv, live' \subseteq Flows, UNCHANGED <<run, of, node, parked, flowHands, flowHistory, faults>>
    PROVE  FInv'
<1>1. UNCHANGED <<run, of, node, parked, hand, at, pos, memo, toWake, told, unsaved, woken, hasty, crossed, dropped, faults>>
  BY DEF flowHands, flowHistory
<1>2. \A r \in Runs : Nodes(r)' = Nodes(r) /\ EndNode(r)' = EndNode(r)
  BY <1>1, SamePath
<1>3. FlowTypeOK'
  BY <1>1, <1>2 DEF FInv, FlowTypeOK
<1>4. Frame({}, {})
  BY <1>1 DEF Frame, SameRow, SameHand
<1> QED BY <1>3, <1>4, FlowStep

-----------------------------------------------------------------------------

LEMMA FlowRunsNextFInv == FInv /\ [FlowRunsNext]_flowVars => FInv'
<1> SUFFICES ASSUME FInv, [FlowRunsNext]_flowVars PROVE FInv'
  OBVIOUS
<1>1. ASSUME NEW w \in Handlers, Walk(w) PROVE FInv'
  BY <1>1, SpeakFInv, AwaitReplyFInv, ProceedFInv, FailRunFInv, AwaitKeywordFInv, ParkOnDelayFInv, CompleteRunFInv DEF Walk
<1>2. ASSUME NEW h \in Hooks, Advances(h) \/ Walk(h) \/ \E r \in Runs : MessageFinds(h, r) \/ MessageStarts(h, r)
      PROVE  FInv'
  <2>1. h \in Handlers
    BY DEF Handlers
  <2> QED BY <1>1, <1>2, <2>1, AdvancesFInv, MessageFindsFInv, MessageStartsFInv
<1>3. ASSUME NEW b \in FlowBeats, FindSleepers(b) \/ Sweep(b) PROVE FInv'
  <2>1. b \in Handlers
    BY DEF Handlers
  <2> QED BY <1>1, <1>3, <2>1, FindSleepersFInv, ClaimSleeperFInv, LoadSleeperFInv, EndSweepFInv DEF Sweep
<1>4. ASSUME NEW w \in Handlers, BreakOff(w) PROVE FInv'
  BY <1>4, BreakOffFInv
<1>5. ASSUME NEW r \in Runs, DelayPasses(r) PROVE FInv'
  BY <1>5, DelayPassesFInv
<1>6. ASSUME NEW f \in Flows, ToggleFlow(f) PROVE FInv'
  BY <1>6, NothingMovesFInv DEF ToggleFlow, FInv, FlowTypeOK
<1>7. CASE UNCHANGED flowVars
  BY <1>7, NothingMovesFInv DEF flowVars, flowRows, FInv, FlowTypeOK
<1> QED BY <1>2, <1>3, <1>4, <1>5, <1>6, <1>7 DEF FlowRunsNext

(* A run is walked by one handler at a time, says each of its messages once, *)
(* waits out its delays, and rests only where it waits for a reply.          *)
THEOREM RunsAreWalkedOnce == FlowRunsSpec => []FlowRunsInv
<1>1. FlowInit => FInv
  BY FlowInitFInv
<1>2. FInv /\ [FlowRunsNext]_flowVars => FInv'
  BY FlowRunsNextFInv
<1>3. FInv => FlowRunsInv
  BY FInvImplies
<1> QED BY <1>1, <1>2, <1>3, PTL DEF FlowRunsSpec

-----------------------------------------------------------------------------
(* What a step may do to a run: whoever is at one that nobody has crossed   *)
(* has loaded its row while it was unfinished, and nobody has ended it      *)
(* since.                                                                   *)

RunStays(r) ==
    /\ run[r] \in Ended => run'[r] = run[r] /\ node'[r] = node[r] /\ told'[r] = told[r]
    /\ node'[r] >= node[r]

LEMMA AttendedIsUnfinished ==
    ASSUME FInv, NEW r \in Runs, r \notin crossed, NEW w \in Handlers, at[w] = r
    PROVE  run[r] \notin Ended /\ (hand[w] # "claimed" => memo[w][1] = node[r])
BY DEF FInv, RunOK, Follows, Unfinished, Ended

LEMMA UnmovedStays ==
    ASSUME FInv, NEW r \in Runs, node' = node, told'[r] = told[r], run'[r] = run[r] \/ run[r] = "active"
    PROVE  RunStays(r)
BY DEF FInv, FlowTypeOK, RunStays, Ended

LEMMA SaveStays ==
    ASSUME FInv, NEW r \in Runs, r \notin crossed', NEW w \in Handlers, at[w] \in Runs,
           hand[w] \in OnPath \cup {"met"}, UNCHANGED <<of, live, toWake, flowHistory, faults>>,
           NEW status \in Statuses, NEW next \in Nat, next <= EndNode(at[w]), NEW resume \in {"no", "later", "same"},
           at[w] \notin crossed => next >= node[at[w]],
           Save(w, status, next, resume)
    PROVE  RunStays(r)
<1>1. PICK x \in Runs : x = at[w]
  OBVIOUS
<1>2. UNCHANGED <<told, crossed>> /\ FlowTypeOK /\ node[r] \in Nat
  BY DEF flowHistory, FInv, FlowTypeOK
<1>3. /\ \A q \in Runs \ {x} : run'[q] = run[q] /\ node'[q] = node[q]
      /\ memo[w][1] = node[x] => node'[x] = next
  BY <1>1, <1>2, SaveIsOfOne
<1>4. CASE r = x
  <2>1. run[r] \notin Ended /\ memo[w][1] = node[r] /\ next >= node[r]
    BY <1>1, <1>2, <1>4, AttendedIsUnfinished DEF OnPath
  <2> QED BY <1>3, <1>4, <2>1 DEF RunStays
<1>5. CASE r # x
  BY <1>2, <1>3, <1>5 DEF RunStays
<1> QED BY <1>4, <1>5

LEMMA FinishStays ==
    ASSUME FInv, NEW r \in Runs, r \notin crossed', NEW w \in Handlers, at[w] \in Runs,
           hand[w] \in OnPath \cup {"met"}, UNCHANGED <<of, live, toWake, flowHistory, faults>>,
           NEW status \in Ended, Finish(w, status)
    PROVE  RunStays(r)
<1> DEFINE next == memo[w][1]
<1>1. Save(w, status, next, "no") /\ status \in Statuses
  BY DEF Finish, Ended, Statuses
<1>2. next \in Nat /\ next <= EndNode(at[w])
  BY FInvHas DEF HandOK
<1>3. at[w] \notin crossed => next = node[at[w]] /\ node[at[w]] \in Nat
  BY AttendedIsUnfinished DEF OnPath, FInv, FlowTypeOK
<1>4. at[w] \notin crossed => next >= node[at[w]]
  BY <1>2, <1>3
<1> QED BY <1>1, <1>2, <1>4, SaveStays

LEMMA WalkStays ==
    ASSUME FInv, NEW r \in Runs, r \notin crossed', NEW w \in Handlers, Walk(w)
    PROVE  RunStays(r)
<1>1. CASE Speak(w)
  <2>1. UNCHANGED <<run, node, crossed>>
    BY <1>1 DEF Speak, flowRows
  <2>2. at[w] \in Runs
    BY <1>1, WalkerStands DEF Speak
  <2>3. at[w] # r => told'[r] = told[r]
    BY <1>1 DEF Speak, FInv, FlowTypeOK
  <2>4. at[w] = r => run[r] \notin Ended
    BY <2>1, AttendedIsUnfinished
  <2> QED BY <2>1, <2>3, <2>4 DEF RunStays, FInv, FlowTypeOK
<1>2. ASSUME AwaitReply(w) \/ ParkOnDelay(w) \/ \E next : Proceed(w) /\ StepTo(w, next) /\ next = pos[w] + 1
      PROVE  RunStays(r)
  <2>1. UNCHANGED <<of, live, toWake, flowHistory, faults>>
    BY <1>2 DEF AwaitReply, ParkOnDelay, Proceed
  <2>2. /\ at[w] \in Runs /\ hand[w] \in OnPath
        /\ pos[w] + 1 \in Nat /\ pos[w] + 1 <= EndNode(at[w])
    BY <1>2, WalkerStands DEF AwaitReply, ParkOnDelay, Proceed, Spoken
  <2>3. at[w] \notin crossed => pos[w] + 1 >= node[at[w]]
    BY <2>2, Passed
  <2>4. \E resume \in {"no", "later", "same"} : Save(w, "active", pos[w] + 1, resume)
    BY <1>2 DEF AwaitReply, ParkOnDelay, Park, StepTo
  <2>5. "active" \in Statuses
    BY DEF Statuses
  <2> QED BY <2>1, <2>2, <2>3, <2>4, <2>5, SaveStays
<1>3. CASE AwaitKeyword(w)
  <2>1. UNCHANGED <<of, live, toWake, flowHistory, faults>> /\ Save(w, "active", pos[w], "no")
    BY <1>3 DEF AwaitKeyword, Park
  <2>2. at[w] \in Runs /\ hand[w] \in OnPath /\ pos[w] \in Nat /\ pos[w] <= EndNode(at[w])
    BY <1>3, WalkerStands, FInvHas DEF AwaitKeyword, HandOK
  <2>3. at[w] \notin crossed => pos[w] >= node[at[w]]
    BY <2>2, Passed
  <2>4. "active" \in Statuses
    BY DEF Statuses
  <2> QED BY <2>1, <2>2, <2>3, <2>4, SaveStays
<1>4. CASE FailRun(w) \/ CompleteRun(w) \/ (Proceed(w) /\ Finish(w, "completed"))
  <2>1. hand[w] \in OnPath
    BY <1>4, WalkerStands DEF FailRun, CompleteRun, Proceed, Spoken, Stands, OnPath
  <2>2. at[w] \in Runs
    BY <2>1, FInvHas DEF HandOK, AtRun, OnPath
  <2>3. \E status \in Ended : Finish(w, status)
    BY <1>4 DEF FailRun, CompleteRun, Ended
  <2>4. UNCHANGED <<of, live, toWake, flowHistory, faults>>
    BY <1>4 DEF FailRun, CompleteRun, Proceed
  <2> QED BY <2>1, <2>2, <2>3, <2>4, FinishStays
<1>5. Proceed(w) => Finish(w, "completed") \/ StepTo(w, pos[w] + 1)
  BY DEF Proceed
<1> QED BY <1>1, <1>2, <1>3, <1>4, <1>5 DEF Walk

LEMMA FlowRunsNextStays ==
    ASSUME FInv, FlowRunsNext, NEW r \in Runs, r \notin crossed' PROVE RunStays(r)
<1>1. ASSUME NEW h \in Hooks, NEW x \in Runs, MessageFinds(h, x) PROVE RunStays(r)
  BY <1>1, UnmovedStays DEF MessageFinds, flowRows
<1>2. ASSUME NEW h \in Hooks, NEW x \in Runs, MessageStarts(h, x) PROVE RunStays(r)
  <2>1. UNCHANGED <<run, node>> /\ run[x] = "absent"
    BY <1>2 DEF MessageStarts
  <2>2. x # r => told'[r] = told[r]
    BY <1>2 DEF MessageStarts, FInv, FlowTypeOK
  <2> QED BY <2>1, <2>2 DEF RunStays, Ended, FInv, FlowTypeOK
<1>3. ASSUME NEW h \in Hooks, Advances(h) PROVE RunStays(r)
  <2>1. h \in Handlers /\ hand[h] = "met" /\ UNCHANGED <<of, live, toWake, flowHistory, faults>>
    BY <1>3 DEF Advances, Handlers
  <2>2. at[h] \in Runs
    BY <2>1, FInvHas DEF HandOK, AtRun
  <2>3. Finish(h, "expired") \/ Finish(h, "completed") \/ UNCHANGED <<run, node>>
    BY <1>3 DEF Advances
  <2>4. UNCHANGED told
    BY <2>1 DEF flowHistory
  <2> QED BY <2>1, <2>2, <2>3, <2>4, FinishStays, UnmovedStays DEF Ended
<1>4. ASSUME NEW b \in FlowBeats, FindSleepers(b) \/ EndSweep(b) \/ \E x \in Runs : ClaimSleeper(b, x)
      PROVE  RunStays(r)
  <2>1. UNCHANGED <<run, node, told>>
    BY <1>4 DEF FindSleepers, EndSweep, ClaimSleeper, flowRows, flowHistory
  <2> QED BY <2>1, UnmovedStays
<1>5. ASSUME NEW b \in FlowBeats, LoadSleeper(b) PROVE RunStays(r)
  <2>1. UNCHANGED <<node, told>>
    BY <1>5 DEF LoadSleeper, flowHistory
  <2>2. run' = run \/ (run[at[b]] = "active" /\ run' = [run EXCEPT ![at[b]] = "expired"])
    BY <1>5 DEF LoadSleeper
  <2>3. run'[r] = run[r] \/ run[r] = "active"
    BY <2>2 DEF FInv, FlowTypeOK
  <2> QED BY <2>1, <2>3, UnmovedStays
<1>6. ASSUME NEW w \in Handlers, BreakOff(w) PROVE RunStays(r)
  BY <1>6, UnmovedStays DEF BreakOff, flowRows
<1>7. ASSUME NEW x \in Runs, DelayPasses(x) PROVE RunStays(r)
  BY <1>7, UnmovedStays DEF DelayPasses, flowHistory
<1>8. ASSUME NEW f \in Flows, ToggleFlow(f) PROVE RunStays(r)
  BY <1>8, UnmovedStays DEF ToggleFlow, flowHistory
<1>9. Hooks \subseteq Handlers /\ FlowBeats \subseteq Handlers
  BY DEF Handlers
<1> QED BY <1>1, <1>2, <1>3, <1>4, <1>5, <1>6, <1>7, <1>8, <1>9, WalkStays DEF FlowRunsNext, Sweep

(* A run that has ended stays ended, and none falls back to a node it has   *)
(* left, for every set of flows, handlers and runs: the commits of          *)
(* FlowRuntime._run are of rows that nobody else has written since.         *)
THEOREM RunsEndOnce == FlowRunsSpec => RunsEnd
<1>1. FInv /\ [FlowRunsNext]_flowVars => FInv'
  BY FlowRunsNextFInv
<1>2. FInv /\ [FlowRunsNext]_flowVars =>
        [\A r \in Runs \ crossed' :
            /\ run[r] \in Ended => run'[r] = run[r] /\ node'[r] = node[r] /\ told'[r] = told[r]
            /\ node'[r] >= node[r]]_flowVars
  BY FlowRunsNextStays DEF RunStays
<1> QED BY FlowInitFInv, <1>1, <1>2, PTL DEF FlowRunsSpec, RunsEnd

-----------------------------------------------------------------------------
(* The sequence page.  That what a save reports is stored rests on what is *)
(* stored halfway: every row and every step of the draft is accounted for  *)
(* by a request that is still to be made or by one another (Halfway); and  *)
(* at the click, on the form showing what the server has (ShownFine).      *)

\* A row is that of step i of the draft that is being saved.
Belongs(j, i, r) == j.steps[i].id = r.id \/ <<i, r.id>> \in j.saved

\* The rows and cached details: ids are unique and were issued.
StoreFine ==
    /\ IsFiniteSet(rows) /\ \A r, q \in rows : r.id = q.id => r = q
    /\ \A s \in SeqIds : \A d \in details[s] :
          s <= made /\ IsFiniteSet(d) /\ \A r \in d : r.id <= issued

\* A draft of a new sequence has no rows; an editor of one is never filled.
FormFine ==
    /\ \A i \in 1 .. Len(steps) : steps[i].id <= issued
    /\ mode = "edit" => edited # 0
    /\ mode # "edit" => edited = 0 /\ ~hydrated
    /\ mode = "create" => \A i \in 1 .. Len(steps) : steps[i].id = 0 /\ steps[i].orig = <<>>

\* A request is about the step or the row its place in the loop says.
RequestFine(j, r) ==
    /\ r.id <= issued
    /\ r.kind = "create" => r = Request("create", 0, 0) /\ j.target = 0
    /\ r.kind = "post" => r.index \in 1 .. Len(j.steps) /\ r.id = 0 /\ j.steps[r.index].id = 0
    /\ r.kind = "put" => r.index \in 1 .. Len(j.steps) /\ r.id # 0 /\ r.id = j.steps[r.index].id
    /\ r.kind = "delete" => /\ r.index = 0
                            /\ \A i \in 1 .. Len(j.steps) : j.steps[i].id # r.id
                            /\ \A p \in j.saved : p[2] # r.id

\* A step that was stored by this save had no row, and is not stored again.
SavedFine(j, p) ==
    /\ p[1] \in 1 .. Len(j.steps) /\ p[2] <= issued
    /\ j.steps[p[1]].id = 0 /\ Request("post", p[1], 0) \notin j.todo
    /\ \A k \in 1 .. Len(j.steps) : j.steps[k].id # p[2]
    /\ \A q \in j.saved : (p[1] = q[1]) <=> (p[2] = q[2])

\* A save knows what it creates, and the editor it came from.
JobFine(j) ==
    /\ \A i \in 1 .. Len(j.steps) : j.steps[i].id <= issued /\ j.steps[i].text # NoMessage
    /\ \A r \in j.todo : RequestFine(j, r)
    /\ \A p \in j.saved : SavedFine(j, p)
    /\ j.target <= made
    /\ j.creates => \A i \in 1 .. Len(j.steps) : j.steps[i].id = 0
    /\ j.creates /\ j.mounted => mode = "create" /\ (j.target # 0 => boundTo = j.target)
    /\ j.creates /\ j.target # 0 => details[j.target] = {}
    /\ mode = "edit" => ~j.creates /\ j.target = edited
    /\ j.target = 0 => /\ j.creates /\ j.saved = {}
                       /\ \A i \in 1 .. Len(j.steps) : Request("post", i, 0) \in j.todo

\* What is stored of a draft while its save goes on: a row is still to be
\* deleted or that of a step, a step is still to be stored or has a row, and
\* that row says what the step says or is still to be changed.
Halfway(j) ==
    /\ \A i, k \in 1 .. Len(j.steps) : j.steps[i].id # 0 /\ j.steps[i].id = j.steps[k].id => i = k
    /\ \A r \in RowsOf(j.target) :
          Request("delete", 0, r.id) \in j.todo \/ \E i \in 1 .. Len(j.steps) : Belongs(j, i, r)
    /\ \A i \in 1 .. Len(j.steps) :
          Request("post", i, 0) \in j.todo \/ \E r \in RowsOf(j.target) : Belongs(j, i, r)
    /\ \A i \in 1 .. Len(j.steps) : \A r \in RowsOf(j.target) :
          Belongs(j, i, r) =>
              Request("put", i, r.id) \in j.todo \/ (r.text = j.steps[i].text /\ r.order = i)
    /\ \A p \in j.saved : \E r \in RowsOf(j.target) : r.id = p[2]

\* A step of the draft that has a row is a row of the sequence, as it was
\* loaded unless its text was never loaded; no two have the same.
DraftFine ==
    /\ \A i \in 1 .. Len(steps) : steps[i].id # 0 =>
          \E r \in RowsOf(edited) :
              r.id = steps[i].id /\ (steps[i].orig = <<>> \/ steps[i].orig = <<r.text, r.order>>)
    /\ \A i, k \in 1 .. Len(steps) : steps[i].id # 0 /\ steps[i].id = steps[k].id => i = k

\* What the editor shows is what the server has, until its save writes.
ShownFine ==
    mode = "edit" /\ edited \in seqs /\ (\A j \in save : ~j.wrote) =>
        DraftFine /\ \A d \in details[edited] : d = RowsOf(edited)

\* The inductive invariant of the sequence page.
SeqEdInv ==
    /\ EditorTypeOK /\ StoreFine /\ FormFine
    /\ \A j \in save : JobFine(j)
    /\ reported # {} => save = {}
    /\ blemish = {} => /\ SavedIsStored /\ ShownFine
                       /\ \A j \in save : j.target \in seqs => Halfway(j)

\* What the constants are.
LEMMA EditorBounds ==
    MaxSteps \in Nat \ {0} /\ MaxSeqs \in Nat \ {0} /\ MaxIds \in Nat \ {0} /\ MaxSaves \in Nat
    /\ NoMessage \notin Messages
BY EditorAssumption

\* What fills the editor from a cached detail: a step for a row of it.
LEMMA MappedIs ==
    ASSUME NEW d \in SUBSET Row, IsFiniteSet(d), NEW ss \in Mapped(d)
    PROVE  /\ ss \in Seq(DraftStep) /\ ss # <<>>
           /\ \A i \in 1 .. Len(ss) : ss[i].id = 0
                 \/ \E r \in d : ss[i].id = r.id /\ ss[i].orig = <<r.text, r.order>>
           /\ (\A r, q \in d : r.id = q.id => r = q) =>
                 \A i, k \in 1 .. Len(ss) : ss[i].id # 0 /\ ss[i].id = ss[k].id => i = k
<1>1. CASE d = {}
  <2>1. ss = <<BlankStep>>
    BY <1>1 DEF Mapped
  <2>2. BlankStep \in DraftStep /\ BlankStep.id = 0
    BY EditorBounds DEF BlankStep, Draft, DraftStep
  <2>3. Len(ss) = 1 /\ ss[1] = BlankStep /\ ss # <<>> /\ ss \in Seq(DraftStep)
    BY <2>1, <2>2
  <2> QED BY <2>2, <2>3
<1>2. CASE d # {}
  <2>1. PICK o \in InOrder(d) : ss = [i \in DOMAIN o |-> Loaded(o[i])]
    BY <1>2 DEF Mapped
  <2> DEFINE n == Cardinality(d)
  <2>2. n \in Nat /\ n # 0
    BY <1>2, FS_CardinalityType, FS_EmptySet
  <2>3. /\ o \in [1 .. n -> d]
        /\ \A i, k \in 1 .. n : i < k => Before(o[i], o[k])
    BY <2>1 DEF InOrder
  <2>4. ss = [i \in 1 .. n |-> Loaded(o[i])]
    BY <2>1, <2>3
  <2> HIDE DEF n
  <2>5. \A r \in d : /\ Loaded(r) \in DraftStep /\ Loaded(r).id = r.id
                     /\ Loaded(r).orig = <<r.text, r.order>>
    BY EditorBounds DEF Loaded, Draft, DraftStep, Row
  <2>6. ss \in [1 .. n -> DraftStep]
    BY <2>3, <2>4, <2>5
  <2>7. ss \in Seq(DraftStep) /\ Len(ss) = n /\ ss # <<>>
    BY <2>2, <2>6
  <2>8. ASSUME NEW i \in 1 .. n
        PROVE  \E r \in d : ss[i].id = r.id /\ ss[i].orig = <<r.text, r.order>>
    BY <2>3, <2>4, <2>5
  <2>9. ASSUME \A r, q \in d : r.id = q.id => r = q,
               NEW i \in 1 .. n, NEW k \in 1 .. n, ss[i].id = ss[k].id
        PROVE  i = k
    <3>1. o[i] \in d /\ o[k] \in d /\ o[i].id = o[k].id
      BY <2>3, <2>4, <2>5, <2>9
    <3>2. o[i] = o[k]
      BY <2>9, <3>1
    <3>3. o[i].order \in Nat /\ o[i].id \in Nat
      BY <3>1, EditorBounds DEF Row
    <3>4. ~Before(o[i], o[i])
      BY <3>3 DEF Before
    <3> QED BY <2>2, <2>3, <3>2, <3>4
  <2> QED BY <2>7, <2>8, <2>9
<1> QED BY <1>1, <1>2

\* A save that has come to its end has stored its draft.
LEMMA SavedInOrder ==
    ASSUME NEW j, j.steps \in Seq(DraftStep), j.saved \subseteq Nat \X (1 .. MaxIds),
           j.todo = {}, rows \subseteq Row, Halfway(j), \A p \in j.saved : SavedFine(j, p),
           \A r, q \in rows : r.id = q.id => r = q
    PROVE  \E o \in InOrder(RowsOf(j.target)) : TextsOf(o) = TextsOf(j.steps)
<1> DEFINE n == Len(j.steps)
           R == RowsOf(j.target)
           o == [i \in 1 .. n |-> CHOOSE r \in R : Belongs(j, i, r)]
<1>1. n \in Nat /\ DOMAIN j.steps = 1 .. n
  OBVIOUS
<1>2. \A i \in 1 .. n : o[i] \in R /\ Belongs(j, i, o[i])
  BY DEF Halfway
<1>3. \A i \in 1 .. n : o[i].text = j.steps[i].text /\ o[i].order = i
  BY <1>2 DEF Halfway
<1> HIDE DEF o, R, n
<1>4. \A i, k \in 1 .. n : o[i] = o[k] => i = k
  BY <1>3
<1>5. ASSUME NEW r \in R PROVE \E i \in 1 .. n : o[i] = r
  <2>1. PICK i \in 1 .. n : Belongs(j, i, r)
    BY DEF Halfway, R, n
  <2>2. r \in rows /\ o[i] \in rows /\ r.id \in 1 .. MaxIds /\ o[i].id \in 1 .. MaxIds
    BY <1>2 DEF RowsOf, Row, R
  <2>3. r.id = o[i].id
    <3>1. Belongs(j, i, o[i])
      BY <1>2
    <3>2. r.id # 0 /\ o[i].id # 0
      BY <2>2, EditorBounds
    <3>3. ASSUME NEW p \in j.saved, p[1] = i PROVE j.steps[i].id = 0
      BY <3>3 DEF SavedFine
    <3>4. ASSUME NEW p \in j.saved, NEW q \in j.saved, p[1] = q[1] PROVE p[2] = q[2]
      BY <3>4 DEF SavedFine
    <3>5. CASE j.steps[i].id = r.id
      <4>1. <<i, o[i].id>> \notin j.saved
        BY <3>2, <3>3, <3>5
      <4> QED BY <3>1, <3>5, <4>1 DEF Belongs
    <3>6. CASE <<i, r.id>> \in j.saved
      <4>1. j.steps[i].id = 0
        BY <3>3, <3>6
      <4>2. <<i, o[i].id>> \in j.saved
        BY <3>1, <3>2, <4>1 DEF Belongs
      <4> QED BY <3>4, <3>6, <4>2
    <3> QED BY <2>1, <3>5, <3>6 DEF Belongs
  <2> QED BY <2>2, <2>3
<1>6. o \in [1 .. n -> R]
  BY <1>2 DEF o
<1>7. o \in Bijection(1 .. n, R)
  BY <1>4, <1>5, <1>6 DEF Bijection, Injection, Surjection, IsInjective
<1>8. Cardinality(R) = n
  <2>1. IsFiniteSet(1 .. n) /\ Cardinality(1 .. n) = n
    <3>1. 1 \in Int /\ n \in Int
      BY <1>1
    <3>2. IsFiniteSet(1 .. n) /\ Cardinality(1 .. n) = (IF 1 > n THEN 0 ELSE n - 1 + 1)
      BY <3>1, FS_Interval, Zenon
    <3> QED BY <1>1, <3>2
  <2>2. ExistsBijection(1 .. n, R)
    BY <1>7 DEF ExistsBijection
  <2> QED BY <2>1, <2>2, FS_Bijection
<1>9. o \in InOrder(R)
  BY <1>3, <1>6, <1>8 DEF InOrder, Before
<1>10. TextsOf(o) = TextsOf(j.steps)
  BY <1>1, <1>3, <1>6 DEF TextsOf, n
<1> QED BY <1>9, <1>10 DEF R

\* What the server keeps, whatever a save asks for.
StoreTypeOK ==
    /\ rows \subseteq Row /\ seqs \subseteq 1 .. made /\ made \in 1 .. MaxSeqs
    /\ issued \in 1 .. MaxIds /\ \A r \in rows : r.id <= issued /\ r.seq \in seqs
    /\ IsFiniteSet(rows) /\ \A r, q \in rows : r.id = q.id => r = q

\* What each kind of request makes of the rows.
LEMMA Carried ==
    ASSUME SeqEdInv, NEW j \in save, NEW r \in j.todo, Feasible(j, r), Carry(j, r)
    PROVE  /\ r.kind = "create" => /\ made < MaxSeqs /\ made' = made + 1 /\ seqs' = seqs \cup {made + 1}
                                   /\ UNCHANGED <<rows, issued>>
           /\ r.kind = "meta" => UNCHANGED storeVars
           /\ r.kind = "post" =>
                 /\ j.target \in seqs /\ issued < MaxIds /\ issued' = issued + 1 /\ UNCHANGED <<seqs, made>>
                 /\ r.index \in 1 .. Len(j.steps)
                 /\ \E w \in Row : /\ rows' = rows \cup {w} /\ w.id = issued + 1 /\ w.seq = j.target
                                   /\ w.text = j.steps[r.index].text /\ w.order = r.index
           /\ r.kind = "put" =>
                 /\ UNCHANGED <<seqs, made, issued>> /\ r.index \in 1 .. Len(j.steps)
                 /\ \E w \in rows : \E v \in Row :
                       /\ w.id = r.id /\ rows' = (rows \ {w}) \cup {v}
                       /\ v.id = w.id /\ v.seq = w.seq
                       /\ v.text = j.steps[r.index].text /\ v.order = r.index
           /\ r.kind = "delete" =>
                 /\ UNCHANGED <<seqs, made, issued>>
                 /\ \E w \in rows : w.id = r.id /\ rows' = rows \ {w}
<1> DEFINE n == Len(j.steps)
<1>1. /\ j \in SaveJobs /\ r \in StepRequests /\ JobFine(j) /\ RequestFine(j, r)
      /\ rows \subseteq Row /\ \A p, q \in rows : p.id = q.id => p = q
      /\ issued \in 1 .. MaxIds /\ seqs \subseteq 1 .. made /\ made \in 1 .. MaxSeqs
  <2>1. j \in SaveJobs /\ JobFine(j)
    BY DEF SeqEdInv, EditorTypeOK
  <2>2. r \in StepRequests /\ RequestFine(j, r)
    BY <2>1 DEF SaveJobs, JobFine
  <2> QED BY <2>1, <2>2 DEF SeqEdInv, EditorTypeOK, StoreFine
<1>2. CASE r.kind = "create"
  BY <1>2 DEF Feasible, Carry
<1>3. CASE r.kind = "meta"
  BY <1>3 DEF Feasible, Carry
<1>4. ASSUME r.kind \in {"post", "put"}
      PROVE  r.index \in 1 .. n /\ r.index \in Nat \ {0} /\ j.steps[r.index].text \in Messages
  <2>1. r.index \in 1 .. n
    BY <1>1, <1>4 DEF RequestFine
  <2>2. j.steps \in Seq(DraftStep)
    BY <1>1 DEF SaveJobs
  <2>3. j.steps[r.index] \in DraftStep
    BY <2>1, <2>2
  <2>4. j.steps[r.index].text # NoMessage
    BY <1>1, <2>1 DEF JobFine
  <2> QED BY <2>1, <2>2, <2>3, <2>4 DEF DraftStep
<1>5. CASE r.kind = "post"
  <2> DEFINE w == [id |-> issued + 1, seq |-> j.target, text |-> j.steps[r.index].text, order |-> r.index]
  <2>1. /\ j.target \in seqs /\ issued < MaxIds
        /\ issued' = issued + 1 /\ rows' = rows \cup {w} /\ UNCHANGED <<seqs, made>>
    BY <1>5 DEF Feasible, Carry
  <2>2. w \in Row
    <3>1. j.target \in seqs /\ issued < MaxIds
      BY <2>1
    <3>2. j.target \in SeqIds
      <4>1. MaxSeqs \in Nat /\ made \in 1 .. MaxSeqs /\ seqs \subseteq 1 .. made
        BY <1>1, EditorBounds
      <4>2. 1 .. made \subseteq 1 .. MaxSeqs
        BY <4>1
      <4> QED BY <3>1, <4>1, <4>2 DEF SeqIds
    <3>3. issued + 1 \in 1 .. MaxIds
      BY <1>1, <3>1, EditorBounds
    <3> QED BY <1>4, <1>5, <3>2, <3>3 DEF Row
  <2> QED BY <1>4, <1>5, <2>1, <2>2
<1>6. CASE r.kind = "put"
  <2>1. PICK w \in rows : w.id = r.id
    BY <1>6 DEF Feasible
  <2> DEFINE v == [id |-> w.id, seq |-> w.seq, text |-> j.steps[r.index].text, order |-> r.index]
             stored(id) == [id |-> id, seq |-> j.target, text |-> j.steps[r.index].text, order |-> r.index]
             keep == {x \in rows : x.id # r.id}
             own(x) == [stored(x.id) EXCEPT !.seq = x.seq]
  <2>2. rows' = keep \cup {own(x) : x \in rows \ keep} /\ UNCHANGED <<seqs, made, issued>>
    BY <1>6 DEF Carry
  <2>3. keep = rows \ {w} /\ rows \ keep = {w}
    BY <1>1, <2>1
  <2>4. own(w) = v
    OBVIOUS
  <2>5. v \in Row
    BY <1>1, <1>4, <1>6, <2>1 DEF Row
  <2>6. rows' = (rows \ {w}) \cup {v}
    <3> HIDE DEF own, v, keep
    <3>1. {own(x) : x \in {w}} = {own(w)}
      OBVIOUS
    <3> QED BY <2>2, <2>3, <2>4, <3>1
  <2>7. v.id = w.id /\ v.seq = w.seq /\ v.text = j.steps[r.index].text /\ v.order = r.index
    OBVIOUS
  <2> QED BY <1>4, <1>6, <2>1, <2>2, <2>5, <2>6, <2>7
<1>7. CASE r.kind = "delete"
  <2>1. PICK w \in rows : w.id = r.id
    BY <1>7 DEF Feasible
  <2>2. rows' = {x \in rows : x.id # r.id} /\ UNCHANGED <<seqs, made, issued>>
    BY <1>7 DEF Carry
  <2> QED BY <1>1, <1>7, <2>1, <2>2
<1>8. r.kind \in RequestKinds
  BY <1>1 DEF StepRequests
<1> QED BY <1>2, <1>3, <1>5, <1>6, <1>7, <1>8 DEF RequestKinds

\* Whatever is carried out, the rows stay typed and their ids unique.
LEMMA CarryKeepsStore ==
    ASSUME SeqEdInv, NEW j \in save, NEW r \in j.todo, Feasible(j, r), Carry(j, r)
    PROVE  StoreTypeOK' /\ issued <= issued' /\ made <= made' /\ seqs \subseteq seqs'
<1>1. StoreTypeOK /\ r \in StepRequests /\ \A w \in rows : w.id \in Nat /\ w.id # 0
  BY EditorBounds DEF SeqEdInv, EditorTypeOK, StoreFine, StoreTypeOK, SaveJobs, Row
<1>2. issued \in Nat /\ made \in Nat
  BY <1>1, EditorBounds DEF StoreTypeOK
<1>3. CASE r.kind = "create"
  <2>1. /\ made < MaxSeqs /\ made' = made + 1 /\ seqs' = seqs \cup {made + 1}
        /\ UNCHANGED <<rows, issued>>
    BY <1>3, Carried
  <2> QED BY <1>1, <1>2, <2>1, EditorBounds DEF StoreTypeOK
<1>4. CASE r.kind = "meta"
  <2>1. UNCHANGED storeVars
    BY <1>4, Carried
  <2> QED BY <1>1, <1>2, <2>1 DEF StoreTypeOK, storeVars
<1>5. CASE r.kind = "post"
  <2>1. /\ j.target \in seqs /\ issued < MaxIds /\ issued' = issued + 1 /\ UNCHANGED <<seqs, made>>
        /\ \E w \in Row : rows' = rows \cup {w} /\ w.id = issued + 1 /\ w.seq = j.target
    BY <1>5, Carried
  <2>2. PICK w \in Row : rows' = rows \cup {w} /\ w.id = issued + 1 /\ w.seq = j.target
    BY <2>1
  <2>3. IsFiniteSet(rows')
    BY <1>1, <2>2, FS_AddElement DEF StoreTypeOK
  <2>4. \A p, q \in rows' : p.id = q.id => p = q
    BY <1>1, <1>2, <2>2 DEF StoreTypeOK
  <2>5. \A p \in rows' : p.id <= issued' /\ p.seq \in seqs'
    BY <1>1, <1>2, <2>1, <2>2 DEF StoreTypeOK
  <2>6. issued' \in 1 .. MaxIds /\ issued <= issued'
    BY <1>1, <1>2, <2>1, EditorBounds DEF StoreTypeOK
  <2> QED BY <1>1, <1>2, <2>1, <2>2, <2>3, <2>4, <2>5, <2>6 DEF StoreTypeOK
<1>6. CASE r.kind = "put"
  <2>1. /\ UNCHANGED <<seqs, made, issued>>
        /\ \E w \in rows : \E v \in Row :
              rows' = (rows \ {w}) \cup {v} /\ v.id = w.id /\ v.seq = w.seq
    BY <1>6, Carried
  <2>2. PICK w \in rows : \E v \in Row :
              rows' = (rows \ {w}) \cup {v} /\ v.id = w.id /\ v.seq = w.seq
    BY <2>1
  <2>3. PICK v \in Row : rows' = (rows \ {w}) \cup {v} /\ v.id = w.id /\ v.seq = w.seq
    BY <2>2
  <2>4. IsFiniteSet(rows')
    BY <1>1, <2>3, FS_AddElement, FS_RemoveElement DEF StoreTypeOK
  <2>5. \A p, q \in rows' : p.id = q.id => p = q
    BY <1>1, <2>3 DEF StoreTypeOK
  <2> QED BY <1>1, <1>2, <2>1, <2>3, <2>4, <2>5 DEF StoreTypeOK
<1>7. CASE r.kind = "delete"
  <2>1. UNCHANGED <<seqs, made, issued>> /\ \E w \in rows : rows' = rows \ {w}
    BY <1>7, Carried
  <2>2. IsFiniteSet(rows')
    BY <1>1, <2>1, FS_RemoveElement DEF StoreTypeOK
  <2> QED BY <1>1, <1>2, <2>1, <2>2 DEF StoreTypeOK
<1> QED BY <1>1, <1>3, <1>4, <1>5, <1>6, <1>7 DEF StepRequests, RequestKinds

\* The save after one of its requests, field by field.
LEMMA NextRequestIs ==
    ASSUME NEW j \in SaveJobs, NEW r \in StepRequests, NEW k, k = NextRequest(j, r)
    PROVE  /\ k.steps = j.steps /\ k.creates = j.creates /\ k.mounted = j.mounted
           /\ k.todo = j.todo \ {r} /\ k.wrote = (j.wrote \/ r.kind # "meta")
           /\ k.target = (IF r.kind = "create" THEN made + 1 ELSE j.target)
           /\ k.saved = (IF r.kind = "post" THEN j.saved \cup {<<r.index, issued + 1>>} ELSE j.saved)
BY DEF NextRequest, SaveJobs

\* A request that was answered leaves a save that knows what it did.
LEMMA JobGoesOn ==
    ASSUME SeqEdInv, NEW j \in save, NEW r \in NextUp(j), SaveStep(j, r), NEW k \in save'
    PROVE  k \in SaveJobs /\ JobFine(k)'
<1>1. /\ j \in SaveJobs /\ JobFine(j) /\ r \in j.todo /\ r \in StepRequests /\ RequestFine(j, r)
      /\ Feasible(j, r) /\ Carry(j, r) /\ k = NextRequest(j, r)
      /\ boundTo' = (IF r.kind = "create" /\ j.mounted THEN made + 1 ELSE boundTo)
      /\ UNCHANGED <<details, mode, edited>>
  <2>1. j \in SaveJobs /\ JobFine(j) /\ r \in j.todo
    BY DEF SeqEdInv, EditorTypeOK, NextUp
  <2>2. r \in StepRequests /\ RequestFine(j, r)
    BY <2>1 DEF SaveJobs, JobFine
  <2> QED BY <2>1, <2>2 DEF SaveStep
<1>2. /\ k.steps = j.steps /\ k.creates = j.creates /\ k.mounted = j.mounted
      /\ k.todo = j.todo \ {r} /\ k.wrote = (j.wrote \/ r.kind # "meta")
      /\ k.target = (IF r.kind = "create" THEN made + 1 ELSE j.target)
      /\ k.saved = (IF r.kind = "post" THEN j.saved \cup {<<r.index, issued + 1>>} ELSE j.saved)
  <2>1. j \in SaveJobs /\ r \in StepRequests /\ k = NextRequest(j, r)
    BY <1>1
  <2> QED BY <2>1 DEF NextRequest, SaveJobs
<1>3. /\ issued <= issued' /\ made <= made' /\ issued \in 1 .. MaxIds /\ issued' \in 1 .. MaxIds
      /\ made \in 1 .. MaxSeqs /\ made' \in 1 .. MaxSeqs /\ seqs \subseteq 1 .. made
      /\ \A s \in SeqIds : details[s] # {} => s <= made
  BY <1>1, CarryKeepsStore DEF StoreTypeOK, SeqEdInv, EditorTypeOK, StoreFine
<1>4. /\ r.kind = "create" => made' = made + 1
      /\ r.kind = "post" => issued' = issued + 1 /\ j.target \in seqs
      /\ issued \in Nat /\ issued' \in Nat /\ made \in Nat /\ made' \in Nat
  BY <1>1, <1>3, Carried, EditorBounds
<1>5. j.steps \in Seq(DraftStep) /\ j.saved \subseteq Nat \X (1 .. MaxIds) /\ j.todo \subseteq StepRequests
  BY <1>1 DEF SaveJobs
<1>6. \A i \in 1 .. Len(j.steps) : j.steps[i].id \in Nat /\ j.steps[i].id <= issued
  <2>1. \A i \in 1 .. Len(j.steps) : j.steps[i] \in DraftStep
    BY <1>5
  <2> QED BY <1>1, <2>1, EditorBounds DEF JobFine, DraftStep
<1>7. \A p \in j.saved : p[1] \in Nat /\ p[2] \in Nat /\ p[2] <= issued
  BY <1>1, <1>5, EditorBounds DEF JobFine, SavedFine
<1>8. \A q \in j.todo : q.id \in Nat /\ q.id <= issued
  BY <1>1, <1>5, EditorBounds DEF JobFine, RequestFine, StepRequests
<1>9. r.kind = "post" => r.index \in 1 .. Len(j.steps) /\ r = Request("post", r.index, 0) /\ r.index \in Nat
  BY <1>1, <1>5 DEF RequestFine, StepRequests, Request
<1>10. k \in SaveJobs
  <2>1. k.target \in 0 .. MaxSeqs
    BY <1>1, <1>2, <1>3, <1>4, EditorBounds DEF SaveJobs
  <2>2. k.saved \subseteq Nat \X (1 .. MaxIds)
    BY <1>2, <1>3, <1>4, <1>5, <1>9, EditorBounds
  <2>3. k.todo \subseteq StepRequests
    BY <1>2, <1>5
  <2>4. k = [j EXCEPT !.todo = k.todo, !.wrote = k.wrote, !.target = k.target, !.saved = k.saved]
    BY <1>1, <1>2 DEF NextRequest
  <2>5. k.wrote \in BOOLEAN
    BY <1>2
  <2> QED BY <1>1, <2>1, <2>2, <2>3, <2>4, <2>5 DEF SaveJobs
<1>11. ASSUME NEW q \in k.todo PROVE RequestFine(k, q)'
  <2>1. q \in j.todo /\ RequestFine(j, q) /\ q # r
    BY <1>1, <1>2, <1>11 DEF JobFine
  <2>2. q.id <= issued'
    BY <1>3, <1>4, <1>8, <2>1
  <2>3. q.kind = "create" => q = Request("create", 0, 0) /\ k.target = 0
    BY <1>1, <1>2, <2>1 DEF RequestFine
  <2>4. q.kind = "delete" => \A p \in k.saved : p[2] # q.id
    BY <1>2, <1>4, <1>8, <2>1 DEF RequestFine
  <2> QED BY <1>2, <2>1, <2>2, <2>3, <2>4 DEF RequestFine
<1>12. ASSUME NEW p \in k.saved PROVE SavedFine(k, p)'
  <2>1. CASE r.kind # "post"
    <3>1. p \in j.saved /\ k.saved = j.saved
      BY <1>2, <2>1
    <3> QED BY <1>1, <1>2, <1>3, <1>4, <1>7, <3>1 DEF JobFine, SavedFine
  <2>2. CASE r.kind = "post"
    <3> DEFINE new == <<r.index, issued + 1>>
    <3>1. new[1] = r.index /\ new[2] = issued + 1 /\ k.saved = j.saved \cup {new}
      BY <1>2, <2>2
    <3>2. \A q \in j.saved : q[1] # r.index /\ q[2] # issued + 1
      BY <1>1, <1>4, <1>7, <1>9, <2>2 DEF JobFine, SavedFine
    <3> HIDE DEF new
    <3>3. CASE p = new
      <4>1. Request("post", p[1], 0) \notin k.todo
        BY <1>2, <1>9, <2>2, <3>1, <3>3
      <4>2. \A i \in 1 .. Len(j.steps) : j.steps[i].id # p[2]
        BY <1>4, <1>6, <3>1, <3>3
      <4>3. j.steps[p[1]].id = 0 /\ p[1] \in 1 .. Len(j.steps) /\ p[2] <= issued'
        BY <1>1, <1>4, <1>9, <2>2, <3>1, <3>3 DEF RequestFine
      <4> QED BY <1>2, <3>1, <3>2, <3>3, <4>1, <4>2, <4>3 DEF SavedFine
    <3>4. CASE p \in j.saved
      <4>1. SavedFine(j, p) /\ p[2] <= issued'
        BY <1>1, <1>3, <1>4, <1>7, <3>4 DEF JobFine
      <4> QED BY <1>2, <3>1, <3>2, <3>4, <4>1 DEF SavedFine
    <3> QED BY <3>1, <3>3, <3>4
  <2> QED BY <2>1, <2>2
<1>13. k.target <= made' /\ (k.target = 0 => j.target = 0 /\ r.kind # "create")
  BY <1>1, <1>2, <1>3, <1>4 DEF JobFine, SaveJobs
<1>14. k.target = 0 => r.kind # "post"
  BY <1>3, <1>4, <1>13
<1>15. k.creates /\ k.target # 0 => details[k.target] = {}
  <2>1. CASE r.kind = "create"
    <3>1. k.target = made + 1 /\ made + 1 \in SeqIds
      BY <1>2, <1>3, <1>4, <2>1 DEF SeqIds
    <3> QED BY <1>3, <1>4, <3>1
  <2>2. CASE r.kind # "create"
    BY <1>1, <1>2, <2>2 DEF JobFine
  <2> QED BY <2>1, <2>2
<1>16. k.creates /\ k.mounted => mode = "create" /\ (k.target # 0 => boundTo' = k.target)
  BY <1>1, <1>2 DEF JobFine
<1>17. mode = "edit" => ~k.creates /\ k.target = edited
  <2>1. mode = "edit" => edited # 0
    BY DEF SeqEdInv, FormFine
  <2> QED BY <1>1, <1>2, <2>1 DEF JobFine, RequestFine
<1>18. k.target = 0 => /\ k.creates /\ k.saved = {}
                       /\ \A i \in 1 .. Len(k.steps) : Request("post", i, 0) \in k.todo
  BY <1>1, <1>2, <1>13, <1>14 DEF JobFine, Request
<1>19. \A i \in 1 .. Len(k.steps) : k.steps[i].id <= issued' /\ k.steps[i].text # NoMessage
  BY <1>1, <1>2, <1>3, <1>4, <1>6 DEF JobFine
<1>20. k.creates => \A i \in 1 .. Len(k.steps) : k.steps[i].id = 0
  BY <1>1, <1>2 DEF JobFine
<1> QED BY <1>1, <1>10, <1>11, <1>12, <1>13, <1>15, <1>16, <1>17, <1>18, <1>19, <1>20 DEF JobFine

\* So does what is stored of the draft meanwhile.
LEMMA HalfwayGoesOn ==
    ASSUME SeqEdInv, NEW j \in save, NEW r \in NextUp(j), SaveStep(j, r), NEW k \in save',
           k.target \in seqs', j.target \in seqs => Halfway(j)
    PROVE  Halfway(k)'
<1>1. /\ j \in SaveJobs /\ JobFine(j) /\ r \in j.todo /\ r \in StepRequests /\ RequestFine(j, r)
      /\ Feasible(j, r) /\ Carry(j, r) /\ k = NextRequest(j, r)
  <2>1. j \in SaveJobs /\ JobFine(j) /\ r \in j.todo
    BY DEF SeqEdInv, EditorTypeOK, NextUp
  <2>2. r \in StepRequests /\ RequestFine(j, r)
    BY <2>1 DEF SaveJobs, JobFine
  <2> QED BY <2>1, <2>2 DEF SaveStep
<1>2. /\ k.steps = j.steps /\ k.todo = j.todo \ {r}
      /\ k.target = (IF r.kind = "create" THEN made + 1 ELSE j.target)
      /\ k.saved = (IF r.kind = "post" THEN j.saved \cup {<<r.index, issued + 1>>} ELSE j.saved)
  <2>1. j \in SaveJobs /\ r \in StepRequests /\ k = NextRequest(j, r)
    BY <1>1
  <2> QED BY <2>1, NextRequestIs
<1>3. /\ rows \subseteq Row /\ \A p, q \in rows : p.id = q.id => p = q
      /\ \A p \in rows : p.id <= issued /\ p.seq \in seqs /\ p.id \in Nat /\ p.id # 0
      /\ issued \in Nat /\ made \in Nat /\ seqs \subseteq 1 .. made
  BY EditorBounds DEF SeqEdInv, EditorTypeOK, StoreFine, Row
<1>4. j.steps \in Seq(DraftStep) /\ j.saved \subseteq Nat \X (1 .. MaxIds) /\ j.todo \subseteq StepRequests
  BY <1>1 DEF SaveJobs
<1>5. \A i \in 1 .. Len(j.steps) : j.steps[i].id \in Nat /\ j.steps[i].id <= issued
  <2>1. \A i \in 1 .. Len(j.steps) : j.steps[i] \in DraftStep
    BY <1>4
  <2> QED BY <1>1, <2>1, EditorBounds DEF JobFine, DraftStep
<1>6. CASE r.kind = "create"
  <2>1. k.target = made + 1 /\ UNCHANGED <<rows, issued>> /\ k.saved = j.saved
    BY <1>1, <1>2, <1>6, Carried
  <2>2. RowsOf(k.target)' = {}
    BY <1>3, <2>1 DEF RowsOf
  <2>3. j.target = 0 /\ j.saved = {} /\ r = Request("create", 0, 0)
    BY <1>1, <1>6 DEF RequestFine, JobFine
  <2>4. \A i \in 1 .. Len(j.steps) : j.steps[i].id = 0 /\ Request("post", i, 0) \in k.todo
    BY <1>1, <1>2, <2>3 DEF JobFine, Request
  <2>5. k.saved = {}
    BY <2>1, <2>3
  <2> QED BY <1>2, <2>2, <2>4, <2>5 DEF Halfway, RowsOf
<1>7. ASSUME r.kind # "create"
      PROVE  k.target = j.target /\ j.target \in seqs /\ Halfway(j)
  <2>1. k.target = j.target
    BY <1>2, <1>7
  <2>2. seqs' = seqs
    BY <1>1, <1>7, Carried DEF storeVars, StepRequests, RequestKinds
  <2> QED BY <2>1, <2>2
<1>8. CASE r.kind = "meta"
  <2>1. UNCHANGED <<rows, issued>> /\ k.saved = j.saved
    BY <1>1, <1>2, <1>8, Carried DEF storeVars
  <2>2. RowsOf(k.target)' = RowsOf(j.target)
    BY <1>7, <1>8, <2>1 DEF RowsOf
  <2>3. \A q \in j.todo : q.kind # "meta" => q \in k.todo
    BY <1>2, <1>8
  <2>4. \A i, id : Belongs(k, i, id) <=> Belongs(j, i, id)
    BY <1>2, <2>1 DEF Belongs
  <2>5. \A kind, i, id : Request(kind, i, id).kind = kind
    BY DEF Request
  <2> QED BY <1>2, <1>7, <1>8, <2>1, <2>2, <2>3, <2>4, <2>5 DEF Halfway
<1>9. CASE r.kind = "delete"
  <2>1. PICK w \in rows : w.id = r.id /\ rows' = rows \ {w} /\ issued' = issued
    BY <1>1, <1>9, Carried
  <2>2. k.saved = j.saved /\ k.target = j.target /\ Halfway(j)
    BY <1>2, <1>7, <1>9
  <2>3. RowsOf(k.target)' = RowsOf(j.target) \ {w}
    BY <2>1, <2>2 DEF RowsOf
  <2>4. \A q \in j.todo : q.kind # "delete" \/ q.id # r.id => q \in k.todo
    BY <1>2, <1>9
  <2>5. \A i, q : Belongs(k, i, q) <=> Belongs(j, i, q)
    BY <1>2, <2>2 DEF Belongs
  <2>6. \A i \in 1 .. Len(j.steps) : ~Belongs(j, i, w)
    BY <1>1, <1>9, <2>1 DEF RequestFine, Belongs
  <2>7. \A p \in j.saved : p[2] # w.id
    BY <1>1, <1>9, <2>1 DEF RequestFine
  <2>8. \A kind, i, id : Request(kind, i, id).kind = kind /\ Request(kind, i, id).id = id
    BY DEF Request
  <2>9. \A q \in RowsOf(j.target) : q # w => q.id # r.id
    BY <1>3, <2>1 DEF RowsOf
  <2>10. \A q \in RowsOf(j.target) \ {w} :
            Request("delete", 0, q.id) \in k.todo \/ \E i \in 1 .. Len(j.steps) : Belongs(k, i, q)
    BY <2>2, <2>4, <2>5, <2>8, <2>9 DEF Halfway
  <2>11. \A i \in 1 .. Len(j.steps) :
            Request("post", i, 0) \in k.todo \/ \E q \in RowsOf(j.target) \ {w} : Belongs(k, i, q)
    BY <2>2, <2>4, <2>5, <2>6, <2>8 DEF Halfway
  <2>12. \A i \in 1 .. Len(j.steps) : \A q \in RowsOf(j.target) \ {w} :
            Belongs(k, i, q) => Request("put", i, q.id) \in k.todo \/ (q.text = j.steps[i].text /\ q.order = i)
    BY <2>2, <2>4, <2>5, <2>8 DEF Halfway
  <2>13. \A p \in k.saved : \E q \in RowsOf(j.target) \ {w} : q.id = p[2]
    BY <2>2, <2>7 DEF Halfway
  <2> QED BY <1>2, <2>2, <2>3, <2>10, <2>11, <2>12, <2>13 DEF Halfway
<1>10. CASE r.kind = "put"
  <2>1. r.index \in 1 .. Len(j.steps)
    BY <1>1, <1>10 DEF RequestFine
  <2>2. PICK w \in rows, v \in Row :
          /\ w.id = r.id /\ rows' = (rows \ {w}) \cup {v} /\ v.id = w.id /\ v.seq = w.seq
          /\ v.text = j.steps[r.index].text /\ v.order = r.index
    BY <1>1, <1>10, Carried
  <2>3. k.saved = j.saved /\ k.target = j.target /\ Halfway(j)
    BY <1>2, <1>7, <1>10
  <2>4. \A i, q, p : p.id = q.id => (Belongs(k, i, p) <=> Belongs(j, i, q))
    BY <1>2, <2>3 DEF Belongs
  <2>5. j.steps[r.index].id = r.id /\ r.id # 0
    BY <1>1, <1>10 DEF RequestFine
  <2>6. \A i \in 1 .. Len(j.steps) : Belongs(j, i, w) => i = r.index
    <3>1. ASSUME NEW p \in j.saved PROVE p[2] # w.id
      BY <1>1, <2>1, <2>2, <2>5 DEF JobFine, SavedFine
    <3> QED BY <2>1, <2>2, <2>3, <2>5, <3>1 DEF Belongs, Halfway
  <2>7. \A kind, i, id : Request(kind, i, id).kind = kind /\ Request(kind, i, id).id = id
    BY DEF Request
  <2>8. \A q \in j.todo : q.kind # "put" \/ q.id # r.id => q \in k.todo
    BY <1>2, <1>10
  <2>9. ASSUME NEW q \in RowsOf(j.target)'
        PROVE  \/ q \in RowsOf(j.target) /\ q.id # r.id
               \/ q = v /\ w \in RowsOf(j.target)
    BY <1>3, <2>2 DEF RowsOf
  <2>10. ASSUME NEW q \in RowsOf(j.target) PROVE \E x \in RowsOf(j.target)' : x.id = q.id
    BY <2>2 DEF RowsOf
  <2>11. \A q \in RowsOf(j.target)' :
            Request("delete", 0, q.id) \in k.todo \/ \E i \in 1 .. Len(j.steps) : Belongs(k, i, q)
    <3> TAKE q \in RowsOf(j.target)'
    <3>1. CASE q \in RowsOf(j.target)
      BY <2>3, <2>4, <2>7, <2>8, <3>1 DEF Halfway
    <3>2. CASE q = v /\ w \in RowsOf(j.target)
      <4>1. Belongs(k, r.index, q)
        BY <1>2, <2>2, <2>5, <3>2 DEF Belongs
      <4> QED BY <2>1, <4>1
    <3> QED BY <2>9, <3>1, <3>2
  <2>12. \A i \in 1 .. Len(j.steps) :
            Request("post", i, 0) \in k.todo \/ \E q \in RowsOf(j.target)' : Belongs(k, i, q)
    <3> TAKE i \in 1 .. Len(j.steps)
    <3>1. CASE Request("post", i, 0) \in j.todo
      BY <2>7, <2>8, <3>1
    <3>2. ASSUME NEW q \in RowsOf(j.target), Belongs(j, i, q)
          PROVE  \E x \in RowsOf(j.target)' : Belongs(k, i, x)
      BY <2>4, <2>10, <3>2
    <3> QED BY <2>3, <3>1, <3>2 DEF Halfway
  <2>13. \A i \in 1 .. Len(j.steps) : \A q \in RowsOf(j.target)' :
            Belongs(k, i, q) => Request("put", i, q.id) \in k.todo \/ (q.text = j.steps[i].text /\ q.order = i)
    <3> TAKE i \in 1 .. Len(j.steps)
    <3> TAKE q \in RowsOf(j.target)'
    <3>1. CASE q \in RowsOf(j.target) /\ q.id # r.id
      BY <2>3, <2>4, <2>7, <2>8, <3>1 DEF Halfway
    <3>2. CASE q = v /\ w \in RowsOf(j.target)
      BY <2>2, <2>4, <2>6, <3>2
    <3> QED BY <2>9, <3>1, <3>2
  <2>14. \A p \in k.saved : \E q \in RowsOf(j.target)' : q.id = p[2]
    <3> TAKE p \in k.saved
    <3>1. PICK q \in RowsOf(j.target) : q.id = p[2]
      BY <2>3 DEF Halfway
    <3> QED BY <2>10, <3>1
  <2>15. \A i, m \in 1 .. Len(j.steps) : j.steps[i].id # 0 /\ j.steps[i].id = j.steps[m].id => i = m
    BY <2>3 DEF Halfway
  <2> QED BY <1>2, <2>3, <2>11, <2>12, <2>13, <2>14, <2>15 DEF Halfway, RowsOf
<1>11. CASE r.kind = "post"
  <2>1. r.index \in 1 .. Len(j.steps) /\ r.id = 0 /\ j.steps[r.index].id = 0 /\ r = Request("post", r.index, 0)
    BY <1>1, <1>11 DEF RequestFine, StepRequests, Request
  <2>2. PICK w \in Row :
          /\ rows' = rows \cup {w} /\ w.id = issued + 1 /\ w.seq = j.target
          /\ w.text = j.steps[r.index].text /\ w.order = r.index
    BY <1>1, <1>11, Carried
  <2>3. k.target = j.target /\ Halfway(j)
    BY <1>7, <1>11
  <2>4. k.saved = j.saved \cup {<<r.index, issued + 1>>}
    BY <1>2, <1>11
  <2>5. RowsOf(j.target)' = RowsOf(j.target) \cup {w}
    BY <2>2 DEF RowsOf
  <2>6. \A q \in RowsOf(j.target) : q.id \in Nat /\ q.id <= issued /\ q.id # 0
    BY <1>3 DEF RowsOf
  <2>7. \A i \in 1 .. Len(j.steps) : \A q \in RowsOf(j.target) : Belongs(k, i, q) <=> Belongs(j, i, q)
    BY <1>2, <1>3, <2>4, <2>6 DEF Belongs
  <2>8. Belongs(k, r.index, w)
    BY <2>2, <2>4 DEF Belongs
  <2>9. \A p \in j.saved : p[2] \in Nat /\ p[2] <= issued
    BY <1>1, <1>4, EditorBounds DEF JobFine, SavedFine
  <2>10. \A i \in 1 .. Len(j.steps) : Belongs(k, i, w) => i = r.index
    <3>1. ASSUME NEW i \in 1 .. Len(j.steps) PROVE j.steps[i].id # issued + 1 /\ <<i, issued + 1>> \notin j.saved
      BY <1>3, <1>5, <2>9
    <3> QED BY <1>2, <2>2, <2>4, <3>1 DEF Belongs
  <2>11. \A i : Request("post", i, 0) \in j.todo /\ i # r.index => Request("post", i, 0) \in k.todo
    BY <1>2, <2>1 DEF Request
  <2>12. \A kind, i, id : Request(kind, i, id) \in j.todo /\ kind # "post" => Request(kind, i, id) \in k.todo
    BY <1>2, <1>11 DEF Request
  <2>13. \A q \in RowsOf(j.target) \cup {w} :
            Request("delete", 0, q.id) \in k.todo \/ \E i \in 1 .. Len(j.steps) : Belongs(k, i, q)
    BY <2>1, <2>3, <2>7, <2>8, <2>12 DEF Halfway
  <2>14. \A i \in 1 .. Len(j.steps) :
            Request("post", i, 0) \in k.todo \/ \E q \in RowsOf(j.target) \cup {w} : Belongs(k, i, q)
    BY <2>1, <2>3, <2>7, <2>8, <2>11 DEF Halfway
  <2>15. \A i \in 1 .. Len(j.steps) : \A q \in RowsOf(j.target) \cup {w} :
            Belongs(k, i, q) => Request("put", i, q.id) \in k.todo \/ (q.text = j.steps[i].text /\ q.order = i)
    BY <2>2, <2>3, <2>7, <2>10, <2>12 DEF Halfway
  <2>16. \A p \in k.saved : \E q \in RowsOf(j.target) \cup {w} : q.id = p[2]
    BY <2>2, <2>3, <2>4 DEF Halfway
  <2>17. \A i, m \in 1 .. Len(j.steps) : j.steps[i].id # 0 /\ j.steps[i].id = j.steps[m].id => i = m
    BY <2>3 DEF Halfway
  <2> QED BY <1>2, <2>3, <2>5, <2>13, <2>14, <2>15, <2>16, <2>17 DEF Halfway, RowsOf
<1> QED BY <1>1, <1>6, <1>8, <1>9, <1>10, <1>11 DEF StepRequests, RequestKinds

\* A save nothing happens to.
LEMMA JobStill ==
    ASSUME NEW j, JobFine(j), UNCHANGED <<issued, made, details, mode, edited, boundTo>>
    PROVE  JobFine(j)'
BY DEF JobFine, RequestFine, SavedFine

\* Rows nobody writes.
LEMMA HalfwayStill ==
    ASSUME NEW j, Halfway(j), UNCHANGED rows
    PROVE  Halfway(j)'
BY DEF Halfway, RowsOf

\* An edit of the draft keeps the ids and the loaded values of its steps.
LEMMA EditFine ==
    ASSUME SeqEdInv, NEW ss \in Seq(DraftStep), ss # <<>>, Edit(ss), NEW f \in [1 .. Len(ss) -> Nat],
           \A i \in 1 .. Len(ss) :
              \/ f[i] = 0 /\ ss[i].id = 0 /\ ss[i].orig = <<>>
              \/ f[i] \in 1 .. Len(steps) /\ ss[i].id = steps[f[i]].id /\ ss[i].orig = steps[f[i]].orig,
           \A i, k \in 1 .. Len(ss) : f[i] = f[k] /\ f[i] # 0 => i = k
    PROVE  SeqEdInv'
<1>1. /\ steps' = ss
      /\ UNCHANGED <<rows, seqs, made, issued, details, mode, edited, hydrated, boundTo, save, saves,
                     shownIds, blemish, reported>>
  BY DEF Edit, storeVars
<1>2. EditorTypeOK'
  BY <1>1 DEF SeqEdInv, EditorTypeOK
<1>3. StoreFine'
  BY <1>1 DEF SeqEdInv, StoreFine
<1>4. FormFine'
  <2>1. issued \in Nat /\ 0 <= issued
    BY EditorBounds DEF SeqEdInv, EditorTypeOK
  <2> QED BY <1>1, <2>1 DEF SeqEdInv, FormFine
<1>5. \A j \in save' : JobFine(j)'
  BY <1>1, JobStill DEF SeqEdInv
<1>6. (reported # {} => save = {})'
  BY <1>1 DEF SeqEdInv
<1>7. ASSUME blemish' = {} PROVE SavedIsStored'
  BY <1>1, <1>7 DEF SeqEdInv, SavedIsStored, RowsOf
<1>8. ASSUME blemish' = {} PROVE ShownFine'
  <2>1. ASSUME DraftFine PROVE DraftFine'
    <3>1. \A i \in 1 .. Len(ss) : ss[i].id # 0 =>
              f[i] \in 1 .. Len(steps) /\ ss[i].id = steps[f[i]].id /\ ss[i].orig = steps[f[i]].orig
      OBVIOUS
    <3>2. \A i \in 1 .. Len(ss) : ss[i].id # 0 =>
              \E r \in RowsOf(edited) : r.id = ss[i].id /\ (ss[i].orig = <<>> \/ ss[i].orig = <<r.text, r.order>>)
      BY <2>1, <3>1 DEF DraftFine
    <3>3. \A i, k \in 1 .. Len(ss) : ss[i].id # 0 /\ ss[i].id = ss[k].id => i = k
      <4> TAKE i, k \in 1 .. Len(ss)
      <4> HAVE ss[i].id # 0 /\ ss[i].id = ss[k].id
      <4>1. /\ f[i] \in 1 .. Len(steps) /\ ss[i].id = steps[f[i]].id
            /\ f[k] \in 1 .. Len(steps) /\ ss[k].id = steps[f[k]].id
        BY <3>1
      <4>2. \A a, b \in 1 .. Len(steps) : steps[a].id # 0 /\ steps[a].id = steps[b].id => a = b
        BY <2>1 DEF DraftFine
      <4>3. f[i] = f[k]
        BY <4>1, <4>2
      <4>4. f[i] # 0
        BY <4>1
      <4> QED BY <4>3, <4>4
    <3> QED BY <1>1, <3>2, <3>3 DEF DraftFine, RowsOf
  <2>2. ShownFine
    BY <1>1, <1>8 DEF SeqEdInv
  <2> QED BY <1>1, <2>1, <2>2 DEF ShownFine, RowsOf
<1>9. ASSUME blemish' = {}, NEW j \in save', j.target \in seqs' PROVE Halfway(j)'
  BY <1>1, <1>9, HalfwayStill DEF SeqEdInv
<1> QED BY <1>2, <1>3, <1>4, <1>5, <1>6, <1>7, <1>8, <1>9 DEF SeqEdInv

\* The step an empty form has.
LEMMA BlankIs == BlankStep \in DraftStep /\ BlankStep.id = 0 /\ BlankStep.orig = <<>>
BY EditorBounds DEF BlankStep, Draft, DraftStep

\* A sequence without one of its elements.
LEMMA RemovedAt ==
    ASSUME NEW S, NEW s \in Seq(S), NEW i \in 1 .. Len(s)
    PROVE  /\ RemoveAt(s, i) \in Seq(S) /\ Len(RemoveAt(s, i)) = Len(s) - 1
           /\ Len(s) > 1 => RemoveAt(s, i) # <<>>
           /\ \A k \in 1 .. Len(s) - 1 : RemoveAt(s, i)[k] = s[IF k < i THEN k ELSE k + 1]
<1> DEFINE n == Len(s)
           p == SubSeq(s, 1, i - 1)
           q == SubSeq(s, i + 1, n)
<1>1. n \in Nat /\ i \in Int /\ \A k \in 1 .. n : s[k] \in S
  OBVIOUS
<1>2. /\ p \in Seq(S) /\ Len(p) = i - 1
      /\ \A k \in 1 .. (i - 1) - 1 + 1 : p[k] = s[1 + k - 1]
  <2>1. \A k \in 1 .. i - 1 : s[k] \in S
    BY <1>1
  <2>2. Len(p) = IF 1 <= i - 1 THEN (i - 1) - 1 + 1 ELSE 0
    BY <1>1, <2>1, SubSeqProperties
  <2> QED BY <1>1, <2>1, <2>2, SubSeqProperties
<1>3. /\ q \in Seq(S) /\ Len(q) = n - i
      /\ \A k \in 1 .. n - (i + 1) + 1 : q[k] = s[(i + 1) + k - 1]
  <2>1. \A k \in i + 1 .. n : s[k] \in S
    BY <1>1
  <2>2. Len(q) = IF i + 1 <= n THEN n - (i + 1) + 1 ELSE 0
    BY <1>1, <2>1, SubSeqProperties
  <2> QED BY <1>1, <2>1, <2>2, SubSeqProperties
<1>4. RemoveAt(s, i) = p \o q
  BY DEF RemoveAt
<1> HIDE DEF p, q
<1>5. /\ p \o q \in Seq(S) /\ Len(p \o q) = Len(p) + Len(q)
      /\ \A k \in 1 .. Len(p) + Len(q) : (p \o q)[k] = IF k <= Len(p) THEN p[k] ELSE q[k - Len(p)]
  BY <1>2, <1>3, ConcatProperties
<1>6. Len(p \o q) = n - 1
  BY <1>1, <1>2, <1>3, <1>5
<1>7. ASSUME NEW k \in 1 .. n - 1 PROVE (p \o q)[k] = s[IF k < i THEN k ELSE k + 1]
  <2>1. CASE k < i
    <3>1. (p \o q)[k] = p[k] /\ k \in 1 .. (i - 1) - 1 + 1 /\ 1 + k - 1 = k
      BY <1>1, <1>2, <1>3, <1>5, <2>1
    <3> QED BY <1>2, <2>1, <3>1
  <2>2. CASE ~(k < i)
    <3>1. /\ (p \o q)[k] = q[k - (i - 1)] /\ k - (i - 1) \in 1 .. n - (i + 1) + 1
          /\ (i + 1) + (k - (i - 1)) - 1 = k + 1
      BY <1>1, <1>2, <1>3, <1>5, <2>2
    <3> QED BY <1>3, <2>2, <3>1
  <2> QED BY <2>1, <2>2
<1>8. n > 1 => p \o q # <<>>
  BY <1>1, <1>6
<1> QED BY <1>4, <1>5, <1>6, <1>7, <1>8

\* Each edit of the form brings every step from one of the old, or a blank one.
LEMMA EditsFine ==
    ASSUME SeqEdInv, AddStep \/ \E i \in 1 .. MaxSteps : RemoveStep(i) \/ MoveStepUp(i) \/ \E t \in Messages : PatchStep(i, t)
    PROVE  SeqEdInv'
<1> DEFINE n == Len(steps)
<1>1. steps \in Seq(DraftStep) /\ n \in Nat /\ n # 0 /\ DOMAIN steps = 1 .. n
      /\ \A i \in 1 .. n : steps[i] \in DraftStep
  BY DEF SeqEdInv, EditorTypeOK
<1>2. CASE AddStep
  <2> DEFINE ss == Append(steps, BlankStep)
             f == [i \in 1 .. n + 1 |-> IF i <= n THEN i ELSE 0]
  <2>1. Edit(ss)
    BY <1>2 DEF AddStep
  <2>2. /\ ss \in Seq(DraftStep) /\ Len(ss) = n + 1 /\ ss # <<>> /\ ss[n + 1] = BlankStep
        /\ \A i \in 1 .. n : ss[i] = steps[i]
    BY <1>1, BlankIs
  <2>3. f \in [1 .. n + 1 -> Nat] /\ f[n + 1] = 0 /\ \A i \in 1 .. n : f[i] = i
    BY <1>1
  <2>4. \A i \in 1 .. n + 1 : i \in 1 .. n \/ i = n + 1
    BY <1>1
  <2> HIDE DEF ss, f
  <2>5. \A i \in 1 .. Len(ss) :
              \/ f[i] = 0 /\ ss[i].id = 0 /\ ss[i].orig = <<>>
              \/ f[i] \in 1 .. Len(steps) /\ ss[i].id = steps[f[i]].id /\ ss[i].orig = steps[f[i]].orig
    BY <2>2, <2>3, <2>4, BlankIs
  <2>6. \A i, k \in 1 .. Len(ss) : f[i] = f[k] /\ f[i] # 0 => i = k
    BY <2>2, <2>3, <2>4
  <2> QED BY <2>1, <2>2, <2>3, <2>5, <2>6, EditFine
<1>3. ASSUME NEW i \in 1 .. MaxSteps, NEW t \in Messages, PatchStep(i, t) PROVE SeqEdInv'
  <2> DEFINE ss == [steps EXCEPT ![i].text = t]
             f == [k \in 1 .. n |-> k]
  <2>1. Edit(ss) /\ i \in 1 .. n
    BY <1>1, <1>3, EditorBounds DEF PatchStep
  <2>2. \A k \in 1 .. n : ss[k].id = steps[k].id /\ ss[k].orig = steps[k].orig /\ ss[k] \in DraftStep
    BY <1>1, <2>1 DEF DraftStep
  <2>3. ss \in Seq(DraftStep) /\ Len(ss) = n /\ ss # <<>>
    <3>1. ss \in [1 .. n -> DraftStep]
      BY <1>1, <2>1, <2>2
    <3> HIDE DEF ss
    <3> QED BY <1>1, <3>1
  <2> HIDE DEF ss
  <2>4. f \in [1 .. Len(ss) -> Nat] /\ \A k \in 1 .. Len(ss) : f[k] = k
    BY <1>1, <2>3
  <2> HIDE DEF f
  <2> QED BY <2>1, <2>2, <2>3, <2>4, EditFine
<1>4. ASSUME NEW i \in 1 .. MaxSteps, MoveStepUp(i) PROVE SeqEdInv'
  <2> DEFINE ss == [steps EXCEPT ![i] = steps[i - 1], ![i - 1] = steps[i]]
             f == [k \in 1 .. n |-> IF k = i THEN i - 1 ELSE IF k = i - 1 THEN i ELSE k]
  <2>1. Edit(ss) /\ i \in 2 .. n /\ i \in Nat /\ i - 1 \in 1 .. n /\ i \in 1 .. n
    BY <1>1, <1>4 DEF MoveStepUp
  <2>2. \A k \in 1 .. n : ss[k] = steps[f[k]] /\ f[k] \in 1 .. n
    BY <1>1, <2>1
  <2>3. ss \in [1 .. n -> DraftStep] /\ f \in [1 .. n -> Nat]
    BY <1>1, <2>1
  <2>4. \A k, m \in 1 .. n : f[k] = f[m] => k = m
    BY <1>1, <2>1
  <2> HIDE DEF ss, f
  <2>5. ss \in Seq(DraftStep) /\ Len(ss) = n /\ ss # <<>>
    BY <1>1, <2>3
  <2>6. \A k \in 1 .. Len(ss) :
           f[k] \in 1 .. Len(steps) /\ ss[k].id = steps[f[k]].id /\ ss[k].orig = steps[f[k]].orig
    BY <2>2, <2>5
  <2>7. f \in [1 .. Len(ss) -> Nat] /\ \A k, m \in 1 .. Len(ss) : f[k] = f[m] /\ f[k] # 0 => k = m
    BY <2>3, <2>4, <2>5
  <2> QED BY <2>1, <2>5, <2>6, <2>7, EditFine
<1>5. ASSUME NEW i \in 1 .. MaxSteps, RemoveStep(i) PROVE SeqEdInv'
  <2>1. i \in 1 .. n
    BY <1>1, <1>5 DEF RemoveStep
  <2>2. CASE n <= 1
    <3> DEFINE ss == <<BlankStep>>
               f == [k \in 1 .. 1 |-> 0]
    <3>1. Edit(ss)
      BY <1>5, <2>2 DEF RemoveStep
    <3>2. ss \in Seq(DraftStep) /\ Len(ss) = 1 /\ ss # <<>> /\ ss[1] = BlankStep
      BY BlankIs
    <3>3. f \in [1 .. 1 -> Nat] /\ f[1] = 0 /\ \A k \in 1 .. 1 : k = 1
      OBVIOUS
    <3> HIDE DEF ss, f
    <3> QED BY <3>1, <3>2, <3>3, BlankIs, EditFine
  <2>3. CASE n > 1
    <3> DEFINE ss == RemoveAt(steps, i)
               f == [k \in 1 .. n - 1 |-> IF k < i THEN k ELSE k + 1]
    <3>1. Edit(ss)
      BY <1>1, <1>5, <2>3 DEF RemoveStep
    <3>2. /\ ss \in Seq(DraftStep) /\ Len(ss) = n - 1 /\ ss # <<>>
          /\ \A k \in 1 .. n - 1 : ss[k] = steps[f[k]]
      BY <1>1, <2>1, <2>3, RemovedAt
    <3>3. f \in [1 .. n - 1 -> Nat] /\ \A k \in 1 .. n - 1 : f[k] \in 1 .. n
      BY <1>1, <2>1
    <3>4. \A k, m \in 1 .. n - 1 : f[k] = f[m] => k = m
      BY <1>1, <2>1
    <3> HIDE DEF ss, f
    <3>5. \A k \in 1 .. Len(ss) :
             f[k] \in 1 .. Len(steps) /\ ss[k].id = steps[f[k]].id /\ ss[k].orig = steps[f[k]].orig
      BY <3>2, <3>3
    <3>6. f \in [1 .. Len(ss) -> Nat] /\ \A k, m \in 1 .. Len(ss) : f[k] = f[m] /\ f[k] # 0 => k = m
      BY <3>2, <3>3, <3>4
    <3> QED BY <3>1, <3>2, <3>5, <3>6, EditFine
  <2> QED BY <1>1, <2>2, <2>3
<1> QED BY <1>2, <1>3, <1>4, <1>5

\* A filled form, or one that is kept, is typed, and is the detail's.
LEMMA HydrateFine ==
    ASSUME SeqEdInv, NEW s \in 0 .. made, NEW dd \in SUBSET (SUBSET Row), NEW was \in BOOLEAN, NEW bnd,
           NEW ss \in Seq(DraftStep), ss # <<>>, \A i \in 1 .. Len(ss) : ss[i].id <= issued,
           \A d \in dd : IsFiniteSet(d) /\ \A r \in d : r.id <= issued,
           Hydrate(s, dd, was, bnd, ss)
    PROVE  /\ hydrated' \in BOOLEAN /\ steps' \in Seq(DraftStep) /\ steps' # <<>>
           /\ \A i \in 1 .. Len(steps') : steps'[i].id <= issued
           /\ s = 0 => hydrated' = was /\ steps' = ss
           /\ \/ steps' = ss
              \/ \E d \in dd : steps' \in Mapped(d)
<1>1. CASE steps' = ss /\ hydrated' \in BOOLEAN /\ (s = 0 => hydrated' = was)
  BY <1>1
<1>2. ASSUME NEW d \in dd, steps' \in Mapped(d), hydrated' = TRUE, s # 0
      PROVE  /\ steps' \in Seq(DraftStep) /\ steps' # <<>>
             /\ \A i \in 1 .. Len(steps') : steps'[i].id <= issued
  <2>1. d \in SUBSET Row /\ IsFiniteSet(d)
    OBVIOUS
  <2>2. /\ steps' \in Seq(DraftStep) /\ steps' # <<>>
        /\ \A i \in 1 .. Len(steps') : steps'[i].id = 0 \/ \E r \in d : steps'[i].id = r.id
    BY <1>2, <2>1, MappedIs
  <2>3. 0 <= issued
    BY EditorBounds DEF SeqEdInv, EditorTypeOK
  <2> QED BY <2>2, <2>3
<1>3. \/ hydrated' = was /\ steps' = ss
      \/ s # 0 /\ hydrated' = TRUE /\ (steps' = ss \/ \E d \in dd : steps' \in Mapped(d))
  BY DEF Hydrate
<1> QED BY <1>1, <1>2, <1>3

\* A draft that was filled from what the server has.
LEMMA MappedFine ==
    ASSUME SeqEdInv, NEW s \in SeqIds, steps' \in Mapped(RowsOf(s)), edited' = s, UNCHANGED rows
    PROVE  DraftFine'
<1>1. RowsOf(s) \in SUBSET Row /\ IsFiniteSet(RowsOf(s)) /\ \A r, q \in RowsOf(s) : r.id = q.id => r = q
  BY FS_Subset DEF SeqEdInv, EditorTypeOK, StoreFine, RowsOf
<1>2. /\ \A i \in 1 .. Len(steps') : steps'[i].id = 0
            \/ \E r \in RowsOf(s) : steps'[i].id = r.id /\ steps'[i].orig = <<r.text, r.order>>
      /\ \A i, k \in 1 .. Len(steps') : steps'[i].id # 0 /\ steps'[i].id = steps'[k].id => i = k
  BY <1>1, MappedIs
<1> QED BY <1>2 DEF DraftFine, RowsOf

\* A draft without ids says nothing of the rows.
LEMMA BlankFine ==
    ASSUME \A i \in 1 .. Len(steps) : steps[i].id = 0
    PROVE  DraftFine
BY DEF DraftFine

\* What arrives is what the server has.
LEMMA LandSequenceFine ==
    ASSUME SeqEdInv, LandSequence
    PROVE  SeqEdInv'
<1> DEFINE dd == {RowsOf(edited)}
<1>1. /\ mode = "edit" /\ edited \in seqs /\ details' = [details EXCEPT ![edited] = dd]
      /\ Hydrate(edited, details'[edited], hydrated, boundTo, steps)
      /\ UNCHANGED <<rows, seqs, made, issued, mode, edited, boundTo, save, saves, blemish, reported>>
  BY DEF LandSequence, storeVars
<1>2. /\ edited \in SeqIds /\ edited \in 0 .. made /\ edited <= made /\ edited # 0
      /\ details \in [SeqIds -> SUBSET (SUBSET Row)]
      /\ hydrated \in BOOLEAN /\ steps \in Seq(DraftStep) /\ steps # <<>>
      /\ \A i \in 1 .. Len(steps) : steps[i].id <= issued
  <2>1. seqs \subseteq 1 .. made /\ made \in 1 .. MaxSeqs
    BY DEF SeqEdInv, EditorTypeOK
  <2>2. edited \in SeqIds /\ edited \in 0 .. made /\ edited <= made /\ edited # 0
    BY <1>1, <2>1, EditorBounds DEF SeqIds
  <2> QED BY <2>2 DEF SeqEdInv, EditorTypeOK, FormFine
<1>3. details'[edited] = dd /\ \A s \in SeqIds : s # edited => details'[s] = details[s]
  BY <1>1, <1>2
<1>4. dd \in SUBSET (SUBSET Row) /\ \A d \in dd : IsFiniteSet(d) /\ \A r \in d : r.id <= issued
  <2>1. IsFiniteSet(RowsOf(edited)) /\ RowsOf(edited) \subseteq Row /\ \A r \in RowsOf(edited) : r.id <= issued
    BY FS_Subset DEF SeqEdInv, EditorTypeOK, StoreFine, RowsOf
  <2> QED BY <2>1
<1>5. Hydrate(edited, dd, hydrated, boundTo, steps)
  BY <1>1, <1>3
<1>6. /\ hydrated' \in BOOLEAN /\ steps' \in Seq(DraftStep) /\ steps' # <<>>
      /\ \A i \in 1 .. Len(steps') : steps'[i].id <= issued
      /\ steps' = steps \/ \E d \in dd : steps' \in Mapped(d)
  BY <1>2, <1>4, <1>5, HydrateFine
<1>7. EditorTypeOK'
  <2>1. details' \in [SeqIds -> SUBSET (SUBSET Row)]
    BY <1>1, <1>2, <1>4
  <2>2. \A s \in SeqIds : \A d, e \in details'[s] : d = e
    BY <1>3 DEF SeqEdInv, EditorTypeOK
  <2> QED BY <1>1, <1>6, <2>1, <2>2 DEF SeqEdInv, EditorTypeOK
<1>8. StoreFine'
  BY <1>1, <1>2, <1>3, <1>4 DEF SeqEdInv, StoreFine
<1>9. FormFine'
  BY <1>1, <1>6 DEF SeqEdInv, FormFine
<1>10. ASSUME NEW j \in save' PROVE JobFine(j)'
  <2>1. JobFine(j) /\ ~j.creates
    BY <1>1, <1>10 DEF SeqEdInv, JobFine
  <2> QED BY <1>1, <2>1 DEF JobFine, RequestFine, SavedFine
<1>11. (reported # {} => save = {})'
  BY <1>1 DEF SeqEdInv
<1>12. ASSUME blemish' = {} PROVE SavedIsStored'
  BY <1>1, <1>12 DEF SeqEdInv, SavedIsStored, RowsOf
<1>13. ASSUME blemish' = {} PROVE ShownFine'
  <2>1. \A d \in details'[edited] : d = RowsOf(edited)
    BY <1>3
  <2>2. CASE steps' = steps
    <3>1. ShownFine
      BY <1>1, <1>13 DEF SeqEdInv
    <3>2. DraftFine => DraftFine'
      BY <1>1, <2>2 DEF DraftFine, RowsOf
    <3> QED BY <1>1, <2>1, <3>1, <3>2 DEF ShownFine, RowsOf
  <2>3. CASE steps' \in Mapped(RowsOf(edited))
    <3>1. DraftFine'
      BY <1>1, <1>2, <2>3, MappedFine
    <3> QED BY <1>1, <2>1, <3>1 DEF ShownFine, RowsOf
  <2> QED BY <1>6, <2>2, <2>3
<1>14. ASSUME blemish' = {}, NEW j \in save', j.target \in seqs' PROVE Halfway(j)'
  BY <1>1, <1>14, HalfwayStill DEF SeqEdInv
<1> QED BY <1>7, <1>8, <1>9, <1>10, <1>11, <1>12, <1>13, <1>14 DEF SeqEdInv

\* An editor that is shown is typed; a new one of an existing sequence is
\* filled from what is cached, and a new one of none is empty.
LEMMA ShowEditorFine ==
    ASSUME SeqEdInv, NEW m \in {"create", "edit"}, NEW s \in 0 .. made, ShowEditor(m, s),
           m = "create" => s = 0 /\ mode = "closed", m = "edit" => s # 0,
           issued' \in Nat, issued <= issued'
    PROVE  /\ mode' \in {"closed", "create", "edit"} /\ edited' \in 0 .. made /\ hydrated' \in BOOLEAN
           /\ boundTo' \in 0 .. MaxSeqs /\ steps' \in Seq(DraftStep) /\ steps' # <<>> /\ FormFine'
           /\ UNCHANGED rows /\ mode = "closed" /\ m = "edit" /\ (\A d \in details[s] : d = RowsOf(s)) => DraftFine'
<1> DEFINE dd == IF s = 0 THEN {} ELSE details[s]
<1>1. /\ mode' = m /\ edited' = s
      /\ IF mode = "closed" THEN boundTo' = 0 /\ Hydrate(s, dd, FALSE, 0, <<BlankStep>>)
         ELSE boundTo' = boundTo /\ Hydrate(s, dd, hydrated, boundTo, steps)
  BY DEF ShowEditor
<1>2. s # 0 => s \in SeqIds
  BY EditorBounds DEF SeqEdInv, EditorTypeOK, SeqIds
<1>3. dd \in SUBSET (SUBSET Row) /\ \A d \in dd : IsFiniteSet(d) /\ \A r \in d : r.id <= issued
  BY <1>2 DEF SeqEdInv, EditorTypeOK, StoreFine
<1>4. /\ hydrated \in BOOLEAN /\ steps \in Seq(DraftStep) /\ steps # <<>> /\ boundTo \in 0 .. MaxSeqs
      /\ \A i \in 1 .. Len(steps) : steps[i].id <= issued
      /\ 0 <= issued /\ 0 \in 0 .. MaxSeqs
  BY EditorBounds DEF SeqEdInv, EditorTypeOK, FormFine
<1> DEFINE b == <<BlankStep>>
<1>5. b \in Seq(DraftStep) /\ b # <<>> /\ Len(b) = 1 /\ b[1] = BlankStep
      /\ \A i \in 1 .. Len(b) : b[i].id = 0 /\ b[i].orig = <<>> /\ b[i].id <= issued
  <2>1. b \in Seq(DraftStep) /\ b # <<>> /\ Len(b) = 1 /\ b[1] = BlankStep
    BY BlankIs
  <2> QED BY <1>4, <2>1, BlankIs
<1> HIDE DEF dd, b
<1>6. \A ss \in Seq(DraftStep) : \A i \in 1 .. Len(ss) : ss[i].id <= issued => ss[i].id <= issued'
  <2>1. \A ss \in Seq(DraftStep) : \A i \in 1 .. Len(ss) : ss[i].id \in Nat
    <3> TAKE ss \in Seq(DraftStep)
    <3> TAKE i \in 1 .. Len(ss)
    <3>1. ss[i] \in DraftStep
      OBVIOUS
    <3> QED BY <3>1, EditorBounds DEF DraftStep
  <2>2. issued \in Nat
    BY EditorBounds DEF SeqEdInv, EditorTypeOK
  <2> QED BY <2>1, <2>2
<1>7. CASE mode = "closed"
  <2>1. Hydrate(s, dd, FALSE, 0, b)
    BY <1>1, <1>7 DEF b
  <2>2. /\ hydrated' \in BOOLEAN /\ steps' \in Seq(DraftStep) /\ steps' # <<>>
        /\ \A i \in 1 .. Len(steps') : steps'[i].id <= issued
        /\ s = 0 => hydrated' = FALSE /\ steps' = b
        /\ steps' = b \/ \E d \in dd : steps' \in Mapped(d)
    BY <1>3, <1>5, <2>1, HydrateFine
  <2>3. FormFine'
    <3>1. \A i \in 1 .. Len(steps') : steps'[i].id <= issued'
      BY <1>4, <2>2, <1>6
    <3> QED BY <1>1, <1>5, <1>7, <2>2, <3>1 DEF FormFine
  <2>4. ASSUME UNCHANGED rows, m = "edit", \A d \in details[s] : d = RowsOf(s) PROVE DraftFine'
    <3>1. CASE steps' = b
      BY <1>5, <3>1, BlankFine DEF DraftFine
    <3>2. CASE steps' \in Mapped(RowsOf(s))
      BY <1>1, <1>2, <2>4, <3>2, MappedFine
    <3> QED BY <2>2, <2>4, <3>1, <3>2 DEF dd
  <2> QED BY <1>1, <1>4, <1>7, <2>2, <2>3, <2>4
<1>8. CASE mode # "closed"
  <2>1. Hydrate(s, dd, hydrated, boundTo, steps)
    BY <1>1, <1>8
  <2>2. /\ hydrated' \in BOOLEAN /\ steps' \in Seq(DraftStep) /\ steps' # <<>>
        /\ \A i \in 1 .. Len(steps') : steps'[i].id <= issued
    BY <1>3, <1>4, <2>1, HydrateFine
  <2>3. \A i \in 1 .. Len(steps') : steps'[i].id <= issued'
    BY <1>4, <2>2, <1>6
  <2> QED BY <1>1, <1>4, <1>8, <2>2, <2>3 DEF FormFine
<1> QED BY <1>7, <1>8

\* At the start the form is closed, and nothing is cached.
LEMMA EditorInitFine == EditorInit => SeqEdInv
<1> SUFFICES ASSUME EditorInit PROVE SeqEdInv
  OBVIOUS
<1> USE EditorBounds
<1>1. PICK t \in Messages : rows = {[id |-> 1, seq |-> 1, text |-> t, order |-> 1]}
  BY DEF EditorInit
<1>2. [id |-> 1, seq |-> 1, text |-> t, order |-> 1] \in Row
  BY DEF Row, SeqIds
<1>3. EditorTypeOK
  <2>1. steps \in Seq(DraftStep) /\ steps # <<>>
    BY BlankIs DEF EditorInit
  <2>2. details \in [SeqIds -> SUBSET (SUBSET Row)] /\ \A s \in SeqIds : \A d, e \in details[s] : d = e
    BY DEF EditorInit
  <2>3. /\ rows \subseteq Row /\ seqs \subseteq 1 .. made /\ made \in 1 .. MaxSeqs
        /\ issued \in 1 .. MaxIds /\ \A r \in rows : r.id <= issued /\ r.seq \in seqs
    BY <1>1, <1>2 DEF EditorInit
  <2>4. /\ mode \in {"closed", "create", "edit"} /\ edited \in 0 .. made
        /\ hydrated \in BOOLEAN /\ boundTo \in 0 .. MaxSeqs
        /\ save = {} /\ saves \in 0 .. MaxSaves /\ blemish = {}
    <3>1. /\ mode = "closed" /\ edited = 0 /\ hydrated = FALSE /\ boundTo = 0
          /\ save = {} /\ saves = 0 /\ blemish = {} /\ made = 1
      BY DEF EditorInit
    <3>2. edited \in 0 .. made /\ boundTo \in 0 .. MaxSeqs /\ saves \in 0 .. MaxSaves
      BY <3>1
    <3>3. hydrated \in BOOLEAN
      BY <3>1
    <3> QED BY <3>1, <3>2, <3>3
  <2> QED BY <2>1, <2>2, <2>3, <2>4 DEF EditorTypeOK
<1>4. StoreFine
  BY <1>1, FS_Singleton DEF EditorInit, StoreFine
<1>5. FormFine
  <2>1. Len(steps) = 1 /\ steps[1] = BlankStep
    BY DEF EditorInit
  <2> QED BY <2>1, BlankIs DEF EditorInit, FormFine
<1>6. SavedIsStored /\ ShownFine
  BY DEF EditorInit, SavedIsStored, ShownFine
<1> QED BY <1>3, <1>4, <1>5, <1>6 DEF EditorInit, SeqEdInv

\* A new editor of no sequence is empty.
LEMMA OpenCreateFine ==
    ASSUME SeqEdInv, OpenCreate
    PROVE  SeqEdInv'
<1>1. /\ mode = "closed" /\ ShowEditor("create", 0) /\ reported' = {}
      /\ UNCHANGED <<rows, seqs, made, issued, details, save, saves, blemish>>
      /\ mode' = "create"
  BY DEF OpenCreate, ShowEditor, storeVars
<1>2. 0 \in 0 .. made /\ issued \in Nat
  BY EditorBounds DEF SeqEdInv, EditorTypeOK
<1>3. /\ mode' \in {"closed", "create", "edit"} /\ edited' \in 0 .. made /\ hydrated' \in BOOLEAN
      /\ boundTo' \in 0 .. MaxSeqs /\ steps' \in Seq(DraftStep) /\ steps' # <<>> /\ FormFine'
  <2>1. issued' \in Nat /\ issued <= issued'
    BY <1>1, <1>2
  <2>2. PICK s \in 0 .. made : s = 0
    BY <1>2
  <2>3. ShowEditor("create", s)
    BY <1>1, <2>2
  <2> QED BY <1>1, <2>1, <2>2, <2>3, ShowEditorFine
<1>4. EditorTypeOK'
  BY <1>1, <1>3 DEF SeqEdInv, EditorTypeOK
<1>5. StoreFine'
  BY <1>1 DEF SeqEdInv, StoreFine
<1>6. ASSUME NEW j \in save' PROVE JobFine(j)'
  <2>1. JobFine(j) /\ ~(j.creates /\ j.mounted)
    BY <1>1, <1>6 DEF SeqEdInv, JobFine
  <2> QED BY <1>1, <2>1 DEF JobFine, RequestFine, SavedFine
<1>7. SavedIsStored' /\ ShownFine'
  BY <1>1 DEF SavedIsStored, ShownFine
<1>8. ASSUME blemish' = {}, NEW j \in save', j.target \in seqs' PROVE Halfway(j)'
  BY <1>1, <1>8, HalfwayStill DEF SeqEdInv
<1> QED BY <1>1, <1>3, <1>4, <1>5, <1>6, <1>7, <1>8 DEF SeqEdInv

\* A new editor is filled from a detail that is the server's, or it is stale.
LEMMA OpenEditFine ==
    ASSUME SeqEdInv, NEW s \in SeqIds, OpenEdit(s)
    PROVE  SeqEdInv'
<1>1. /\ s \in seqs /\ save = {} /\ ShowEditor("edit", s) /\ reported' = {} /\ blemish' = Blemished(s)
      /\ <<mode, edited>> # <<"edit", s>>
      /\ UNCHANGED <<rows, seqs, made, issued, details, save, saves>> /\ mode' = "edit" /\ edited' = s
  BY DEF OpenEdit, ShowEditor, storeVars
<1>2. s \in 0 .. made /\ s # 0 /\ issued \in Nat
  <2>1. seqs \subseteq 1 .. made /\ made \in 1 .. MaxSeqs
    BY DEF SeqEdInv, EditorTypeOK
  <2> QED BY <1>1, <2>1, EditorBounds DEF SeqEdInv, EditorTypeOK
<1>3. /\ mode' \in {"closed", "create", "edit"} /\ edited' \in 0 .. made /\ hydrated' \in BOOLEAN
      /\ boundTo' \in 0 .. MaxSeqs /\ steps' \in Seq(DraftStep) /\ steps' # <<>> /\ FormFine'
      /\ mode = "closed" /\ (\A d \in details[s] : d = RowsOf(s)) => DraftFine'
  BY <1>1, <1>2, ShowEditorFine
<1>4. blemish' \subseteq {"lost", "halfway", "reused", "stale"}
  BY <1>1 DEF Blemished, SeqEdInv, EditorTypeOK
<1>5. EditorTypeOK'
  BY <1>1, <1>3, <1>4 DEF SeqEdInv, EditorTypeOK
<1>6. StoreFine'
  BY <1>1 DEF SeqEdInv, StoreFine
<1>7. SavedIsStored'
  BY <1>1 DEF SavedIsStored
<1>8. ASSUME blemish' = {} PROVE ShownFine'
  <2>1. mode = "closed" \/ edited = s
    BY <1>1, <1>8 DEF Blemished
  <2>2. mode # "edit" => edited = 0
    BY DEF SeqEdInv, FormFine
  <2>3. mode = "closed"
    BY <1>1, <1>2, <2>1, <2>2 DEF SeqEdInv, EditorTypeOK
  <2>4. \A d \in details[s] : d = RowsOf(s)
    BY <1>1, <1>2, <1>8 DEF Blemished
  <2> QED BY <1>1, <1>3, <2>3, <2>4 DEF ShownFine, RowsOf
<1> QED BY <1>1, <1>3, <1>5, <1>6, <1>7, <1>8 DEF SeqEdInv

\* A save outlives its editor.
LEMMA CloseEditorFine ==
    ASSUME SeqEdInv, CloseEditor
    PROVE  SeqEdInv'
<1>1. /\ mode' = "closed" /\ edited' = 0 /\ hydrated' = FALSE /\ boundTo' = 0 /\ steps' = <<BlankStep>>
      /\ save' = {[j EXCEPT !.mounted = FALSE] : j \in save}
      /\ UNCHANGED <<rows, seqs, made, issued, details, saves, blemish, reported>>
  BY DEF CloseEditor, Unmount, storeVars
<1>2. /\ steps' \in Seq(DraftStep) /\ steps' # <<>> /\ Len(steps') = 1 /\ steps'[1].id = 0
  BY <1>1, BlankIs
<1>3. ASSUME NEW j \in save, NEW k, k = [j EXCEPT !.mounted = FALSE]
      PROVE  /\ k \in SaveJobs /\ k.steps = j.steps /\ k.saved = j.saved /\ k.todo = j.todo
             /\ k.target = j.target /\ k.creates = j.creates /\ k.mounted = FALSE
  <2>1. j \in SaveJobs
    BY DEF SeqEdInv, EditorTypeOK
  <2> QED BY <1>3, <2>1 DEF SaveJobs
<1>4. EditorTypeOK'
  <2>1. save' \subseteq SaveJobs /\ \A k, m \in save' : k = m
    <3>1. \A j, i \in save : j = i
      BY DEF SeqEdInv, EditorTypeOK
    <3>2. \A k \in save' : \E j \in save : k = [j EXCEPT !.mounted = FALSE]
      BY <1>1
    <3> QED BY <1>3, <3>1, <3>2
  <2>2. edited' \in 0 .. made' /\ boundTo' \in 0 .. MaxSeqs
    BY <1>1, EditorBounds DEF SeqEdInv, EditorTypeOK
  <2> QED BY <1>1, <1>2, <2>1, <2>2 DEF SeqEdInv, EditorTypeOK
<1>5. StoreFine'
  BY <1>1 DEF SeqEdInv, StoreFine
<1>6. FormFine'
  <2>1. 0 <= issued
    BY EditorBounds DEF SeqEdInv, EditorTypeOK
  <2> QED BY <1>1, <1>2, <2>1 DEF FormFine
<1>7. ASSUME NEW k \in save' PROVE JobFine(k)' /\ (blemish' = {} /\ k.target \in seqs' => Halfway(k)')
  <2>1. PICK j \in save : k = [j EXCEPT !.mounted = FALSE]
    BY <1>1, <1>7
  <2>2. JobFine(j)
    BY DEF SeqEdInv
  <2>3. JobFine(k)'
    BY <1>1, <1>3, <2>1, <2>2 DEF JobFine, RequestFine, SavedFine
  <2>4. ASSUME Halfway(j) PROVE Halfway(k)'
    <3>1. RowsOf(k.target)' = RowsOf(j.target) /\ k.steps = j.steps /\ k.saved = j.saved /\ k.todo = j.todo
      BY <1>1, <1>3, <2>1 DEF RowsOf
    <3>2. \A i, r : Belongs(k, i, r) <=> Belongs(j, i, r)
      BY <3>1 DEF Belongs
    <3> QED BY <2>4, <3>1, <3>2 DEF Halfway
  <2>5. blemish' = {} /\ k.target \in seqs' => Halfway(j)
    BY <1>1, <1>3, <2>1 DEF SeqEdInv
  <2> QED BY <2>3, <2>4, <2>5
<1>8. (reported # {} => save = {})'
  BY <1>1 DEF SeqEdInv
<1>9. ASSUME blemish' = {} PROVE SavedIsStored' /\ ShownFine'
  BY <1>1, <1>9 DEF SeqEdInv, SavedIsStored, ShownFine, RowsOf
<1> QED BY <1>4, <1>5, <1>6, <1>7, <1>8, <1>9 DEF SeqEdInv

\* A sequence that is deleted takes its own rows along, and no others.
LEMMA DeleteSequenceFine ==
    ASSUME SeqEdInv, NEW s \in SeqIds, DeleteSequence(s)
    PROVE  SeqEdInv'
<1>1. /\ seqs' = seqs \ {s} /\ rows' = {r \in rows : r.seq # s} /\ reported' = {}
      /\ UNCHANGED <<made, issued, details, mode, edited, hydrated, boundTo, steps, shownIds, save, saves, blemish>>
  BY DEF DeleteSequence, formFields
<1>2. \A t : t \in seqs' => t \in seqs /\ RowsOf(t)' = RowsOf(t)
  BY <1>1 DEF RowsOf
<1>3. EditorTypeOK'
  BY <1>1 DEF SeqEdInv, EditorTypeOK
<1>4. StoreFine'
  BY <1>1, FS_Subset DEF SeqEdInv, StoreFine
<1>5. FormFine'
  BY <1>1 DEF SeqEdInv, FormFine
<1>6. \A j \in save' : JobFine(j)'
  BY <1>1, JobStill DEF SeqEdInv
<1>7. SavedIsStored'
  BY <1>1 DEF SavedIsStored
<1>8. ASSUME blemish' = {} PROVE ShownFine'
  <2>1. SUFFICES ASSUME mode' = "edit", edited' \in seqs', \A j \in save' : ~j.wrote
                 PROVE  DraftFine' /\ \A d \in details'[edited'] : d = RowsOf(edited)'
    BY DEF ShownFine
  <2>2. edited \in seqs /\ RowsOf(edited)' = RowsOf(edited)
    BY <1>1, <1>2, <2>1
  <2>3. DraftFine /\ \A d \in details[edited] : d = RowsOf(edited)
    BY <1>1, <1>8, <2>1, <2>2 DEF SeqEdInv, ShownFine
  <2> QED BY <1>1, <2>2, <2>3 DEF DraftFine
<1>9. ASSUME blemish' = {}, NEW j \in save', j.target \in seqs' PROVE Halfway(j)'
  <2>1. Halfway(j) /\ RowsOf(j.target)' = RowsOf(j.target)
    BY <1>1, <1>2, <1>9 DEF SeqEdInv
  <2> QED BY <2>1 DEF Halfway
<1> QED BY <1>1, <1>3, <1>4, <1>5, <1>6, <1>7, <1>8, <1>9 DEF SeqEdInv

\* A request has its fields.
LEMMA RequestIs ==
    ASSUME NEW kind \in RequestKinds, NEW i \in Nat, NEW id \in 0 .. MaxIds
    PROVE  /\ Request(kind, i, id) \in StepRequests
           /\ Request(kind, i, id).kind = kind /\ Request(kind, i, id).index = i
           /\ Request(kind, i, id).id = id
BY DEF Request, StepRequests

\* A save that starts is one.
LEMMA JobIs ==
    ASSUME NEW t \in 0 .. MaxSeqs, NEW c \in BOOLEAN, NEW ss \in Seq(DraftStep),
           NEW todo \in SUBSET StepRequests
    PROVE  [mounted |-> TRUE, target |-> t, creates |-> c, steps |-> ss,
            saved |-> {}, wrote |-> FALSE, todo |-> todo] \in SaveJobs
<1>1. {} \in SUBSET (Nat \X (1 .. MaxIds))
  OBVIOUS
<1> QED BY <1>1, Zenon DEF SaveJobs

\* The requests of a save are what the draft differs in from the rows.
LEMMA StartSaveFine ==
    ASSUME SeqEdInv, StartSave
    PROVE  SeqEdInv'
<1> DEFINE n == Len(steps)
           creating == {Request("create", 0, 0)} \cup {Request("post", i, 0) : i \in 1 .. n}
           editing == {Request("meta", 0, 0)} \cup DeletesOf(Dropped) \cup UNION {NeededFor(i) : i \in 1 .. n}
           job == [mounted |-> TRUE, target |-> edited, creates |-> mode = "create",
                   steps |-> steps, saved |-> {}, wrote |-> FALSE,
                   todo |-> IF mode = "create" THEN creating ELSE editing]
<1>1. /\ FormShown /\ Valid /\ save = {} /\ saves < MaxSaves /\ saves' = saves + 1 /\ reported' = {}
      /\ save' = {job}
      /\ UNCHANGED <<rows, seqs, made, issued, details, mode, edited, hydrated, boundTo, steps, shownIds, blemish>>
  BY DEF StartSave, storeVars, formFields
<1> HIDE DEF creating, editing
<1>2. PICK k : k = job
  OBVIOUS
<1>3. /\ k.mounted = TRUE /\ k.target = edited /\ k.creates = (mode = "create") /\ k.steps = steps
      /\ k.saved = {} /\ k.wrote = FALSE
      /\ k.todo = (IF mode = "create" THEN creating ELSE editing) /\ save' = {k}
  BY <1>1, <1>2
<1> HIDE DEF job
<1>4. /\ steps \in Seq(DraftStep) /\ n \in Nat /\ \A i \in 1 .. n : steps[i] \in DraftStep
      /\ issued \in 1 .. MaxIds /\ made \in 1 .. MaxSeqs /\ edited \in 0 .. made
      /\ \A i \in 1 .. n : steps[i].id <= issued /\ steps[i].text # NoMessage /\ steps[i].id \in 0 .. MaxIds
  <2>1. steps \in Seq(DraftStep)
    BY DEF SeqEdInv, EditorTypeOK
  <2>2. \A i \in 1 .. n : steps[i] \in DraftStep
    BY <2>1
  <2>3. \A i \in 1 .. n : steps[i].id \in 0 .. MaxIds
    BY <2>2 DEF DraftStep
  <2> QED BY <1>1, <2>1, <2>2, <2>3 DEF SeqEdInv, EditorTypeOK, FormFine, Valid
<1>5. /\ mode \in {"create", "edit"}
      /\ mode = "create" => edited = 0 /\ \A i \in 1 .. n : steps[i].id = 0
      /\ mode = "edit" => edited # 0 /\ edited \in SeqIds /\ details[edited] # {}
  <2>1. mode = "edit" => edited \in SeqIds
    BY <1>4, EditorBounds DEF SeqEdInv, FormFine, SeqIds
  <2> QED BY <1>1, <2>1 DEF SeqEdInv, FormFine, FormShown
<1>6. ASSUME NEW r \in editing, mode = "edit"
      PROVE  \/ r = Request("meta", 0, 0)
             \/ \E id \in 1 .. issued : r = Request("delete", 0, id) /\ \A i \in 1 .. n : steps[i].id # id
             \/ \E i \in 1 .. n : steps[i].id = 0 /\ r = Request("post", i, 0)
             \/ \E i \in 1 .. n : steps[i].id # 0 /\ r = Request("put", i, steps[i].id)
  <2>1. CASE r \in DeletesOf(Dropped)
    <3>1. PICK id \in Dropped : r = Request("delete", 0, id)
      BY <2>1 DEF DeletesOf
    <3>2. PICK d \in details[edited] : \E q \in d : q.id = id
      BY <3>1 DEF Dropped
    <3>3. PICK q \in d : q.id = id
      BY <3>2
    <3>4. q \in Row /\ q.id <= issued
      BY <1>5, <1>6, <3>2, <3>3 DEF SeqEdInv, EditorTypeOK, StoreFine
    <3>5. id \in 1 .. issued
      BY <1>4, <3>3, <3>4, EditorBounds DEF Row
    <3>6. \A i \in 1 .. n : steps[i].id # id
      BY <3>1, <3>5 DEF Dropped, Kept, KeptIds, IdsIn
    <3> QED BY <3>1, <3>5, <3>6
  <2>2. ASSUME NEW i \in 1 .. n, r \in NeededFor(i)
        PROVE  \/ steps[i].id = 0 /\ r = Request("post", i, 0)
               \/ steps[i].id # 0 /\ r = Request("put", i, steps[i].id)
    <3>1. CASE steps[i].id = 0
      <4>1. NeededFor(i) = {Request("post", i, 0)}
        BY <3>1 DEF NeededFor
      <4> QED BY <2>2, <3>1, <4>1
    <3>2. CASE steps[i].id # 0
      <4>1. ~SameAsLoaded(steps[i], i)
        BY <2>2, <3>2 DEF NeededFor
      <4>2. NeededFor(i) = {Request("put", i, steps[i].id)}
        BY <3>2, <4>1 DEF NeededFor
      <4> QED BY <2>2, <3>2, <4>2
    <3> QED BY <3>1, <3>2
  <2> QED BY <1>6, <2>1, <2>2 DEF editing
<1>7. ASSUME NEW r \in k.todo PROVE r \in StepRequests /\ RequestFine(k, r)'
  <2>1. ASSUME NEW i \in 1 .. n, steps[i].id = 0, r = Request("post", i, 0)
        PROVE  r \in StepRequests /\ RequestFine(k, r)'
    <3>1. r \in StepRequests /\ r.kind = "post" /\ r.index = i /\ r.id = 0
      BY <1>4, <2>1, RequestIs DEF RequestKinds
    <3> QED BY <1>1, <1>3, <1>4, <2>1, <3>1 DEF RequestFine
  <2>2. CASE mode = "create"
    <3>1. CASE r = Request("create", 0, 0)
      <4>1. r \in StepRequests /\ r.kind = "create" /\ r.id = 0
        BY <1>4, <3>1, EditorBounds DEF RequestKinds, Request, StepRequests
      <4> QED BY <1>1, <1>3, <1>4, <1>5, <2>2, <3>1, <4>1 DEF RequestFine
    <3>2. CASE \E i \in 1 .. n : r = Request("post", i, 0)
      BY <1>5, <2>1, <2>2, <3>2
    <3> QED BY <1>3, <1>7, <2>2, <3>1, <3>2 DEF creating
  <2>3. CASE mode = "edit"
    <3>1. CASE r = Request("meta", 0, 0)
      <4>1. r \in StepRequests /\ r.kind = "meta" /\ r.id = 0
        BY <1>4, <3>1, EditorBounds DEF RequestKinds, Request, StepRequests
      <4> QED BY <1>1, <1>4, <4>1 DEF RequestFine
    <3>2. ASSUME NEW id \in 1 .. issued, r = Request("delete", 0, id), \A i \in 1 .. n : steps[i].id # id
          PROVE  r \in StepRequests /\ RequestFine(k, r)'
      <4>1. r \in StepRequests /\ r.kind = "delete" /\ r.id = id /\ r.index = 0
        BY <1>4, <3>2, RequestIs, EditorBounds DEF RequestKinds
      <4> QED BY <1>1, <1>3, <1>4, <3>2, <4>1 DEF RequestFine
    <3>3. ASSUME NEW i \in 1 .. n, steps[i].id # 0, r = Request("put", i, steps[i].id)
          PROVE  r \in StepRequests /\ RequestFine(k, r)'
      <4>1. r \in StepRequests /\ r.kind = "put" /\ r.id = steps[i].id /\ r.index = i
        BY <1>4, <3>3, RequestIs DEF RequestKinds
      <4> QED BY <1>1, <1>3, <1>4, <3>3, <4>1 DEF RequestFine
    <3>4. r \in editing
      BY <1>3, <1>7, <2>3
    <3> QED BY <1>6, <2>1, <2>3, <3>1, <3>2, <3>3, <3>4
  <2> QED BY <1>5, <2>2, <2>3
<1>8. k \in SaveJobs
  <2>1. edited \in 0 .. MaxSeqs
    BY <1>4, EditorBounds
  <2>2. k.todo \subseteq StepRequests
    BY <1>7
  <2>3. k.creates \in BOOLEAN
    BY <1>3
  <2>4. k = [mounted |-> TRUE, target |-> edited, creates |-> k.creates, steps |-> steps,
             saved |-> {}, wrote |-> FALSE, todo |-> k.todo]
    BY <1>2 DEF job
  <2> QED BY <2>4, <1>4, <2>1, <2>2, <2>3, JobIs
<1>9. mode = "create" => \A i \in 1 .. n : Request("post", i, 0) \in k.todo
  BY <1>3 DEF creating
<1>10. mode = "edit" => /\ \A id \in Dropped : Request("delete", 0, id) \in k.todo
                       /\ \A i \in 1 .. n : NeededFor(i) \subseteq k.todo
  BY <1>3 DEF editing, DeletesOf
<1>11. JobFine(k)'
  <2>1. k.target <= made' /\ (k.target = 0 => mode = "create")
    BY <1>1, <1>3, <1>4, <1>5
  <2> QED BY <1>1, <1>3, <1>4, <1>5, <1>7, <1>9, <2>1 DEF JobFine
<1>12. EditorTypeOK'
  <2>1. saves' \in 0 .. MaxSaves
    BY <1>1, EditorBounds DEF SeqEdInv, EditorTypeOK
  <2>2. save' \subseteq SaveJobs /\ \A j, m \in save' : j = m
    BY <1>3, <1>8
  <2> QED BY <1>1, <2>1, <2>2 DEF SeqEdInv, EditorTypeOK
<1>13. StoreFine'
  BY <1>1 DEF SeqEdInv, StoreFine
<1>14. FormFine'
  BY <1>1 DEF SeqEdInv, FormFine
<1>15. SavedIsStored'
  BY <1>1 DEF SavedIsStored
<1>16. ASSUME blemish' = {} PROVE ShownFine'
  <2>1. ShownFine /\ \A j \in save : ~j.wrote
    BY <1>1, <1>16 DEF SeqEdInv
  <2>2. DraftFine => DraftFine'
    BY <1>1 DEF DraftFine, RowsOf
  <2> QED BY <1>1, <2>1, <2>2 DEF ShownFine, RowsOf
<1>17. ASSUME blemish' = {}, k.target \in seqs' PROVE Halfway(k)'
  <2>1. edited \in seqs /\ mode = "edit"
    <3>1. edited \in seqs /\ seqs \subseteq 1 .. made
      BY <1>1, <1>3, <1>17 DEF SeqEdInv, EditorTypeOK
    <3> QED BY <1>4, <1>5, <3>1
  <2>2. DraftFine /\ \A d \in details[edited] : d = RowsOf(edited)
    BY <1>1, <1>17, <2>1 DEF SeqEdInv, ShownFine
  <2>3. RowsOf(edited)' = RowsOf(edited) /\ RowsOf(edited) \in details[edited]
    BY <1>1, <1>5, <2>1, <2>2 DEF RowsOf
  <2>4. \A r \in RowsOf(edited) : r.id \in Nat /\ r.id # 0
    BY EditorBounds DEF SeqEdInv, EditorTypeOK, RowsOf, Row
  <2>5. \A r \in RowsOf(edited) :
           Request("delete", 0, r.id) \in k.todo \/ \E i \in 1 .. n : Belongs(k, i, r)
    <3> TAKE r \in RowsOf(edited)
    <3>1. CASE r.id \in IdsIn(steps)
      BY <1>3, <3>1 DEF IdsIn, Belongs
    <3>2. CASE r.id \notin IdsIn(steps)
      <4>1. r.id \in Dropped
        BY <2>3, <3>2 DEF Dropped, Kept, KeptIds
      <4> QED BY <1>10, <2>1, <4>1
    <3> QED BY <3>1, <3>2
  <2>6. \A i \in 1 .. n :
           Request("post", i, 0) \in k.todo \/ \E r \in RowsOf(edited) : Belongs(k, i, r)
    <3> TAKE i \in 1 .. n
    <3>1. CASE steps[i].id = 0
      BY <1>10, <2>1, <3>1 DEF NeededFor
    <3>2. CASE steps[i].id # 0
      BY <1>3, <2>2, <3>2 DEF DraftFine, Belongs
    <3> QED BY <3>1, <3>2
  <2>7. \A i \in 1 .. n : \A r \in RowsOf(edited) :
           Belongs(k, i, r) => Request("put", i, r.id) \in k.todo \/ (r.text = steps[i].text /\ r.order = i)
    <3> TAKE i \in 1 .. n
    <3> TAKE r \in RowsOf(edited)
    <3> HAVE Belongs(k, i, r)
    <3>1. steps[i].id = r.id /\ steps[i].id # 0
      BY <1>3, <2>4 DEF Belongs
    <3>2. CASE ~SameAsLoaded(steps[i], i)
      BY <1>10, <2>1, <3>1, <3>2 DEF NeededFor
    <3>3. CASE SameAsLoaded(steps[i], i)
      <4>1. steps[i].orig = <<steps[i].text, i>>
        BY <3>3 DEF SameAsLoaded
      <4>2. PICK q \in RowsOf(edited) :
               q.id = steps[i].id /\ (steps[i].orig = <<>> \/ steps[i].orig = <<q.text, q.order>>)
        BY <2>2, <3>1 DEF DraftFine
      <4>3. q = r
        BY <3>1, <4>2 DEF SeqEdInv, StoreFine, RowsOf
      <4>4. <<steps[i].text, i>> # <<>>
        OBVIOUS
      <4>5. <<steps[i].text, i>> = <<r.text, r.order>>
        BY <4>1, <4>2, <4>3, <4>4
      <4> QED BY <4>5
    <3> QED BY <3>2, <3>3
  <2>8. \A i, m \in 1 .. n : steps[i].id # 0 /\ steps[i].id = steps[m].id => i = m
    BY <2>2 DEF DraftFine
  <2>9. RowsOf(k.target)' = RowsOf(edited)
    BY <1>1, <1>3 DEF RowsOf
  <2>10. \A p \in k.saved : \E r \in RowsOf(edited) : r.id = p[2]
    BY <1>3
  <2> QED BY <1>3, <2>5, <2>6, <2>7, <2>8, <2>9, <2>10 DEF Halfway, Belongs
<1> QED BY <1>1, <1>3, <1>11, <1>12, <1>13, <1>14, <1>15, <1>16, <1>17 DEF SeqEdInv

\* A save without requests left has stored its draft.
LEMMA SaveSucceedsFine ==
    ASSUME SeqEdInv, NEW j \in save, SaveSucceeds(j)
    PROVE  SeqEdInv'
<1>1. /\ mode' = "closed" /\ edited' = 0 /\ hydrated' = FALSE /\ boundTo' = 0 /\ steps' = <<BlankStep>>
      /\ j.todo = {} /\ save' = {}
      /\ reported' = {[seq |-> j.target, texts |-> TextsOf(j.steps)]}
      /\ UNCHANGED <<rows, seqs, made, issued, details, saves, blemish>>
  BY DEF SaveSucceeds, Unmount, storeVars
<1>2. /\ steps' \in Seq(DraftStep) /\ steps' # <<>> /\ Len(steps') = 1 /\ steps'[1].id = 0
  BY <1>1, BlankIs
<1>3. EditorTypeOK'
  <2>1. edited' \in 0 .. made' /\ boundTo' \in 0 .. MaxSeqs
    BY <1>1, EditorBounds DEF SeqEdInv, EditorTypeOK
  <2> QED BY <1>1, <1>2, <2>1 DEF SeqEdInv, EditorTypeOK
<1>4. StoreFine'
  BY <1>1 DEF SeqEdInv, StoreFine
<1>5. FormFine'
  <2>1. 0 <= issued
    BY EditorBounds DEF SeqEdInv, EditorTypeOK
  <2> QED BY <1>1, <1>2, <2>1 DEF FormFine
<1>6. ASSUME blemish' = {} PROVE SavedIsStored'
  <2>1. /\ j.steps \in Seq(DraftStep) /\ j.saved \subseteq Nat \X (1 .. MaxIds)
        /\ rows \subseteq Row /\ JobFine(j) /\ \A r, q \in rows : r.id = q.id => r = q
    BY DEF SeqEdInv, EditorTypeOK, StoreFine, SaveJobs
  <2>2. ASSUME j.target \in seqs
        PROVE  \E o \in InOrder(RowsOf(j.target)) : TextsOf(o) = TextsOf(j.steps)
    <3>1. Halfway(j)
      BY <1>1, <1>6, <2>2 DEF SeqEdInv
    <3>2. \A p \in j.saved : SavedFine(j, p)
      BY <2>1 DEF JobFine
    <3> QED BY <1>1, <2>1, <3>1, <3>2, SavedInOrder
  <2>3. RowsOf(j.target)' = RowsOf(j.target)
    BY <1>1 DEF RowsOf
  <2>4. \A p \in reported' : p.seq = j.target /\ p.texts = TextsOf(j.steps)
    BY <1>1
  <2>5. \A p : RowsOf(p.seq)' = RowsOf(p.seq)
    BY <1>1 DEF RowsOf
  <2> QED BY <1>1, <2>2, <2>4, <2>5 DEF SavedIsStored
<1>7. ShownFine'
  BY <1>1 DEF ShownFine
<1> QED BY <1>1, <1>3, <1>4, <1>5, <1>6, <1>7 DEF SeqEdInv

\* A step that gets an id is otherwise as it was.
LEMMA GivenIdIs ==
    ASSUME NEW st \in DraftStep, NEW id \in 0 .. MaxIds
    PROVE  /\ [st EXCEPT !.id = id] \in DraftStep
           /\ [st EXCEPT !.id = id].id = id /\ [st EXCEPT !.id = id].orig = st.orig
BY DEF DraftStep

\* The ids of the steps that were stored fit the draft.
LEMMA WithSavedIdsIs ==
    ASSUME SeqEdInv, NEW j \in save, j.creates, j.mounted, NEW ss, ss = WithSavedIds(j)
    PROVE  /\ ss \in Seq(DraftStep) /\ ss # <<>>
           /\ \A i \in 1 .. Len(ss) : ss[i].id <= issued /\ ss[i].orig = <<>>
           /\ \A i \in 1 .. Len(ss) : ss[i].id # 0 => \E p \in j.saved : p[1] = i /\ p[2] = ss[i].id
<1> DEFINE n == Len(steps)
           found(i) == \E p \in j.saved : p[1] = i
           pick(i) == CHOOSE p \in j.saved : p[1] = i
<1>1. steps \in Seq(DraftStep) /\ steps # <<>> /\ n \in Nat /\ \A i \in 1 .. n : steps[i] \in DraftStep
  BY DEF SeqEdInv, EditorTypeOK
<1>2. \A i \in 1 .. n : steps[i].id = 0 /\ steps[i].orig = <<>>
  BY DEF SeqEdInv, JobFine, FormFine
<1>3. \A i \in 1 .. n : found(i) => pick(i) \in j.saved /\ pick(i)[1] = i
  OBVIOUS
<1>4. ss = [i \in 1 .. n |-> IF steps[i].id = 0 /\ found(i)
                             THEN [steps[i] EXCEPT !.id = pick(i)[2]] ELSE steps[i]]
  BY DEF WithSavedIds
<1> HIDE DEF n, found, pick
<1>5. \A p \in j.saved : p[2] \in 1 .. MaxIds /\ p[2] <= issued
  <2>1. j.saved \subseteq Nat \X (1 .. MaxIds) /\ JobFine(j)
    BY DEF SeqEdInv, EditorTypeOK, SaveJobs
  <2> QED BY <2>1 DEF JobFine, SavedFine
<1>6. 0 <= issued
  BY EditorBounds DEF SeqEdInv, EditorTypeOK
<1>7. ASSUME NEW i \in 1 .. n
      PROVE  /\ ss[i] \in DraftStep /\ ss[i].id <= issued /\ ss[i].orig = <<>>
             /\ ss[i].id # 0 => \E p \in j.saved : p[1] = i /\ p[2] = ss[i].id
  <2>1. CASE ~found(i)
    <3>1. ss[i] = steps[i]
      BY <1>4, <2>1
    <3> QED BY <1>1, <1>2, <1>6, <3>1
  <2>2. CASE found(i)
    <3>1. ss[i] = [steps[i] EXCEPT !.id = pick(i)[2]]
      BY <1>2, <1>4, <2>2
    <3>2. pick(i) \in j.saved /\ pick(i)[1] = i /\ pick(i)[2] \in 0 .. MaxIds /\ pick(i)[2] <= issued
      BY <1>3, <1>5, <2>2, EditorBounds
    <3>3. ss[i] \in DraftStep /\ ss[i].id = pick(i)[2] /\ ss[i].orig = steps[i].orig
      BY <1>1, <3>1, <3>2, GivenIdIs
    <3> QED BY <1>2, <3>2, <3>3
  <2> QED BY <2>1, <2>2
<1>8. ss \in Seq(DraftStep) /\ Len(ss) = n
  <2>1. ss \in [1 .. n -> DraftStep]
    BY <1>4, <1>7
  <2> QED BY <1>1, <2>1
<1>9. n # 0
  BY <1>1 DEF n
<1> QED BY <1>7, <1>8, <1>9

\* A save that breaks leaves a typed editor behind, whatever was carried out.
LEMMA SaveBreaksFine ==
    ASSUME SeqEdInv, NEW j \in save, SaveBreaks(j), StoreTypeOK', issued <= issued', made <= made',
           UNCHANGED <<details, saves, reported>>, blemish' \subseteq {"lost", "halfway", "reused", "stale"}
    PROVE  EditorTypeOK' /\ StoreFine' /\ FormFine' /\ save' = {} /\ reported' = {}
<1>1. save' = {} /\ reported' = {}
  BY DEF SaveBreaks, SeqEdInv
<1>2. /\ JobFine(j) /\ j.target \in 0 .. made /\ j.target \in 0 .. MaxSeqs
      /\ made \in Nat /\ made' \in Nat /\ issued \in Nat /\ issued' \in Nat
  <2>1. j \in SaveJobs /\ JobFine(j) /\ made \in 1 .. MaxSeqs /\ issued \in 1 .. MaxIds
    BY DEF SeqEdInv, EditorTypeOK
  <2>2. j.target \in 0 .. MaxSeqs /\ j.target <= made
    BY <2>1 DEF SaveJobs, JobFine
  <2> QED BY <2>1, <2>2, EditorBounds DEF StoreTypeOK
<1>3. \A ss \in Seq(DraftStep) : \A i \in 1 .. Len(ss) : ss[i].id <= issued => ss[i].id <= issued'
  <2>1. \A ss \in Seq(DraftStep) : \A i \in 1 .. Len(ss) : ss[i].id \in Nat
    <3> TAKE ss \in Seq(DraftStep)
    <3> TAKE i \in 1 .. Len(ss)
    <3>1. ss[i] \in DraftStep
      OBVIOUS
    <3> QED BY <3>1, EditorBounds DEF DraftStep
  <2> QED BY <1>2, <2>1
<1>4. /\ mode' \in {"closed", "create", "edit"} /\ edited' \in 0 .. made' /\ hydrated' \in BOOLEAN
      /\ boundTo' \in 0 .. MaxSeqs /\ steps' \in Seq(DraftStep) /\ steps' # <<>> /\ FormFine'
  <2>1. CASE j.creates /\ j.target # 0 /\ j.mounted /\ mode = "create"
    <3>1. /\ mode' = "edit" /\ edited' = j.target /\ steps' = WithSavedIds(j)
          /\ UNCHANGED <<hydrated, boundTo>>
      BY <2>1 DEF SaveBreaks
    <3>2. PICK ss : ss = WithSavedIds(j)
      OBVIOUS
    <3>3. ss \in Seq(DraftStep) /\ ss # <<>> /\ \A i \in 1 .. Len(ss) : ss[i].id <= issued
      BY <2>1, <3>2, WithSavedIdsIs
    <3>4. FormFine'
      BY <1>3, <2>1, <3>1, <3>2, <3>3 DEF FormFine
    <3> QED BY <1>2, <3>1, <3>2, <3>3, <3>4 DEF SeqEdInv, EditorTypeOK
  <2>2. CASE j.creates /\ j.target # 0 /\ ~(j.mounted /\ mode = "create")
    <3>1. ShowEditor("edit", j.target)
      BY <2>2 DEF SaveBreaks
    <3>2. /\ mode' \in {"closed", "create", "edit"} /\ edited' \in 0 .. made /\ hydrated' \in BOOLEAN
          /\ boundTo' \in 0 .. MaxSeqs /\ steps' \in Seq(DraftStep) /\ steps' # <<>> /\ FormFine'
      BY <1>2, <2>2, <3>1, ShowEditorFine
    <3> QED BY <1>2, <3>2
  <2>3. CASE ~(j.creates /\ j.target # 0)
    <3>1. UNCHANGED <<mode, edited, hydrated, boundTo, steps>>
      BY <2>3 DEF SaveBreaks, formFields
    <3>2. steps \in Seq(DraftStep) /\ FormFine
      BY DEF SeqEdInv, EditorTypeOK
    <3>3. FormFine'
      BY <1>3, <3>1, <3>2 DEF FormFine
    <3> QED BY <1>2, <3>1, <3>3 DEF SeqEdInv, EditorTypeOK
  <2> QED BY <2>1, <2>2, <2>3
<1>5. EditorTypeOK'
  BY <1>1, <1>4 DEF SeqEdInv, EditorTypeOK, StoreTypeOK
<1>6. StoreFine'
  <2>1. ASSUME NEW s \in SeqIds, NEW d \in details[s], NEW r \in d PROVE r.id <= issued'
    <3>1. r \in Row /\ r.id <= issued
      BY DEF SeqEdInv, EditorTypeOK, StoreFine
    <3> QED BY <1>2, <3>1, EditorBounds DEF Row
  <2>2. ASSUME NEW s \in SeqIds, NEW d \in details[s] PROVE s <= made' /\ IsFiniteSet(d)
    BY <1>2 DEF SeqEdInv, StoreFine, SeqIds
  <2> QED BY <2>1, <2>2 DEF StoreFine, StoreTypeOK
<1> QED BY <1>1, <1>4, <1>5, <1>6

\* After a creation that broke off, the editor is of what was created.
LEMMA SaveRefusedFine ==
    ASSUME SeqEdInv, NEW j \in save, SaveRefused(j)
    PROVE  SeqEdInv'
<1>1. /\ j.todo # {} /\ SaveBreaks(j)
      /\ blemish' = (IF j.creates /\ j.target # 0 /\ ~j.mounted THEN Blemished(j.target)
                     ELSE IF ~j.creates /\ j.wrote THEN blemish \cup {"halfway"} ELSE blemish)
      /\ UNCHANGED <<rows, seqs, made, issued, details, saves, reported>>
  BY DEF SaveRefused, storeVars
<1>2. blemish' \subseteq {"lost", "halfway", "reused", "stale"}
  BY <1>1 DEF SeqEdInv, EditorTypeOK, Blemished
<1>3. StoreTypeOK' /\ issued <= issued' /\ made <= made'
  BY <1>1, EditorBounds DEF SeqEdInv, EditorTypeOK, StoreFine, StoreTypeOK
<1>4. EditorTypeOK' /\ StoreFine' /\ FormFine' /\ save' = {} /\ reported' = {}
  BY <1>1, <1>2, <1>3, SaveBreaksFine
<1>5. JobFine(j) /\ j.target \in 0 .. made /\ (\A k \in save : k = j)
  <2>1. j \in SaveJobs /\ JobFine(j) /\ (\A k \in save : k = j) /\ made \in 1 .. MaxSeqs
    BY DEF SeqEdInv, EditorTypeOK
  <2>2. j.target \in 0 .. MaxSeqs /\ j.target <= made
    BY <2>1 DEF SaveJobs, JobFine
  <2> QED BY <2>1, <2>2, EditorBounds
<1>6. ASSUME blemish' = {} PROVE ShownFine'
  <2>0. blemish = {}
    BY <1>1, <1>6 DEF Blemished
  <2>1. CASE j.creates /\ j.target # 0 /\ j.mounted
    <3>1. mode = "create" /\ details[j.target] = {}
      BY <1>5, <2>1 DEF JobFine
    <3>2. PICK ss : ss = WithSavedIds(j)
      OBVIOUS
    <3>3. mode' = "edit" /\ edited' = j.target /\ steps' = ss
      BY <1>1, <2>1, <3>1, <3>2 DEF SaveBreaks
    <3>4. ASSUME j.target \in seqs PROVE DraftFine'
      <4>1. Halfway(j)
        BY <2>0, <3>4 DEF SeqEdInv
      <4>2. /\ \A i \in 1 .. Len(ss) : ss[i].orig = <<>>
            /\ \A i \in 1 .. Len(ss) : ss[i].id # 0 => \E p \in j.saved : p[1] = i /\ p[2] = ss[i].id
        BY <2>1, <3>2, WithSavedIdsIs
      <4>3. \A p \in j.saved : \E r \in RowsOf(j.target) : r.id = p[2]
        BY <4>1 DEF Halfway
      <4>4. \A p, q \in j.saved : p[2] = q[2] => p[1] = q[1]
        BY <1>5 DEF JobFine, SavedFine
      <4>5. RowsOf(j.target)' = RowsOf(j.target)
        BY <1>1 DEF RowsOf
      <4>6. \A i \in 1 .. Len(ss) : ss[i].id # 0 => \E r \in RowsOf(j.target) : r.id = ss[i].id
        BY <4>2, <4>3
      <4>7. \A i, k \in 1 .. Len(ss) : ss[i].id # 0 /\ ss[i].id = ss[k].id => i = k
        BY <4>2, <4>4
      <4> QED BY <3>3, <4>2, <4>5, <4>6, <4>7 DEF DraftFine
    <3> QED BY <1>1, <3>1, <3>3, <3>4 DEF ShownFine
  <2>2. CASE j.creates /\ j.target # 0 /\ ~j.mounted
    <3>1. ShowEditor("edit", j.target) /\ blemish' = Blemished(j.target)
      BY <1>1, <2>2 DEF SaveBreaks
    <3>2. mode' = "edit" /\ edited' = j.target
      BY <3>1 DEF ShowEditor
    <3>3. mode # "edit" /\ details[j.target] = {}
      BY <1>5, <2>2 DEF JobFine
    <3>4. mode = "closed"
      <4>1. edited = 0
        BY <3>3 DEF SeqEdInv, FormFine
      <4> QED BY <1>6, <2>2, <3>1, <4>1 DEF Blemished
    <3>5. issued' \in Nat /\ issued <= issued'
      BY <1>1, EditorBounds DEF SeqEdInv, EditorTypeOK
    <3>6. DraftFine'
      BY <1>1, <1>5, <2>2, <3>1, <3>3, <3>4, <3>5, ShowEditorFine
    <3> QED BY <1>1, <3>2, <3>3, <3>6 DEF ShownFine
  <2>3. CASE j.creates /\ j.target = 0
    <3>1. mode # "edit" /\ mode' = mode
      BY <1>1, <1>5, <2>3 DEF JobFine, SaveBreaks, formFields
    <3> QED BY <3>1 DEF ShownFine
  <2>4. CASE ~j.creates
    <3>1. ~j.wrote
      BY <1>1, <1>6, <2>4
    <3>2. UNCHANGED <<mode, edited, steps>>
      BY <1>1, <2>4 DEF SaveBreaks, formFields
    <3>3. ShownFine /\ \A k \in save : ~k.wrote
      BY <1>5, <2>0, <3>1 DEF SeqEdInv
    <3>4. DraftFine => DraftFine'
      BY <1>1, <3>2 DEF DraftFine, RowsOf
    <3> QED BY <1>1, <3>2, <3>3, <3>4 DEF ShownFine, RowsOf
  <2> QED BY <2>1, <2>2, <2>3, <2>4
<1>7. SavedIsStored'
  BY <1>4 DEF SavedIsStored
<1> QED BY <1>4, <1>6, <1>7 DEF SeqEdInv

\* After a lost answer nothing is promised, but the records are still sound.
LEMMA SaveAnswerLostFine ==
    ASSUME SeqEdInv, NEW j \in save, NEW r \in j.todo, SaveAnswerLost(j, r)
    PROVE  SeqEdInv'
<1>1. /\ Feasible(j, r) /\ Carry(j, r) /\ SaveBreaks(j) /\ blemish' = blemish \cup {"lost"}
      /\ UNCHANGED <<details, saves, reported>>
  BY DEF SaveAnswerLost
<1>2. StoreTypeOK' /\ issued <= issued' /\ made <= made'
  BY <1>1, CarryKeepsStore
<1>3. EditorTypeOK' /\ StoreFine' /\ FormFine' /\ save' = {} /\ reported' = {}
  <2>1. blemish' \subseteq {"lost", "halfway", "reused", "stale"}
    BY <1>1 DEF SeqEdInv, EditorTypeOK
  <2> QED BY <1>1, <1>2, <2>1, SaveBreaksFine
<1>4. blemish' # {}
  BY <1>1
<1> QED BY <1>3, <1>4 DEF SeqEdInv

\* A save that goes on.
LEMMA SaveStepFine ==
    ASSUME SeqEdInv, NEW j \in save, NEW r \in j.todo, SaveStep(j, r)
    PROVE  SeqEdInv'
<1>1. /\ r \in NextUp(j) /\ Feasible(j, r) /\ Carry(j, r) /\ save' = {NextRequest(j, r)}
      /\ boundTo' = (IF r.kind = "create" /\ j.mounted THEN made + 1 ELSE boundTo)
      /\ UNCHANGED <<details, mode, edited, hydrated, steps, saves, shownIds, blemish, reported>>
  BY DEF SaveStep
<1>2. StoreTypeOK' /\ issued <= issued' /\ made <= made' /\ seqs \subseteq seqs'
  BY <1>1, CarryKeepsStore
<1>3. PICK k : save' = {k}
  BY <1>1
<1>4. k \in SaveJobs /\ JobFine(k)'
  BY <1>1, <1>3, JobGoesOn
<1>5. /\ issued \in Nat /\ issued' \in Nat /\ made \in Nat /\ made' \in Nat
      /\ reported' = {} /\ edited' \in 0 .. made'
  <2>1. issued \in Nat /\ issued' \in Nat /\ made \in Nat /\ made' \in Nat
    BY <1>2, EditorBounds DEF SeqEdInv, EditorTypeOK, StoreTypeOK
  <2> QED BY <1>1, <1>2, <2>1 DEF SeqEdInv, EditorTypeOK
<1>6. boundTo' \in 0 .. MaxSeqs
  <2>1. r.kind = "create" => made < MaxSeqs
    BY <1>1, Carried
  <2> QED BY <1>1, <1>5, <2>1, EditorBounds DEF SeqEdInv, EditorTypeOK
<1>7. EditorTypeOK'
  <2>1. save' \subseteq SaveJobs /\ \A i, m \in save' : i = m
    BY <1>3, <1>4
  <2> QED BY <1>1, <1>2, <1>5, <1>6, <2>1 DEF SeqEdInv, EditorTypeOK, StoreTypeOK
<1>8. StoreFine'
  <2>1. ASSUME NEW s \in SeqIds, NEW d \in details[s], NEW w \in d PROVE w.id <= issued'
    <3>1. w \in Row /\ w.id <= issued
      BY DEF SeqEdInv, EditorTypeOK, StoreFine
    <3> QED BY <1>2, <1>5, <3>1, EditorBounds DEF Row
  <2>2. ASSUME NEW s \in SeqIds, NEW d \in details[s] PROVE s <= made' /\ IsFiniteSet(d)
    BY <1>2, <1>5 DEF SeqEdInv, StoreFine, SeqIds
  <2> QED BY <1>1, <1>2, <2>1, <2>2 DEF StoreFine, StoreTypeOK
<1>9. FormFine'
  <2>1. ASSUME NEW i \in 1 .. Len(steps) PROVE steps[i].id <= issued'
    <3>1. steps[i] \in DraftStep /\ steps[i].id <= issued
      BY DEF SeqEdInv, EditorTypeOK, FormFine
    <3> QED BY <1>2, <1>5, <3>1, EditorBounds DEF DraftStep
  <2> QED BY <1>1, <2>1 DEF SeqEdInv, FormFine
<1>10. SavedIsStored'
  BY <1>5 DEF SavedIsStored
<1>11. ASSUME blemish' = {} PROVE ShownFine'
  <2>1. SUFFICES ASSUME mode' = "edit", edited' \in seqs', ~k.wrote
                 PROVE  DraftFine' /\ \A d \in details'[edited'] : d = RowsOf(edited)'
    BY <1>1, <1>3 DEF ShownFine
  <2>2. r.kind = "meta" /\ ~j.wrote
    <3>1. j \in SaveJobs /\ r \in StepRequests /\ k = NextRequest(j, r)
      BY <1>1, <1>3 DEF SeqEdInv, EditorTypeOK, SaveJobs
    <3>2. k.wrote = (j.wrote \/ r.kind # "meta")
      BY <3>1 DEF NextRequest, SaveJobs
    <3> QED BY <2>1, <3>2
  <2>3. UNCHANGED <<rows, seqs, made, issued>>
    BY <1>1, <2>2, Carried DEF storeVars
  <2>4. \A m \in save : ~m.wrote
    BY <2>2 DEF SeqEdInv, EditorTypeOK
  <2>5. DraftFine /\ \A d \in details[edited] : d = RowsOf(edited)
    BY <1>1, <1>11, <2>1, <2>3, <2>4 DEF SeqEdInv, ShownFine
  <2> QED BY <1>1, <2>3, <2>5 DEF DraftFine, RowsOf
<1>12. ASSUME blemish' = {}, k.target \in seqs' PROVE Halfway(k)'
  <2>1. j.target \in seqs => Halfway(j)
    BY <1>1, <1>12 DEF SeqEdInv
  <2> QED BY <1>1, <1>3, <1>12, <2>1, HalfwayGoesOn
<1> QED BY <1>3, <1>4, <1>5, <1>7, <1>8, <1>9, <1>10, <1>11, <1>12 DEF SeqEdInv

\* The invariant is inductive: every action of the editor keeps it.
LEMMA EditorNextFine ==
    ASSUME SeqEdInv, [EditorNext]_editorVars
    PROVE  SeqEdInv'
<1>1. CASE OpenCreate
  BY <1>1, OpenCreateFine
<1>2. CASE CloseEditor
  BY <1>2, CloseEditorFine
<1>3. CASE LandSequence
  BY <1>3, LandSequenceFine
<1>4. CASE AddStep \/ \E i \in 1 .. MaxSteps : RemoveStep(i) \/ MoveStepUp(i) \/ \E t \in Messages : PatchStep(i, t)
  BY <1>4, EditsFine
<1>5. CASE StartSave
  BY <1>5, StartSaveFine
<1>6. CASE \E s \in SeqIds : OpenEdit(s) \/ DeleteSequence(s)
  BY <1>6, OpenEditFine, DeleteSequenceFine
<1>7. ASSUME NEW j \in save, SaveRefused(j) \/ SaveSucceeds(j) PROVE SeqEdInv'
  BY <1>7, SaveRefusedFine, SaveSucceedsFine
<1>8. ASSUME NEW j \in save, NEW r \in j.todo, SaveStep(j, r) \/ SaveAnswerLost(j, r) PROVE SeqEdInv'
  BY <1>8, SaveStepFine, SaveAnswerLostFine
<1>9. CASE UNCHANGED editorVars
  <2>1. UNCHANGED <<rows, seqs, made, issued, details, mode, edited, hydrated, boundTo, steps, save, saves,
                    blemish, reported>>
    BY <1>9 DEF editorVars
  <2>2. EditorTypeOK' /\ StoreFine' /\ FormFine'
    BY <2>1 DEF SeqEdInv, EditorTypeOK, StoreFine, FormFine
  <2>3. \A j \in save' : JobFine(j)'
    BY <2>1, JobStill DEF SeqEdInv
  <2>4. ASSUME blemish' = {} PROVE SavedIsStored'
    BY <2>1, <2>4 DEF SeqEdInv, SavedIsStored, RowsOf
  <2>5. ASSUME blemish' = {} PROVE ShownFine'
    <3>1. DraftFine => DraftFine'
      BY <2>1 DEF DraftFine, RowsOf
    <3>2. ShownFine
      BY <2>1, <2>5 DEF SeqEdInv
    <3> QED BY <2>1, <3>1, <3>2 DEF ShownFine, RowsOf
  <2>6. ASSUME blemish' = {}, NEW j \in save', j.target \in seqs' PROVE Halfway(j)'
    BY <2>1, <2>6, HalfwayStill DEF SeqEdInv
  <2> QED BY <2>1, <2>2, <2>3, <2>4, <2>5, <2>6 DEF SeqEdInv
<1> QED BY <1>1, <1>2, <1>3, <1>4, <1>5, <1>6, <1>7, <1>8, <1>9 DEF EditorNext

(* A save that reports success has stored the draft, step for step and in its    *)
(* order, however it was edited, and also when it completes a creation that      *)
(* broke off; as long as no answer was lost, no edit broke off, and the editor    *)
(* was not stale or reused.                                                      *)
THEOREM EditorHolds == EditorSpec => []EditorInv
<1>1. SeqEdInv => EditorInv
  BY DEF SeqEdInv, EditorInv, SavedIsStored
<1>2. SeqEdInv /\ [EditorNext]_editorVars => SeqEdInv'
  BY EditorNextFine
<1> QED BY EditorInitFine, <1>1, <1>2, PTL DEF EditorSpec

=============================================================================
