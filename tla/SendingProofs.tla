---------------------------- MODULE SendingProofs ----------------------------
(***************************************************************************)
(* What holds of the steps of a sequence and of scheduled posts, for every *)
(* number of enrolments, steps, posts, beats, sweeps and mishaps.          *)
(***************************************************************************)
EXTENDS SequenceDrip, ScheduledPosts, FiniteSetTheorems, TLAPS

-----------------------------------------------------------------------------
(* The list of a beat is ordered: its least element is on it.  The least   *)
(* element exists because < is well-founded on the natural numbers.        *)

Below == {ss \in Nat \X Nat : ss[1] < ss[2]}

LEMMA BelowIsWellFounded == IsWellFoundedOn(Below, Nat)
<1>1. OpToRel(<, Nat) = Below
  BY Zenon DEF OpToRel, Below
<1> QED BY <1>1, NatLessThanWellFounded, Zenon

LEMMA MinIsMember ==
    ASSUME NEW S, S \subseteq Nat, S # {} PROVE Min(S) \in S
<1>1. PICK x \in S : \A y \in S : ~(<<y, x>> \in Below)
  BY BelowIsWellFounded, WFMin
<1>2. \A y, z \in Nat : <<y, z>> \in Below <=> y < z
  BY DEF Below
<1>3. ASSUME NEW y \in S PROVE x =< y
  <2>1. x \in Nat /\ y \in Nat
    OBVIOUS
  <2>2. ~(y < x)
    BY <1>1, <1>2, <2>1, Zenon
  <2> QED BY <2>1, <2>2
<1> QED BY <1>3, Zenon DEF Min

-----------------------------------------------------------------------------
(* Sequences.  That steps arrive in order is not inductive: it rests on    *)
(* the one holder of an enrolment knowing its current step, and on the     *)
(* copies of that step being accounted for whenever it may be sent again.  *)

Clean(e) == e \notin overtaken \cup robbed

\* The steps of an enrolment have arrived in order.
InOrder(e) ==
    /\ \A k \in Steps :
        /\ k < current[e] => sent[e][k] > 0
        /\ k > current[e] => sent[e][k] = 0
        /\ sent[e][k] <= 1 + unrecorded[e]
    /\ row[e] = "completed" => \A k \in Steps : sent[e][k] > 0

\* A beat that holds an enrolment sends, and records, its current step.
KnowsStep(b, e) ==
    /\ due[b][e] = current[e]
    /\ beat[b] \in {"sent", "advanced"} => sent[e][current[e]] > 0
    /\ beat[b] = "advanced" => read[b][2] = current[e] /\ read[b][1] # "completed"

\* No copy of the current step is unaccounted for; or one is about to be
\* recorded; or there will be no other.
Settled(e) == sent[e][current[e]] <= unrecorded[e]
Recording(b, e) == Holds(b, e) /\ beat[b] # "claimed"
Over(e) == row[e] \in {"completed", "unsubscribed", "failed"} /\ \A b \in Beats : ~Holds(b, e)

EnrolmentOK(e) ==
    /\ e \notin robbed =>
        /\ \A b, c \in Beats : Holds(b, e) /\ Holds(c, e) => b = c
        /\ \A b \in Beats : Holds(b, e) => row[e] \in {"sending", "unsubscribed", "failed"}
    /\ Clean(e) =>
        /\ InOrder(e)
        /\ \A b \in Beats : Holds(b, e) => KnowsStep(b, e)
        /\ Settled(e) \/ Over(e) \/ \E b \in Beats : Recording(b, e)

\* A beat that is at a step has an enrolment on its list.
HasItem == \A b \in Beats : beat[b] \in Holding => Ahead(b) # {}

EInv == DripTypeOK /\ HasItem /\ \A e \in Enrolments : EnrolmentOK(e)

LEMMA EInvImplies == EInv => DripInv
BY DEF EInv, DripInv, EnrolmentOK, OneSender, StepsInOrder, InOrder, Clean

LEMMA AtHandIsAhead ==
    ASSUME NEW b \in Beats, Ahead(b) # {}
    PROVE  AtHand(b) \in Enrolments /\ due[b][AtHand(b)] # NoStep
<1>1. Ahead(b) \subseteq Nat
  BY EnrolmentsAssumption DEF Ahead
<1>2. AtHand(b) \in Ahead(b)
  BY <1>1, MinIsMember DEF AtHand
<1> QED BY <1>2 DEF Ahead

\* A holder is at the head of its list.
LEMMA HolderAtHand ==
    ASSUME EInv, NEW b \in Beats, beat[b] \in Holding
    PROVE  \E e \in Enrolments : e = AtHand(b) /\ Holds(b, e) /\ due[b][e] \in Steps
<1>1. AtHand(b) \in Enrolments /\ due[b][AtHand(b)] # NoStep
  BY AtHandIsAhead DEF EInv, HasItem
<1> QED BY <1>1 DEF EInv, DripTypeOK, Holds

LEMMA DripInitEInv == DripInit => EInv
<1> SUFFICES ASSUME DripInit PROVE EInv
  OBVIOUS
<1>1. LastStep \in Nat /\ MaxMishaps \in Nat
  BY LastStepAssumption, MaxMishapsAssumption
<1>2. DripTypeOK
  BY <1>1 DEF DripInit, DripTypeOK, Steps, NoStep, NothingRead, EnrolmentStates
<1>3. \A b \in Beats, e \in Enrolments : ~Holds(b, e)
  BY DEF DripInit, Holds, Holding
<1> QED BY <1>1, <1>2, <1>3
        DEF EInv, DripInit, HasItem, Holding, EnrolmentOK, InOrder, Settled, Steps

-----------------------------------------------------------------------------
(* What a step of one beat leaves alone.                                   *)

\* The hold of a beat whose list and phase stay.
LEMMA SameHold ==
    ASSUME NEW c, due'[c] = due[c], beat'[c] \in Holding <=> beat[c] \in Holding
    PROVE  \A e : Holds(c, e)' <=> Holds(c, e)
<1> TAKE e
<1>1. Ahead(c)' = Ahead(c)
  BY DEF Ahead
<1>2. AtHand(c)' = AtHand(c)
  BY <1>1 DEF AtHand
<1> QED BY <1>2 DEF Holds

\* An enrolment of which nothing is sent or recorded: it may be taken out,
\* fail, begin, or be taken back from nobody.
StepStays(e) == current'[e] = current[e] /\ sent'[e] = sent[e] /\ unrecorded'[e] = unrecorded[e]
RowMoves(e) ==
    \/ row'[e] \in {row[e], "unsubscribed", "failed"}
    \/ /\ row[e] \in {"absent", "sending"} /\ row'[e] = "active"
       /\ e \in robbed' \/ \A b \in Beats : ~Holds(b, e)

LEMMA QuietEnrolment ==
    ASSUME NEW e \in Enrolments, EnrolmentOK(e), StepStays(e), RowMoves(e),
           e \in overtaken => e \in overtaken', e \in robbed => e \in robbed',
           \A b \in Beats : Holds(b, e)' <=> Holds(b, e),
           \A b \in Beats : Holds(b, e) => beat'[b] = beat[b] /\ due'[b] = due[b] /\ read'[b] = read[b]
    PROVE  EnrolmentOK(e)'
<1> SUFFICES ASSUME e \notin robbed' PROVE EnrolmentOK(e)'
  BY DEF EnrolmentOK, Clean
<1>1. InOrder(e) => InOrder(e)'
  BY DEF InOrder, StepStays, RowMoves
<1>2. \A b \in Beats : Holds(b, e) /\ KnowsStep(b, e) => KnowsStep(b, e)'
  BY DEF KnowsStep, StepStays
<1>3. /\ Settled(e) => Settled(e)'
      /\ Over(e) => Over(e)'
      /\ \A b \in Beats : Recording(b, e) => Recording(b, e)'
  BY DEF Settled, Over, Recording, StepStays, RowMoves
<1>4. Clean(e)' => Clean(e)
  BY DEF Clean
<1>5. \A b \in Beats : Holds(b, e)' => row'[e] \in {"sending", "unsubscribed", "failed"}
  BY DEF EnrolmentOK, RowMoves
<1> QED BY <1>1, <1>2, <1>3, <1>4, <1>5 DEF EnrolmentOK

\* A step of one beat.
ByBeat(b) ==
    /\ \A c \in Beats \ {b} : beat'[c] = beat[c] /\ due'[c] = due[c] /\ read'[c] = read[c]
    /\ overtaken \subseteq overtaken' /\ robbed \subseteq robbed'

LEMMA OthersHold ==
    ASSUME NEW b \in Beats, ByBeat(b)
    PROVE  \A c \in Beats \ {b}, e \in Enrolments : Holds(c, e)' <=> Holds(c, e)
BY SameHold DEF ByBeat

\* It leaves the enrolments alone that it does not hold,
LEMMA OthersOK ==
    ASSUME EInv, NEW b \in Beats, ByBeat(b), NEW e \in Enrolments, StepStays(e), RowMoves(e),
           ~Holds(b, e), ~Holds(b, e)'
    PROVE  EnrolmentOK(e)'
<1>1. \A c \in Beats : Holds(c, e)' <=> Holds(c, e)
  BY OthersHold
<1>2. \A c \in Beats : Holds(c, e) => beat'[c] = beat[c] /\ due'[c] = due[c] /\ read'[c] = read[c]
  BY DEF ByBeat
<1>3. EnrolmentOK(e)
  BY DEF EInv
<1> QED BY <1>1, <1>2, <1>3, QuietEnrolment DEF ByBeat

\* the one it goes on holding must be known to it,
LEMMA KeptOK ==
    ASSUME EInv, NEW b \in Beats, ByBeat(b), NEW e \in Enrolments, Holds(b, e), Holds(b, e)',
           row'[e] = row[e],
           Clean(e) => InOrder(e)' /\ KnowsStep(b, e)' /\ (Settled(e)' \/ beat'[b] # "claimed")
    PROVE  EnrolmentOK(e)'
<1>1. EnrolmentOK(e)
  BY DEF EInv
<1>2. \A c \in Beats : Holds(c, e)' <=> Holds(c, e)
  BY OthersHold
<1>3. (e \in robbed => e \in robbed') /\ (Clean(e)' => Clean(e))
  BY DEF ByBeat, Clean
<1>4. e \notin robbed => \A c \in Beats : Holds(c, e) => c = b
  BY <1>1 DEF EnrolmentOK
<1>5. Clean(e) => e \notin robbed
  BY DEF Clean
<1> QED BY <1>1, <1>2, <1>3, <1>4, <1>5 DEF EnrolmentOK, Recording

\* and the one it lets go must be in order.
LEMMA LeftOK ==
    ASSUME EInv, NEW b \in Beats, ByBeat(b), NEW e \in Enrolments, Holds(b, e), ~Holds(b, e)',
           Clean(e) => InOrder(e)' /\ (Settled(e)' \/ row'[e] \in {"completed", "unsubscribed", "failed"})
    PROVE  EnrolmentOK(e)'
<1>1. EnrolmentOK(e)
  BY DEF EInv
<1>2. e \notin robbed => \A c \in Beats : ~Holds(c, e)'
  BY <1>1, OthersHold DEF EnrolmentOK
<1>3. (e \in robbed => e \in robbed') /\ (Clean(e)' => Clean(e)) /\ (Clean(e) => e \notin robbed)
  BY DEF ByBeat, Clean
<1> QED BY <1>2, <1>3 DEF EnrolmentOK, Over

LEMMA HasItemKept ==
    ASSUME EInv, NEW b \in Beats, ByBeat(b),
           beat'[b] \notin Holding \/ (due'[b] = due[b] /\ Ahead(b) # {})
    PROVE  HasItem'
<1>1. ASSUME NEW c \in Beats, beat'[c] \in Holding PROVE Ahead(c)' # {}
  <2>1. due'[c] = due[c] /\ Ahead(c) # {}
    BY <1>1 DEF EInv, HasItem, ByBeat
  <2> QED BY <2>1 DEF Ahead
<1> QED BY <1>1 DEF HasItem

\* A beat that is not at a step, before or after.
LEMMA IdleStep ==
    ASSUME EInv, NEW b \in Beats, ByBeat(b), DripTypeOK',
           beat[b] \notin Holding, beat'[b] \notin Holding,
           \A e \in Enrolments : StepStays(e) /\ RowMoves(e)
    PROVE  EInv'
<1>1. \A e \in Enrolments : ~Holds(b, e) /\ ~Holds(b, e)'
  BY DEF Holds
<1> QED BY <1>1, OthersOK, HasItemKept DEF EInv

\* A beat that is at a step, and keeps or drops it.
LEMMA AtStep ==
    ASSUME EInv, NEW b \in Beats, ByBeat(b), DripTypeOK', beat[b] \in Holding,
           (beat'[b] \in Holding /\ due'[b] = due[b]) \/ beat'[b] \notin Holding,
           NEW x \in Enrolments, x = AtHand(b),
           \A e \in Enrolments \ {x} : StepStays(e) /\ row'[e] = row[e],
           EnrolmentOK(x)'
    PROVE  EInv'
<1>1. ASSUME NEW e \in Enrolments \ {x} PROVE EnrolmentOK(e)'
  <2>1. ~Holds(b, e)
    BY <1>1 DEF Holds
  <2>2. ~Holds(b, e)'
    BY <2>1, SameHold DEF Holds
  <2> QED BY <1>1, <2>1, <2>2, OthersOK DEF RowMoves
<1>2. HasItem'
  BY HasItemKept DEF EInv, HasItem
<1> QED BY <1>1, <1>2 DEF EInv

\* The beat lets go of what it has at hand.
LEMMA NextItemLeaves ==
    ASSUME DripTypeOK, NEW b \in Beats, NextItem(b)
    PROVE  /\ \A c \in Beats \ {b} : beat'[c] = beat[c] /\ due'[c] = due[c] /\ read'[c] = read[c]
           /\ beat'[b] = "draining"
           /\ beat' \in [Beats -> {"idle", "recovering", "recovered", "draining"} \cup Holding]
           /\ due' \in [Beats -> [Enrolments -> Steps \cup {NoStep}]]
           /\ read' \in [Beats -> EnrolmentStates \X Steps]
<1>1. 0 \in Steps
  BY LastStepAssumption DEF Steps
<1> QED BY <1>1 DEF DripTypeOK, NextItem, Enter, NothingRead, EnrolmentStates

-----------------------------------------------------------------------------
(* The steps.                                                              *)

LEMMA SubscribeEInv == ASSUME EInv, NEW e \in Enrolments, Subscribe(e) PROVE EInv'
<1>1. DripTypeOK'
  BY DEF EInv, Subscribe, SetRow, DripTypeOK, EnrolmentStates, dripBeats, dripHistory
<1>2. \A f \in Enrolments : \A b \in Beats : Holds(b, f)' <=> Holds(b, f)
  BY SameHold DEF Subscribe, dripBeats
<1>3. ASSUME NEW f \in Enrolments PROVE EnrolmentOK(f)'
  <2>1. EnrolmentOK(f) /\ StepStays(f)
    BY DEF EInv, Subscribe, dripHistory, StepStays
  <2>2. RowMoves(f)
    BY <2>1 DEF EInv, DripTypeOK, Subscribe, SetRow, RowMoves, EnrolmentOK, dripHistory
  <2> QED BY <1>2, <2>1, <2>2, QuietEnrolment DEF Subscribe, dripBeats, dripHistory
<1>4. HasItem'
  BY DEF EInv, HasItem, Ahead, Subscribe, dripBeats
<1> QED BY <1>1, <1>3, <1>4 DEF EInv

LEMMA UnsubscribeEInv == ASSUME EInv, NEW e \in Enrolments, Unsubscribe(e) PROVE EInv'
<1>1. DripTypeOK'
  BY DEF EInv, Unsubscribe, SetRow, DripTypeOK, EnrolmentStates, dripBeats, dripHistory
<1>2. \A f \in Enrolments : \A b \in Beats : Holds(b, f)' <=> Holds(b, f)
  BY SameHold DEF Unsubscribe, dripBeats
<1>3. ASSUME NEW f \in Enrolments PROVE EnrolmentOK(f)'
  <2>1. EnrolmentOK(f) /\ StepStays(f)
    BY DEF EInv, Unsubscribe, dripHistory, StepStays
  <2>2. RowMoves(f)
    BY DEF EInv, DripTypeOK, Unsubscribe, SetRow, RowMoves
  <2> QED BY <1>2, <2>1, <2>2, QuietEnrolment DEF Unsubscribe, dripBeats, dripHistory
<1>4. HasItem'
  BY DEF EInv, HasItem, Ahead, Unsubscribe, dripBeats
<1> QED BY <1>1, <1>3, <1>4 DEF EInv

\* A marker ages, or nothing happens.
LEMMA AgesEInv ==
    ASSUME EInv, UNCHANGED <<row, current, dripBeats, dripHistory>>,
           claim' \in [Enrolments -> {"none", "fresh", "stale"}], mishaps' \in 0 .. MaxMishaps
    PROVE  EInv'
<1>1. DripTypeOK'
  BY DEF EInv, DripTypeOK, dripBeats, dripHistory
<1>2. \A f \in Enrolments : \A b \in Beats : Holds(b, f)' <=> Holds(b, f)
  BY SameHold DEF dripBeats
<1>3. ASSUME NEW f \in Enrolments PROVE EnrolmentOK(f)'
  BY <1>2, QuietEnrolment DEF EInv, dripBeats, dripHistory, StepStays, RowMoves
<1>4. HasItem'
  BY DEF EInv, HasItem, Ahead, dripBeats
<1> QED BY <1>1, <1>3, <1>4 DEF EInv

LEMMA FindStaleEInv == ASSUME EInv, NEW b \in Beats, FindStale(b) PROVE EInv'
<1>1. DripTypeOK'
  BY DEF EInv, FindStale, Enter, DripTypeOK, dripRows, dripHistory
<1>2. ByBeat(b)
  BY DEF EInv, FindStale, Enter, DripTypeOK, dripHistory, ByBeat
<1>3. \A e \in Enrolments : StepStays(e) /\ RowMoves(e)
  BY DEF FindStale, dripRows, dripHistory, StepStays, RowMoves
<1>4. beat[b] \notin Holding /\ beat'[b] \notin Holding
  BY DEF EInv, DripTypeOK, FindStale, Enter, Holding
<1> QED BY <1>1, <1>2, <1>3, <1>4, IdleStep

LEMMA RecoverClaimsEInv == ASSUME EInv, NEW b \in Beats, RecoverClaims(b) PROVE EInv'
<1>1. mishaps' \in 0 .. MaxMishaps
  BY MaxMishapsAssumption DEF EInv, DripTypeOK, RecoverClaims
<1>2. row' \in [Enrolments -> EnrolmentStates] /\ robbed \subseteq robbed' /\ robbed' \subseteq Enrolments
  <2>1. row \in [Enrolments -> EnrolmentStates] /\ robbed \subseteq Enrolments /\ "active" \in EnrolmentStates
    BY DEF EInv, DripTypeOK, EnrolmentStates
  <2>2. PICK took \in SUBSET Enrolments :
          /\ row' = [e \in Enrolments |-> IF e \in took THEN "active" ELSE row[e]] \/ row' = row
          /\ robbed' \in {robbed, robbed \cup {e \in took : \E c \in Beats : Holds(c, e)}}
    <3> DEFINE took == {e \in Ahead(b) : row[e] = "sending"}
    <3>1. took \subseteq Enrolments
      BY DEF Ahead
    <3>2. CASE row' = row /\ robbed' = robbed
      BY <3>1, <3>2
    <3>3. CASE ~(row' = row /\ robbed' = robbed)
      <4>1. /\ row' = [e \in Enrolments |-> IF e \in Ahead(b) /\ row[e] = "sending" THEN "active" ELSE row[e]]
            /\ robbed' = robbed \cup {e \in Ahead(b) : row[e] = "sending" /\ \E c \in Beats : Holds(c, e)}
        BY <3>3, Zenon DEF RecoverClaims
      <4>2. /\ row' = [e \in Enrolments |-> IF e \in took THEN "active" ELSE row[e]]
            /\ robbed' = robbed \cup {e \in took : \E c \in Beats : Holds(c, e)}
        BY <4>1
      <4> QED BY <3>1, <4>2
    <3> QED BY <3>2, <3>3
  <2>3. robbed \subseteq robbed' /\ robbed' \subseteq Enrolments
    BY <2>1, <2>2
  <2> QED BY <2>1, <2>2, <2>3
<1>3. DripTypeOK'
  BY <1>1, <1>2 DEF EInv, RecoverClaims, Enter, DripTypeOK
<1>4. ByBeat(b)
  BY <1>2 DEF EInv, RecoverClaims, Enter, DripTypeOK, ByBeat
<1>5. \A e \in Enrolments : StepStays(e) /\ RowMoves(e)
  BY DEF EInv, DripTypeOK, RecoverClaims, StepStays, RowMoves
<1>6. beat[b] \notin Holding /\ beat'[b] \notin Holding
  BY DEF EInv, DripTypeOK, RecoverClaims, Enter, Holding
<1> QED BY <1>3, <1>4, <1>5, <1>6, IdleStep

LEMMA ScanDueEInv ==
    ASSUME EInv, NEW b \in Beats, NEW found \in SUBSET Enrolments, ScanDue(b, found) PROVE EInv'
<1>1. DripTypeOK'
  BY DEF EInv, ScanDue, Enter, DripTypeOK, dripRows, dripHistory
<1>2. ByBeat(b)
  BY DEF EInv, ScanDue, Enter, DripTypeOK, dripHistory, ByBeat
<1>3. \A e \in Enrolments : StepStays(e) /\ RowMoves(e)
  BY DEF ScanDue, dripRows, dripHistory, StepStays, RowMoves
<1>4. beat[b] \notin Holding /\ beat'[b] \notin Holding
  BY DEF EInv, DripTypeOK, ScanDue, Enter, Holding
<1> QED BY <1>1, <1>2, <1>3, <1>4, IdleStep

LEMMA EndBeatEInv == ASSUME EInv, NEW b \in Beats, EndBeat(b) PROVE EInv'
<1>1. DripTypeOK'
  BY DEF EInv, EndBeat, Enter, DripTypeOK, dripRows, dripHistory
<1>2. ByBeat(b)
  BY DEF EInv, EndBeat, Enter, DripTypeOK, dripHistory, ByBeat
<1>3. \A e \in Enrolments : StepStays(e) /\ RowMoves(e)
  BY DEF EndBeat, dripRows, dripHistory, StepStays, RowMoves
<1>4. beat[b] \notin Holding /\ beat'[b] \notin Holding
  BY DEF EInv, DripTypeOK, EndBeat, Enter, Holding
<1> QED BY <1>1, <1>2, <1>3, <1>4, IdleStep

LEMMA ClaimLostEInv == ASSUME EInv, NEW b \in Beats, ClaimLost(b) PROVE EInv'
<1>1. DripTypeOK' /\ ByBeat(b) /\ beat'[b] = "draining"
  BY NextItemLeaves DEF EInv, ClaimLost, DripTypeOK, dripRows, dripHistory, ByBeat
<1>2. \A e \in Enrolments : StepStays(e) /\ RowMoves(e)
  BY DEF ClaimLost, dripRows, dripHistory, StepStays, RowMoves
<1>3. beat[b] \notin Holding /\ beat'[b] \notin Holding
  BY <1>1 DEF ClaimLost, Holding
<1> QED BY <1>1, <1>2, <1>3, IdleStep


\* Claiming: nobody holds an active enrolment that was never robbed.
LEMMA ClaimStepEInv == ASSUME EInv, NEW b \in Beats, ClaimStep(b) PROVE EInv'
<1>1. PICK e \in Enrolments :
        /\ e = AtHand(b) /\ due[b][e] # NoStep /\ row[e] = "active"
        /\ row' = [row EXCEPT ![e] = "sending"]
        /\ claim' = [claim EXCEPT ![e] = "fresh"]
        /\ overtaken' = IF due[b][e] = current[e] THEN overtaken ELSE overtaken \cup {e}
  BY AtHandIsAhead DEF ClaimStep, SetRow, ClaimMatches
<1>2. /\ beat[b] = "draining" /\ beat' = [beat EXCEPT ![b] = "claimed"] /\ Ahead(b) # {}
      /\ UNCHANGED <<current, due, read, sent, unrecorded, robbed, mishaps>>
  BY DEF ClaimStep, Enter
<1>3. DripTypeOK'
  BY <1>1, <1>2 DEF EInv, DripTypeOK, EnrolmentStates, Holding
<1>4. ByBeat(b) /\ beat'[b] = "claimed"
  BY <1>1, <1>2 DEF EInv, DripTypeOK, ByBeat
<1>5. HasItem'
  BY <1>2, <1>4, HasItemKept
<1>6. Ahead(b)' = Ahead(b) /\ AtHand(b)' = AtHand(b)
  <2>1. Ahead(b)' = Ahead(b)
    BY <1>2 DEF Ahead
  <2> QED BY <2>1 DEF AtHand
<1>7. ASSUME NEW f \in Enrolments \ {e} PROVE EnrolmentOK(f)'
  <2>1. ~Holds(b, f) /\ ~Holds(b, f)'
    BY <1>1, <1>6 DEF Holds
  <2>2. StepStays(f) /\ RowMoves(f)
    BY <1>1, <1>2 DEF EInv, DripTypeOK, StepStays, RowMoves
  <2> QED BY <1>4, <2>1, <2>2, OthersOK
<1>8. EnrolmentOK(e)'
  <2>1. SUFFICES ASSUME e \notin robbed PROVE EnrolmentOK(e)'
    BY <1>2 DEF EnrolmentOK, Clean
  <2>2. EnrolmentOK(e) /\ row'[e] = "sending"
    BY <1>1 DEF EInv, DripTypeOK
  <2>3. \A c \in Beats : ~Holds(c, e)
    BY <1>1, <2>1, <2>2 DEF EnrolmentOK
  <2>4. \A c \in Beats : Holds(c, e)' => c = b
    BY <1>4, <2>3, OthersHold
  <2>5. ASSUME Clean(e)' PROVE InOrder(e)' /\ KnowsStep(b, e)' /\ Settled(e)'
    <3>1. Clean(e) /\ due[b][e] = current[e]
      BY <1>1, <1>2, <2>5 DEF Clean
    <3>2. InOrder(e) /\ Settled(e)
      BY <1>1, <2>2, <2>3, <3>1 DEF EnrolmentOK, Over, Recording
    <3> QED BY <1>2, <1>4, <2>2, <3>1, <3>2 DEF InOrder, KnowsStep, Settled
  <2> QED BY <2>1, <2>2, <2>4, <2>5 DEF EnrolmentOK
<1> QED BY <1>3, <1>5, <1>7, <1>8 DEF EInv

\* What the holder of an enrolment knows.
LEMMA HolderKnows ==
    ASSUME EInv, NEW b \in Beats, NEW e \in Enrolments, Holds(b, e), Clean(e)
    PROVE  /\ InOrder(e) /\ KnowsStep(b, e)
           /\ beat[b] = "claimed" => Settled(e)
           /\ row[e] \in {"sending", "unsubscribed", "failed"}
<1>1. EnrolmentOK(e) /\ e \notin robbed
  BY DEF EInv, Clean
<1>2. beat[b] = "claimed" => ~ \E c \in Beats : Recording(c, e)
  BY <1>1 DEF EnrolmentOK, Recording
<1> QED BY <1>1, <1>2 DEF EnrolmentOK, Over

LEMMA ReleaseEInv == ASSUME EInv, NEW b \in Beats, Release(b) PROVE EInv'
<1>1. PICK e \in Enrolments : e = AtHand(b) /\ Holds(b, e)
  BY HolderAtHand DEF Release, Holding
<1>2. /\ row' = IF row[e] = "sending" THEN [row EXCEPT ![e] = "active"] ELSE row
      /\ claim' \in [Enrolments -> {"none", "fresh", "stale"}]
      /\ NextItem(b) /\ beat[b] = "claimed" /\ UNCHANGED <<current, dripHistory, mishaps>>
  BY <1>1 DEF EInv, DripTypeOK, Release, SetRow, DropMarker
<1>3. row' \in [Enrolments -> EnrolmentStates]
  BY <1>2 DEF EInv, DripTypeOK, EnrolmentStates
<1>4. DripTypeOK' /\ ByBeat(b) /\ beat'[b] = "draining"
  BY <1>2, <1>3, NextItemLeaves DEF EInv, DripTypeOK, dripHistory, ByBeat
<1>5. ~Holds(b, e)' /\ beat'[b] \notin Holding /\ beat[b] \in Holding
  BY <1>2, <1>4 DEF Holds, Holding
<1>6. ASSUME Clean(e) PROVE InOrder(e)' /\ Settled(e)'
  <2>1. InOrder(e) /\ Settled(e) /\ row'[e] # "completed"
    BY <1>1, <1>2, <1>6, HolderKnows DEF EInv, DripTypeOK
  <2> QED BY <1>2, <2>1 DEF InOrder, Settled, dripHistory
<1>7. EnrolmentOK(e)'
  BY <1>1, <1>4, <1>5, <1>6, LeftOK
<1>8. \A f \in Enrolments \ {e} : StepStays(f) /\ row'[f] = row[f]
  BY <1>2 DEF EInv, DripTypeOK, StepStays, dripHistory
<1> QED BY <1>1, <1>4, <1>5, <1>7, <1>8, AtStep

LEMMA SendStepEInv == ASSUME EInv, NEW b \in Beats, SendStep(b) PROVE EInv'
<1>1. PICK e \in Enrolments : e = AtHand(b) /\ Holds(b, e) /\ due[b][e] \in Steps
  BY HolderAtHand DEF SendStep, Holding
<1>2. PICK outcome \in {"sent", "refused"}, lost \in 0 .. MaxMishaps - mishaps :
        /\ sent' = [sent EXCEPT ![e][due[b][e]] = @ + lost + (IF outcome = "sent" THEN 1 ELSE 0)]
        /\ unrecorded' = [unrecorded EXCEPT ![e] = @ + lost]
        /\ mishaps' = mishaps + lost
        /\ beat' = [beat EXCEPT ![b] = outcome]
  BY <1>1 DEF SendStep, Enter
<1>3. beat[b] = "claimed" /\ UNCHANGED <<dripRows, due, read, overtaken, robbed>>
  BY DEF SendStep
<1>4. lost \in Nat /\ mishaps \in Nat /\ mishaps' \in 0 .. MaxMishaps
  BY <1>2, MaxMishapsAssumption DEF EInv, DripTypeOK
<1>5. /\ sent \in [Enrolments -> [Steps -> Nat]] /\ unrecorded \in [Enrolments -> Nat]
      /\ sent' \in [Enrolments -> [Steps -> Nat]] /\ unrecorded' \in [Enrolments -> Nat]
  BY <1>1, <1>2, <1>4 DEF EInv, DripTypeOK
<1>6. DripTypeOK'
  BY <1>2, <1>3, <1>4, <1>5 DEF EInv, DripTypeOK, Holding, dripRows
<1>7. ByBeat(b) /\ beat'[b] = outcome
  BY <1>2, <1>3 DEF EInv, DripTypeOK, ByBeat
<1>8. beat[b] \in Holding /\ beat'[b] \in Holding
  BY <1>3, <1>7 DEF Holding
<1>9. Holds(b, e)'
  BY <1>1, <1>3, <1>8, SameHold
<1>10. ASSUME Clean(e) PROVE InOrder(e)' /\ KnowsStep(b, e)'
  <2>1. InOrder(e) /\ KnowsStep(b, e) /\ Settled(e) /\ row[e] # "completed"
    BY <1>1, <1>3, <1>10, HolderKnows
  <2>2. /\ due[b][e] = current[e] /\ current[e] \in Steps /\ row'[e] # "completed" /\ current'[e] = current[e]
    BY <1>3, <2>1 DEF KnowsStep, EInv, DripTypeOK, dripRows
  <2>3. /\ \A k \in Steps : k # current[e] => sent'[e][k] = sent[e][k]
        /\ sent'[e][current[e]] = sent[e][current[e]] + lost + (IF outcome = "sent" THEN 1 ELSE 0)
        /\ unrecorded'[e] = unrecorded[e] + lost
    BY <1>1, <1>2, <1>5, <2>2
  <2>4. \A k \in Steps : sent[e][k] \in Nat /\ unrecorded[e] \in Nat /\ k \in Int
    BY <1>5, LastStepAssumption DEF Steps
  <2>5. InOrder(e)'
    BY <1>4, <2>1, <2>2, <2>3, <2>4 DEF InOrder, Settled
  <2>6. KnowsStep(b, e)'
    BY <1>3, <1>4, <1>7, <2>1, <2>2, <2>3, <2>4 DEF KnowsStep
  <2> QED BY <2>5, <2>6
<1>11. EnrolmentOK(e)'
  BY <1>1, <1>3, <1>7, <1>9, <1>10, KeptOK DEF dripRows
<1>12. \A f \in Enrolments \ {e} : StepStays(f) /\ row'[f] = row[f]
  BY <1>2, <1>3, <1>5 DEF StepStays, dripRows
<1> QED BY <1>1, <1>3, <1>6, <1>7, <1>8, <1>11, <1>12, AtStep

LEMMA LoadRowEInv == ASSUME EInv, NEW b \in Beats, LoadRow(b) PROVE EInv'
<1>1. PICK e \in Enrolments : e = AtHand(b) /\ Holds(b, e)
  BY HolderAtHand DEF LoadRow, Holding
<1>2. /\ read' = [read EXCEPT ![b] = <<row[e], current[e]>>]
      /\ beat' = [beat EXCEPT ![b] = "advanced"] /\ beat[b] = "sent"
      /\ UNCHANGED <<dripRows, due, dripHistory, mishaps>>
  BY <1>1 DEF LoadRow, Enter
<1>3. DripTypeOK'
  BY <1>2 DEF EInv, DripTypeOK, Holding, dripRows, dripHistory
<1>4. ByBeat(b) /\ beat'[b] = "advanced" /\ read'[b][2] = current[e] /\ read'[b][1] = row[e]
  BY <1>2 DEF EInv, DripTypeOK, ByBeat, dripHistory
<1>5. beat[b] \in Holding /\ beat'[b] \in Holding
  BY <1>2, <1>4 DEF Holding
<1>6. Holds(b, e)'
  BY <1>1, <1>2, <1>5, SameHold
<1>7. ASSUME Clean(e) PROVE InOrder(e)' /\ KnowsStep(b, e)'
  <2>1. InOrder(e) /\ KnowsStep(b, e) /\ row[e] # "completed"
    BY <1>1, <1>7, HolderKnows
  <2> QED BY <1>2, <1>4, <2>1 DEF InOrder, KnowsStep, dripRows, dripHistory
<1>8. EnrolmentOK(e)'
  BY <1>1, <1>2, <1>4, <1>6, <1>7, KeptOK DEF dripRows
<1>9. \A f \in Enrolments \ {e} : StepStays(f) /\ row'[f] = row[f]
  BY <1>2 DEF StepStays, dripRows, dripHistory
<1> QED BY <1>1, <1>2, <1>3, <1>4, <1>5, <1>8, <1>9, AtStep

\* The commit of advance(): the current step has been sent, and the next has not.
LEMMA CommitStepEInv == ASSUME EInv, NEW b \in Beats, CommitStep(b) PROVE EInv'
<1>1. PICK e \in Enrolments : e = AtHand(b) /\ Holds(b, e)
  BY HolderAtHand DEF CommitStep, Holding
<1>2. /\ read[b][2] < LastStep =>
            /\ current' = [current EXCEPT ![e] = read[b][2] + 1]
            /\ row' = IF read[b][1] = "sending" THEN [row EXCEPT ![e] = "active"] ELSE row
      /\ ~(read[b][2] < LastStep) =>
            /\ row' = IF read[b][1] # "completed" THEN [row EXCEPT ![e] = "completed"] ELSE row
            /\ current' = current
      /\ claim' = [claim EXCEPT ![e] = "none"]
      /\ NextItem(b) /\ beat[b] = "advanced" /\ UNCHANGED <<dripHistory, mishaps>>
  BY <1>1 DEF CommitStep, DropMarker
<1>3. read[b][2] \in 0 .. LastStep /\ LastStep \in Nat
  BY LastStepAssumption DEF EInv, DripTypeOK, Steps
<1>4. /\ row' \in [Enrolments -> EnrolmentStates] /\ current' \in [Enrolments -> Steps]
      /\ claim' \in [Enrolments -> {"none", "fresh", "stale"}]
      /\ \A f \in Enrolments \ {e} : row'[f] = row[f] /\ current'[f] = current[f]
  <2>1. /\ row \in [Enrolments -> EnrolmentStates] /\ current \in [Enrolments -> Steps]
        /\ claim \in [Enrolments -> {"none", "fresh", "stale"}]
        /\ "active" \in EnrolmentStates /\ "completed" \in EnrolmentStates
        /\ read[b][2] < LastStep => read[b][2] + 1 \in Steps
    BY <1>3 DEF EInv, DripTypeOK, EnrolmentStates, Steps
  <2>2. CASE read[b][2] < LastStep
    BY <1>2, <2>1, <2>2
  <2>3. CASE ~(read[b][2] < LastStep)
    BY <1>2, <2>1, <2>3
  <2> QED BY <2>2, <2>3
<1>5. DripTypeOK' /\ ByBeat(b) /\ beat'[b] = "draining"
  BY <1>2, <1>4, NextItemLeaves DEF EInv, DripTypeOK, dripHistory, ByBeat
<1>6. ~Holds(b, e)' /\ beat'[b] \notin Holding /\ beat[b] \in Holding
  BY <1>2, <1>5 DEF Holds, Holding
<1>7. ASSUME Clean(e) PROVE InOrder(e)' /\ (Settled(e)' \/ row'[e] = "completed")
  <2>1. /\ InOrder(e) /\ read[b][2] = current[e] /\ sent[e][current[e]] > 0
        /\ row[e] # "completed" /\ read[b][1] # "completed" /\ current[e] \in Steps
    BY <1>1, <1>2, <1>7, HolderKnows DEF KnowsStep, EInv, DripTypeOK
  <2>2. /\ sent' = sent /\ unrecorded' = unrecorded /\ unrecorded[e] \in Nat
        /\ \A k \in Steps : sent[e][k] \in Nat /\ k \in 0 .. LastStep
    <3>1. sent \in [Enrolments -> [Steps -> Nat]] /\ unrecorded \in [Enrolments -> Nat]
      BY DEF EInv, DripTypeOK
    <3> QED BY <1>2, <3>1 DEF dripHistory, Steps
  <2>3. CASE current[e] < LastStep
    <3>1. current'[e] = current[e] + 1 /\ row'[e] # "completed" /\ current'[e] \in Steps
      BY <1>2, <1>3, <2>1, <2>3 DEF EInv, DripTypeOK, Steps
    <3>2. \A k \in Steps : (k < current[e] + 1 => k < current[e] \/ k = current[e])
                             /\ (k > current[e] + 1 => k > current[e])
      BY <1>3, <2>1, <2>2
    <3>3. current[e] + 1 > current[e]
      BY <1>3, <2>1
    <3>4. InOrder(e)'
      BY <2>1, <2>2, <3>1, <3>2 DEF InOrder
    <3>5. sent[e][current[e] + 1] = 0
      BY <2>1, <3>1, <3>3 DEF InOrder
    <3> QED BY <2>2, <3>1, <3>4, <3>5 DEF Settled
  <2>4. CASE ~(current[e] < LastStep)
    <3>1. current'[e] = current[e] /\ current[e] = LastStep
      BY <1>2, <1>3, <2>1, <2>4
    <3>2. \A k \in Steps : k < current[e] \/ k = current[e]
      BY <1>3, <2>2, <3>1
    <3>3. \A k \in Steps : sent[e][k] > 0
      BY <2>1, <3>2 DEF InOrder
    <3>4. InOrder(e)'
      BY <2>1, <2>2, <3>1, <3>3 DEF InOrder
    <3>5. row'[e] = "completed"
      BY <1>2, <1>3, <2>1, <3>1 DEF EInv, DripTypeOK
    <3> QED BY <3>4, <3>5
  <2> QED BY <2>3, <2>4
<1>8. EnrolmentOK(e)'
  BY <1>1, <1>5, <1>6, <1>7, LeftOK
<1>9. \A f \in Enrolments \ {e} : StepStays(f) /\ row'[f] = row[f]
  BY <1>2, <1>4 DEF StepStays, dripHistory
<1> QED BY <1>1, <1>5, <1>6, <1>8, <1>9, AtStep

LEMMA CommitFailureEInv == ASSUME EInv, NEW b \in Beats, CommitFailure(b) PROVE EInv'
<1>1. PICK e \in Enrolments : e = AtHand(b) /\ Holds(b, e)
  BY HolderAtHand DEF CommitFailure, Holding
<1>2. /\ row' = [row EXCEPT ![e] = "failed"] /\ claim' = [claim EXCEPT ![e] = "none"]
      /\ NextItem(b) /\ beat[b] = "refused" /\ UNCHANGED <<current, dripHistory, mishaps>>
  BY <1>1 DEF CommitFailure, SetRow, DropMarker
<1>3. /\ row' \in [Enrolments -> EnrolmentStates]
      /\ claim' \in [Enrolments -> {"none", "fresh", "stale"}]
  BY <1>2 DEF EInv, DripTypeOK, EnrolmentStates
<1>4. DripTypeOK' /\ ByBeat(b) /\ beat'[b] = "draining"
  BY <1>2, <1>3, NextItemLeaves DEF EInv, DripTypeOK, dripHistory, ByBeat
<1>5. ~Holds(b, e)' /\ beat'[b] \notin Holding /\ beat[b] \in Holding
  BY <1>2, <1>4 DEF Holds, Holding
<1>6. ASSUME Clean(e) PROVE InOrder(e)' /\ row'[e] = "failed"
  <2>1. InOrder(e) /\ row'[e] = "failed"
    BY <1>1, <1>2, <1>6, HolderKnows DEF EInv, DripTypeOK
  <2> QED BY <1>2, <2>1 DEF InOrder, dripHistory
<1>7. EnrolmentOK(e)'
  BY <1>1, <1>4, <1>5, <1>6, LeftOK
<1>8. \A f \in Enrolments \ {e} : StepStays(f) /\ row'[f] = row[f]
  BY <1>2 DEF EInv, DripTypeOK, StepStays, dripHistory
<1> QED BY <1>1, <1>4, <1>5, <1>7, <1>8, AtStep

\* A send that is not recorded is accounted for as such.
LEMMA ForgottenSettles ==
    ASSUME EInv, NEW b \in Beats, NEW e \in Enrolments, e = AtHand(b), Holds(b, e), Clean(e),
           Forget(b), sent' = sent, current' = current, row'[e] \in {row[e], "failed"}
    PROVE  InOrder(e)' /\ Settled(e)'
<1>1. InOrder(e) /\ KnowsStep(b, e) /\ (beat[b] = "claimed" => Settled(e)) /\ row[e] # "completed"
  BY HolderKnows
<1>2. beat[b] \in Holding /\ current[e] \in Steps /\ unrecorded[e] \in Nat
      /\ \A k \in Steps : sent[e][k] \in Nat
  BY DEF Holds, EInv, DripTypeOK
<1>3. CASE beat[b] = "claimed"
  <2>1. unrecorded' = unrecorded
    BY <1>3 DEF Forget
  <2> QED BY <1>1, <1>3, <2>1 DEF InOrder, Settled
<1>4. CASE beat[b] # "claimed"
  <2>1. unrecorded'[e] = unrecorded[e] + 1
    BY <1>2, <1>4 DEF Forget, Holding, EInv, DripTypeOK
  <2> QED BY <1>1, <1>2, <2>1 DEF InOrder, Settled
<1> QED BY <1>3, <1>4

LEMMA ForgetType ==
    ASSUME EInv, NEW b \in Beats, Forget(b), beat[b] \in Holding => AtHand(b) \in Enrolments
    PROVE  /\ unrecorded' \in [Enrolments -> Nat]
           /\ \A f \in Enrolments : f # AtHand(b) \/ beat[b] \notin Holding => unrecorded'[f] = unrecorded[f]
BY DEF EInv, DripTypeOK, Forget, Holding

LEMMA ItemRaisesEInv == ASSUME EInv, NEW b \in Beats, ItemRaises(b) PROVE EInv'
<1>1. PICK e \in Enrolments : e = AtHand(b)
  BY AtHandIsAhead DEF ItemRaises
<1>2. /\ row' = [row EXCEPT ![e] = "failed"] \/ row' = row
      /\ claim' = [claim EXCEPT ![e] = "none"] \/ claim' = claim
      /\ mishaps' = mishaps \/ (mishaps < MaxMishaps /\ mishaps' = mishaps + 1)
      /\ NextItem(b) /\ beat[b] \in Holding \cup {"draining"} /\ Forget(b)
      /\ UNCHANGED <<current, sent, overtaken, robbed>>
  BY <1>1, Zenon DEF ItemRaises, SetRow, DropMarker
<1>3. /\ row' \in [Enrolments -> EnrolmentStates]
      /\ row'[e] \in {row[e], "failed"}
      /\ \A f \in Enrolments \ {e} : row'[f] = row[f]
      /\ claim' \in [Enrolments -> {"none", "fresh", "stale"}]
      /\ mishaps' \in 0 .. MaxMishaps
  <2>1. /\ row \in [Enrolments -> EnrolmentStates] /\ "failed" \in EnrolmentStates
        /\ claim \in [Enrolments -> {"none", "fresh", "stale"}] /\ mishaps \in 0 .. MaxMishaps
    BY DEF EInv, DripTypeOK, EnrolmentStates
  <2>2. /\ row' \in [Enrolments -> EnrolmentStates] /\ row'[e] \in {row[e], "failed"}
        /\ \A f \in Enrolments \ {e} : row'[f] = row[f]
    BY <1>2, <2>1
  <2>3. mishaps' \in 0 .. MaxMishaps
    BY <1>2, <2>1, MaxMishapsAssumption
  <2> QED BY <1>2, <2>1, <2>2, <2>3
<1>4. /\ unrecorded' \in [Enrolments -> Nat]
      /\ \A f \in Enrolments : f # e \/ beat[b] \notin Holding => unrecorded'[f] = unrecorded[f]
  BY <1>1, <1>2, ForgetType
<1>5. DripTypeOK' /\ ByBeat(b) /\ beat'[b] = "draining"
  BY <1>2, <1>3, <1>4, NextItemLeaves DEF EInv, DripTypeOK, ByBeat
<1>6. beat'[b] \notin Holding /\ ~Holds(b, e)'
  BY <1>5 DEF Holding, Holds
<1>7. CASE beat[b] \in Holding
  <2>1. Holds(b, e)
    BY <1>1, <1>7 DEF Holds
  <2>2. Clean(e) => InOrder(e)' /\ Settled(e)'
    BY <1>1, <1>2, <1>3, <2>1, ForgottenSettles
  <2>3. EnrolmentOK(e)'
    BY <1>5, <1>6, <2>1, <2>2, LeftOK
  <2>4. \A f \in Enrolments \ {e} : StepStays(f) /\ row'[f] = row[f]
    BY <1>2, <1>3, <1>4 DEF StepStays
  <2> QED BY <1>1, <1>5, <1>6, <1>7, <2>3, <2>4, AtStep
<1>8. CASE beat[b] \notin Holding
  <2>1. \A f \in Enrolments : StepStays(f) /\ RowMoves(f)
    BY <1>2, <1>3, <1>4, <1>8 DEF StepStays, RowMoves
  <2> QED BY <1>5, <1>6, <1>8, <2>1, IdleStep
<1> QED BY <1>7, <1>8

LEMMA DieEInv == ASSUME EInv, NEW b \in Beats, Die(b) PROVE EInv'
<1>1. /\ beat' = [beat EXCEPT ![b] = "idle"]
      /\ due' = [due EXCEPT ![b] = [e \in Enrolments |-> NoStep]]
      /\ read' = [read EXCEPT ![b] = NothingRead]
      /\ mishaps' \in 0 .. MaxMishaps /\ Forget(b)
      /\ UNCHANGED <<dripRows, sent, overtaken, robbed>>
  BY MaxMishapsAssumption DEF EInv, DripTypeOK, Die, Enter
<1>2. beat[b] \in Holding => AtHand(b) \in Enrolments
  BY HolderAtHand
<1>3. /\ unrecorded' \in [Enrolments -> Nat]
      /\ \A f \in Enrolments : f # AtHand(b) \/ beat[b] \notin Holding => unrecorded'[f] = unrecorded[f]
  BY <1>1, <1>2, ForgetType
<1>4. NothingRead \in EnrolmentStates \X Steps
  BY LastStepAssumption DEF NothingRead, EnrolmentStates, Steps
<1>5. DripTypeOK' /\ ByBeat(b) /\ beat'[b] = "idle"
  BY <1>1, <1>3, <1>4 DEF EInv, DripTypeOK, dripRows, ByBeat
<1>6. beat'[b] \notin Holding /\ \A e \in Enrolments : ~Holds(b, e)'
  BY <1>5 DEF Holding, Holds
<1>7. CASE beat[b] \in Holding
  <2>1. PICK e \in Enrolments : e = AtHand(b) /\ Holds(b, e)
    BY <1>7, HolderAtHand
  <2>2. Clean(e) => InOrder(e)' /\ Settled(e)'
    BY <1>1, <2>1, ForgottenSettles DEF dripRows
  <2>3. EnrolmentOK(e)'
    BY <1>5, <1>6, <2>1, <2>2, LeftOK
  <2>4. \A f \in Enrolments \ {e} : StepStays(f) /\ row'[f] = row[f]
    BY <1>1, <1>3, <2>1 DEF StepStays, dripRows
  <2> QED BY <1>5, <1>6, <1>7, <2>1, <2>3, <2>4, AtStep
<1>8. CASE beat[b] \notin Holding
  <2>1. \A f \in Enrolments : StepStays(f) /\ RowMoves(f)
    BY <1>1, <1>3, <1>8 DEF StepStays, RowMoves, dripRows
  <2> QED BY <1>5, <1>6, <1>8, <2>1, IdleStep
<1> QED BY <1>7, <1>8

LEMMA DripNextEInv == EInv /\ [DripNext]_dripVars => EInv'
<1> SUFFICES ASSUME EInv, [DripNext]_dripVars PROVE EInv'
  OBVIOUS
<1>1. ASSUME NEW e \in Enrolments, Subscribe(e) \/ Unsubscribe(e) PROVE EInv'
  BY <1>1, SubscribeEInv, UnsubscribeEInv
<1>2. ASSUME NEW e \in Enrolments, ClaimAges(e) \/ ClaimAgesFrozen(e) PROVE EInv'
  <2>1. /\ UNCHANGED <<row, current, dripBeats, dripHistory>>
        /\ claim' \in [Enrolments -> {"none", "fresh", "stale"}] /\ mishaps' \in 0 .. MaxMishaps
    BY <1>2, MaxMishapsAssumption DEF EInv, DripTypeOK, ClaimAges, ClaimAgesFrozen
  <2> QED BY <2>1, AgesEInv
<1>3. ASSUME NEW b \in Beats, Drain(b) PROVE EInv'
  BY <1>3, RecoverClaimsEInv, ScanDueEInv, EndBeatEInv, ClaimStepEInv, ClaimLostEInv, ReleaseEInv,
     SendStepEInv, LoadRowEInv, CommitStepEInv, CommitFailureEInv DEF Drain
<1>4. ASSUME NEW b \in Beats, FindStale(b) \/ ItemRaises(b) \/ Die(b) PROVE EInv'
  BY <1>4, FindStaleEInv, ItemRaisesEInv, DieEInv
<1>5. CASE UNCHANGED dripVars
  <2>1. claim' \in [Enrolments -> {"none", "fresh", "stale"}] /\ mishaps' \in 0 .. MaxMishaps
    BY <1>5 DEF EInv, DripTypeOK, dripVars, dripRows
  <2> QED BY <1>5, <2>1, AgesEInv DEF dripVars, dripRows
<1> QED BY <1>1, <1>2, <1>3, <1>4, <1>5 DEF DripNext

(* What a step may do to an enrolment that nobody was robbed of.            *)

AdvancesOrStays(e) ==
    /\ e \notin overtaken' /\ current'[e] # current[e] =>
        current'[e] = current[e] + 1 /\ sent[e][current[e]] > 0
    /\ row[e] = "completed" =>
        row'[e] \in {"completed", "unsubscribed", "failed"} /\ sent'[e] = sent[e]

\* A step that neither sends nor moves on, and revives no completed enrolment.
LEMMA RowOnlyAdvances ==
    ASSUME NEW e \in Enrolments, current' = current, sent' = sent,
           row'[e] \in {row[e], "unsubscribed", "failed"} \/ row[e] # "completed"
    PROVE  AdvancesOrStays(e)
BY DEF AdvancesOrStays

\* Nobody holds a completed enrolment.
LEMMA CompletedIsFree ==
    ASSUME EInv, NEW e \in Enrolments, e \notin robbed, row[e] = "completed"
    PROVE  \A b \in Beats : ~Holds(b, e)
BY DEF EInv, EnrolmentOK

LEMMA SendStepAdvances ==
    ASSUME EInv, NEW b \in Beats, SendStep(b), NEW e \in Enrolments, e \notin robbed'
    PROVE  AdvancesOrStays(e)
<1>1. PICK f \in Enrolments : f = AtHand(b) /\ Holds(b, f)
  BY HolderAtHand DEF SendStep, Holding
<1>2. /\ UNCHANGED <<dripRows, overtaken, robbed>>
      /\ \E n \in Nat : sent' = [sent EXCEPT ![f][due[b][f]] = n]
  <2>1. PICK outcome \in {"sent", "refused"}, lost \in 0 .. MaxMishaps - mishaps :
            sent' = [sent EXCEPT ![f][due[b][f]] = @ + lost + (IF outcome = "sent" THEN 1 ELSE 0)]
    BY <1>1 DEF SendStep
  <2>2. due[b][f] \in Steps
    BY <1>1, HolderAtHand DEF SendStep, Holding
  <2>3. sent[f][due[b][f]] \in Nat /\ lost \in Nat
    BY <2>2, MaxMishapsAssumption DEF EInv, DripTypeOK
  <2>4. PICK k \in {0, 1} : k = IF outcome = "sent" THEN 1 ELSE 0
    OBVIOUS
  <2>5. sent[f][due[b][f]] + lost + k \in Nat
    BY <2>3, <2>4
  <2>6. sent' = [sent EXCEPT ![f][due[b][f]] = sent[f][due[b][f]] + lost + k]
    BY <2>1, <2>4
  <2>7. UNCHANGED <<dripRows, overtaken, robbed>>
    BY DEF SendStep
  <2> QED BY <2>5, <2>6, <2>7
<1>3. CASE e = f
  BY <1>1, <1>2, <1>3, CompletedIsFree DEF AdvancesOrStays, dripRows
<1>4. CASE e # f
  <2>1. sent'[e] = sent[e]
    BY <1>2, <1>4 DEF EInv, DripTypeOK
  <2> QED BY <1>2, <2>1 DEF AdvancesOrStays, dripRows
<1> QED BY <1>3, <1>4

LEMMA CommitStepAdvances ==
    ASSUME EInv, NEW b \in Beats, CommitStep(b), NEW e \in Enrolments, e \notin robbed'
    PROVE  AdvancesOrStays(e)
<1>1. PICK f \in Enrolments : f = AtHand(b) /\ Holds(b, f)
  BY HolderAtHand DEF CommitStep, Holding
<1>2. /\ current' = current \/ current' = [current EXCEPT ![f] = read[b][2] + 1]
      /\ \E st : row' = row \/ row' = [row EXCEPT ![f] = st]
      /\ beat[b] = "advanced" /\ UNCHANGED dripHistory
  BY <1>1 DEF CommitStep
<1>3. CASE e = f
  <2>1. row[e] # "completed"
    BY <1>1, <1>2, <1>3, CompletedIsFree DEF dripHistory
  <2>2. ASSUME e \notin overtaken', current'[e] # current[e]
        PROVE  current'[e] = current[e] + 1 /\ sent[e][current[e]] > 0
    <3>1. KnowsStep(b, e)
      BY <1>1, <1>2, <1>3, <2>2, HolderKnows DEF Clean, dripHistory
    <3> QED BY <1>2, <1>3, <2>2, <3>1 DEF KnowsStep, EInv, DripTypeOK
  <2> QED BY <2>1, <2>2 DEF AdvancesOrStays
<1>4. CASE e # f
  BY <1>2, <1>4 DEF AdvancesOrStays, dripHistory, EInv, DripTypeOK
<1> QED BY <1>3, <1>4

LEMMA DripNextAdvances ==
    ASSUME EInv, [DripNext]_dripVars, NEW e \in Enrolments, e \notin robbed'
    PROVE  AdvancesOrStays(e)
<1>1. ASSUME NEW f \in Enrolments,
             Subscribe(f) \/ Unsubscribe(f) \/ ClaimAges(f) \/ ClaimAgesFrozen(f)
      PROVE  AdvancesOrStays(e)
  <2>1. current' = current /\ sent' = sent
    BY <1>1 DEF Subscribe, Unsubscribe, ClaimAges, ClaimAgesFrozen, dripHistory
  <2>2. row'[e] \in {row[e], "unsubscribed"} \/ row[e] # "completed"
    BY <1>1 DEF Subscribe, Unsubscribe, ClaimAges, ClaimAgesFrozen, SetRow, EInv, DripTypeOK
  <2> QED BY <2>1, <2>2, RowOnlyAdvances
<1>2. ASSUME NEW b \in Beats,
             \/ FindStale(b) \/ RecoverClaims(b) \/ EndBeat(b) \/ ClaimLost(b) \/ LoadRow(b)
             \/ \E found \in SUBSET Enrolments : ScanDue(b, found)
      PROVE  AdvancesOrStays(e)
  <2>1. current' = current /\ sent' = sent
    BY <1>2 DEF FindStale, RecoverClaims, EndBeat, ClaimLost, LoadRow, ScanDue, dripRows, dripHistory
  <2>2. row'[e] = row[e] \/ row[e] # "completed"
    BY <1>2 DEF FindStale, RecoverClaims, EndBeat, ClaimLost, LoadRow, ScanDue, dripRows
  <2> QED BY <2>1, <2>2, RowOnlyAdvances
<1>3. ASSUME NEW b \in Beats, ClaimStep(b) \/ Release(b) \/ CommitFailure(b)
      PROVE  AdvancesOrStays(e)
  <2>1. current' = current /\ sent' = sent
    BY <1>3 DEF ClaimStep, Release, CommitFailure, dripHistory
  <2>2. row'[e] \in {row[e], "failed"} \/ row[e] # "completed"
    BY <1>3 DEF ClaimStep, ClaimMatches, Release, CommitFailure, SetRow, EInv, DripTypeOK
  <2> QED BY <2>1, <2>2, RowOnlyAdvances
<1>4. ASSUME NEW b \in Beats, ItemRaises(b) \/ Die(b) PROVE AdvancesOrStays(e)
  <2>1. current' = current /\ sent' = sent
    BY <1>4 DEF ItemRaises, Die, dripRows
  <2>2. row'[e] \in {row[e], "failed"}
    BY <1>4 DEF ItemRaises, Die, dripRows, SetRow, EInv, DripTypeOK
  <2> QED BY <2>1, <2>2, RowOnlyAdvances
<1>5. CASE UNCHANGED dripVars
  BY <1>5, RowOnlyAdvances DEF dripVars, dripRows, dripHistory
<1> QED BY <1>1, <1>2, <1>3, <1>4, <1>5, SendStepAdvances, CommitStepAdvances DEF DripNext, Drain

(* Every enrolment gets its steps in order, each once but for the sends that *)
(* could not be recorded, from one beat at a time: for every number of       *)
(* enrolments, steps and overlapping beats (process_due_sequence_steps).     *)
THEOREM StepsArriveInOrder == DripSpec => []DripInv
<1>1. EInv /\ [DripNext]_dripVars => EInv'
  BY DripNextEInv
<1> QED BY DripInitEInv, <1>1, EInvImplies, PTL DEF DripSpec

(* An enrolment goes through its steps one by one, past none that was not    *)
(* sent, and nothing is sent to it once it has completed: for every number   *)
(* of enrolments, steps and overlapping beats (advance).                     *)
THEOREM StepsFollowOneAnother == DripSpec => EnrolmentsAdvance
<1>1. EInv /\ [DripNext]_dripVars => EInv'
  BY DripNextEInv
<1>2. EInv /\ [DripNext]_dripVars =>
        [\A e \in Enrolments \ robbed' :
            /\ e \notin overtaken' /\ current'[e] # current[e] =>
                current'[e] = current[e] + 1 /\ sent[e][current[e]] > 0
            /\ row[e] = "completed" =>
                row'[e] \in {"completed", "unsubscribed", "failed"} /\ sent'[e] = sent[e]]_dripVars
  BY DripNextAdvances DEF AdvancesOrStays
<1> QED BY DripInitEInv, <1>1, <1>2, PTL DEF DripSpec, EnrolmentsAdvance

-----------------------------------------------------------------------------
(* Scheduled posts.  That a post is on the page once is not inductive: a   *)
(* publication that is still open counts, and so does a post that may be   *)
(* claimed.                                                                *)

\* The publishers that may still put a post on the page, or give it up.
Open(p) == {w \in Publishers : HoldsPost(w, p) /\ pub[w] # "accepted"}
Opens(p) == Cardinality(Open(p))

\* A publication more that may come: of a post that can be claimed, or that
\* is claimed by nobody any more.
Slot(p) ==
    IF \/ post[p] \in {"absent", "draft", "scheduled", "failed"}
       \/ post[p] = "publishing" /\ ~Held(p)
    THEN 1 ELSE 0

PostOK(p) ==
    /\ IsFiniteSet(Open(p))
    /\ onPage[p] + Opens(p) + Slot(p) <= 1 + excused[p]
    /\ p \notin relapsed => (post[p] = "publishing" => mark[p] # "none")
    /\ p \notin misread => (post[p] = "published" => onPage[p] > 0)
    /\ direct[p] = "accepted" => onPage[p] > 0
    /\ \A w \in Publishers :
        /\ held[w][p] = "published" => p \in misread \/ onPage[p] > 0
        /\ HoldsPost(w, p) /\ pub[w] = "accepted" => onPage[p] > 0

\* A publisher that is at a post has it on its list.
AtHandIsListed == \A w \in Publishers : pub[w] \in AtWork => list[w] # {}

PInv == PostsTypeOK /\ AtHandIsListed /\ \A p \in ScheduledPost : PostOK(p)

LEMMA CountsAreNat ==
    ASSUME NEW p \in ScheduledPost, PostsTypeOK, IsFiniteSet(Open(p))
    PROVE  /\ onPage[p] \in Nat /\ excused[p] \in Nat /\ Opens(p) \in Nat /\ Slot(p) \in {0, 1}
<1>1. Opens(p) \in Nat
  BY FS_CardinalityType DEF Opens
<1>2. Slot(p) \in {0, 1}
  BY DEF Slot
<1> QED BY <1>1, <1>2 DEF PostsTypeOK

LEMMA PInvImplies == PInv => PostsInv
<1> SUFFICES ASSUME PInv PROVE PostsInv
  OBVIOUS
<1>1. \A p \in ScheduledPost : onPage[p] <= 1 + excused[p]
  BY CountsAreNat DEF PInv, PostOK
<1> QED BY <1>1 DEF PInv, PostsInv, PostOK, OnPageOnce, ClaimsAreMarked, PublishedIsOnPage

LEMMA PostAtHandIsListed ==
    ASSUME PostsTypeOK, NEW w \in Publishers, list[w] # {}
    PROVE  \E x \in ScheduledPost : x = PostAtHand(w) /\ x \in list[w]
<1>1. PostAtHand(w) \in list[w]
  BY DEF PostAtHand
<1> QED BY <1>1 DEF PostsTypeOK

LEMMA PostsInitPInv == PostsInit => PInv
<1> SUFFICES ASSUME PostsInit PROVE PInv
  OBVIOUS
<1>1. PostsTypeOK
  BY MaxTroublesAssumption DEF PostsInit, PostsTypeOK, Nothing, PostStates, Answers
<1>2. \A w \in Publishers : pub[w] \notin AtWork
  BY DEF PostsInit, AtWork, Answers
<1>3. \A p \in ScheduledPost : Open(p) = {} /\ \A w \in Publishers : ~HoldsPost(w, p)
  BY <1>2 DEF Open, HoldsPost
<1>4. \A p \in ScheduledPost : Opens(p) = 0 /\ IsFiniteSet(Open(p)) /\ Slot(p) = 1
  BY <1>3, FS_EmptySet DEF Opens, Slot, PostsInit, Nothing
<1> QED BY <1>1, <1>2, <1>3, <1>4 DEF PInv, AtHandIsListed, PostOK, PostsInit, Nothing

-----------------------------------------------------------------------------
(* What keeps a post in order.                                             *)

\* What is shown of a post stays true.
RowTrue(p) ==
    /\ p \notin relapsed' => (post'[p] = "publishing" => mark'[p] # "none")
    /\ p \notin misread' => (post'[p] = "published" => onPage'[p] > 0)

\* No new grounds to take it for published.
GroundsStay(p) ==
    /\ onPage[p] <= onPage'[p] /\ (p \in misread => p \in misread')
    /\ direct'[p] = "accepted" => direct[p] = "accepted" \/ onPage'[p] > 0
    /\ \A w \in Publishers :
        /\ held'[w][p] = "published" => held[w][p] = "published" \/ post[p] = "published"
        /\ HoldsPost(w, p)' /\ pub'[w] = "accepted" =>
                (HoldsPost(w, p) /\ pub[w] = "accepted") \/ onPage'[p] > 0

LEMMA PostKept ==
    ASSUME PInv, NEW p \in ScheduledPost, PostsTypeOK', RowTrue(p), GroundsStay(p), IsFiniteSet(Open(p)'),
           onPage'[p] + Opens(p)' + Slot(p)' + excused[p] <= onPage[p] + Opens(p) + Slot(p) + excused'[p]
    PROVE  PostOK(p)'
<1>1. /\ onPage[p] \in Nat /\ excused[p] \in Nat /\ Opens(p) \in Nat /\ Slot(p) \in {0, 1}
      /\ PostOK(p)
  BY CountsAreNat DEF PInv, PostOK
<1>2. onPage'[p] \in Nat /\ excused'[p] \in Nat /\ Opens(p)' \in Nat /\ Slot(p)' \in {0, 1}
  <2>1. onPage'[p] \in Nat /\ excused'[p] \in Nat
    BY DEF PostsTypeOK
  <2>2. Opens(p)' \in Nat
    BY FS_CardinalityType DEF Opens
  <2>3. Slot(p)' \in {0, 1}
    BY DEF Slot
  <2> QED BY <2>1, <2>2, <2>3
<1>3. onPage'[p] + Opens(p)' + Slot(p)' <= 1 + excused'[p]
  BY <1>1, <1>2 DEF PostOK
<1>4. onPage[p] > 0 => onPage'[p] > 0
  BY <1>1, <1>2 DEF GroundsStay
<1>5. direct'[p] = "accepted" => onPage'[p] > 0
  BY <1>1, <1>4 DEF PostOK, GroundsStay
<1>6. ASSUME NEW w \in Publishers
      PROVE  /\ held'[w][p] = "published" => p \in misread' \/ onPage'[p] > 0
             /\ HoldsPost(w, p)' /\ pub'[w] = "accepted" => onPage'[p] > 0
  BY <1>1, <1>4 DEF PostOK, GroundsStay
<1> QED BY <1>3, <1>5, <1>6 DEF PostOK, RowTrue

\* A step of one publisher.
ByPublisher(w) ==
    /\ \A v \in Publishers \ {w} : pub'[v] = pub[v] /\ list'[v] = list[v] /\ held'[v] = held[v]
    /\ relapsed \subseteq relapsed' /\ misread \subseteq misread'

LEMMA SamePost ==
    ASSUME NEW v, list'[v] = list[v], pub'[v] \in AtWork <=> pub[v] \in AtWork
    PROVE  \A p : HoldsPost(v, p)' <=> HoldsPost(v, p)
BY DEF HoldsPost, PostAtHand

LEMMA OtherPublishers ==
    ASSUME NEW w \in Publishers, ByPublisher(w)
    PROVE  \A v \in Publishers \ {w}, p \in ScheduledPost : HoldsPost(v, p)' <=> HoldsPost(v, p)
BY SamePost DEF ByPublisher

\* The posts that are none of its business: nothing of them changes.
PostStays(p) ==
    /\ post'[p] = post[p] /\ mark'[p] = mark[p] /\ direct'[p] = direct[p]
    /\ onPage'[p] = onPage[p] /\ excused'[p] = excused[p]

LEMMA OtherPosts ==
    ASSUME PInv, NEW w \in Publishers, ByPublisher(w), PostsTypeOK', NEW p \in ScheduledPost,
           PostStays(p), ~HoldsPost(w, p), ~HoldsPost(w, p)',
           held'[w][p] \in {held[w][p], "absent", post[p]}
    PROVE  PostOK(p)'
<1>1. \A v \in Publishers : HoldsPost(v, p)' <=> HoldsPost(v, p)
  BY OtherPublishers
<1>2. \A v \in Publishers : HoldsPost(v, p) => pub'[v] = pub[v]
  BY DEF ByPublisher
<1>3. Open(p)' = Open(p) /\ Held(p)' = Held(p)
  BY <1>1, <1>2 DEF Open, Held
<1>4. Opens(p)' = Opens(p) /\ Slot(p)' = Slot(p)
  BY <1>3 DEF Opens, Slot, PostStays
<1>5. IsFiniteSet(Open(p)') /\ PostOK(p)
  BY <1>3 DEF PInv, PostOK
<1>6. RowTrue(p)
  BY <1>5 DEF RowTrue, PostOK, PostStays, ByPublisher
<1>7. GroundsStay(p)
  <2>1. onPage[p] <= onPage'[p]
    BY DEF PostStays, PInv, PostsTypeOK
  <2>2. \A v \in Publishers : held'[v][p] \in {held[v][p], "absent", post[p]}
    BY DEF ByPublisher
  <2> QED BY <1>1, <1>2, <2>1, <2>2 DEF GroundsStay, PostStays, ByPublisher
<1>8. onPage'[p] + Opens(p)' + Slot(p)' + excused[p] <= onPage[p] + Opens(p) + Slot(p) + excused'[p]
  <2>1. onPage[p] \in Nat /\ excused[p] \in Nat /\ Opens(p) \in Nat /\ Slot(p) \in {0, 1}
    BY <1>5, CountsAreNat DEF PInv, PostOK
  <2> QED BY <1>4, <2>1 DEF PostStays
<1> QED BY <1>5, <1>6, <1>7, <1>8, PostKept

\* A publisher that has no post at hand, before or after.
LEMMA RestingStep ==
    ASSUME PInv, NEW w \in Publishers, ByPublisher(w), PostsTypeOK',
           pub[w] \notin AtWork, pub'[w] \notin AtWork,
           \A p \in ScheduledPost : PostStays(p) /\ held'[w][p] \in {held[w][p], "absent", post[p]}
    PROVE  PInv'
<1>1. \A p \in ScheduledPost : ~HoldsPost(w, p) /\ ~HoldsPost(w, p)'
  BY DEF HoldsPost
<1>2. AtHandIsListed'
  BY DEF PInv, AtHandIsListed, ByPublisher
<1> QED BY <1>1, <1>2, OtherPosts DEF PInv

\* A publisher that works on one post.
LEMMA WorkingStep ==
    ASSUME PInv, NEW w \in Publishers, ByPublisher(w), PostsTypeOK', NEW x \in ScheduledPost,
           x = PostAtHand(w), pub'[w] \notin AtWork \/ (list'[w] = list[w] /\ list[w] # {}),
           \A p \in ScheduledPost \ {x} : PostStays(p) /\ held'[w][p] \in {held[w][p], "absent", post[p]},
           PostOK(x)'
    PROVE  PInv'
<1>1. ASSUME NEW p \in ScheduledPost \ {x} PROVE PostOK(p)'
  <2>1. ~HoldsPost(w, p)
    BY DEF HoldsPost
  <2>2. ~HoldsPost(w, p)'
    BY DEF HoldsPost, PostAtHand
  <2> QED BY <2>1, <2>2, OtherPosts
<1>2. AtHandIsListed'
  BY DEF PInv, AtHandIsListed, ByPublisher
<1> QED BY <1>1, <1>2 DEF PInv

\* A publisher that lets go of a post: what it might have done counts no
\* more, what it has done it has recorded, or is excused from.
LEMMA LeavesPost ==
    ASSUME PInv, NEW w \in Publishers, ByPublisher(w), PostsTypeOK', NEW x \in ScheduledPost,
           HoldsPost(w, x), ~HoldsPost(w, x)', RowTrue(x),
           onPage' = onPage, direct' = direct,
           \A v \in Publishers : held'[v][x] \in {held[v][x], "absent"},
           \/ pub[w] # "accepted" /\ excused'[x] = excused[x]
           \/ excused'[x] = excused[x] + 1
           \/ excused'[x] = excused[x] /\ Slot(x)' <= Slot(x)
    PROVE  PostOK(x)'
<1>1. /\ onPage[x] \in Nat /\ excused[x] \in Nat /\ Opens(x) \in Nat /\ Slot(x) \in {0, 1}
      /\ Slot(x)' \in {0, 1} /\ PostOK(x)
  BY CountsAreNat DEF PInv, PostOK, Slot
<1>2. Open(x)' = Open(x) \ {w}
  BY OtherPublishers DEF Open, ByPublisher
<1>3. /\ IsFiniteSet(Open(x)')
      /\ Opens(x)' = IF w \in Open(x) THEN Opens(x) - 1 ELSE Opens(x)
  <2>1. IsFiniteSet(Open(x))
    BY <1>1 DEF PostOK
  <2>2. /\ IsFiniteSet(Open(x) \ {w})
        /\ Cardinality(Open(x) \ {w}) = IF w \in Open(x) THEN Cardinality(Open(x)) - 1 ELSE Cardinality(Open(x))
    BY <2>1, FS_RemoveElement
  <2>3. Opens(x)' = Cardinality(Open(x) \ {w})
    BY <1>2 DEF Opens
  <2> QED BY <1>2, <2>2, <2>3 DEF Opens
<1>4. pub[w] # "accepted" => w \in Open(x)
  BY DEF Open
<1>5. onPage'[x] + Opens(x)' + Slot(x)' + excused[x] <= onPage[x] + Opens(x) + Slot(x) + excused'[x]
  BY <1>1, <1>3, <1>4
<1>6. GroundsStay(x)
  <2>1. \A v \in Publishers : HoldsPost(v, x)' => HoldsPost(v, x) /\ pub'[v] = pub[v]
    BY OtherPublishers DEF ByPublisher
  <2> QED BY <1>1, <2>1 DEF GroundsStay, ByPublisher
<1> QED BY <1>3, <1>5, <1>6, PostKept

\* A step of the editor or of the posts page: the publishers stay.
LEMMA EditorStep ==
    ASSUME PInv, UNCHANGED <<pub, list, held>>, PostsTypeOK', NEW x \in ScheduledPost,
           relapsed \subseteq relapsed', misread \subseteq misread',
           \A p \in ScheduledPost \ {x} : PostStays(p),
           RowTrue(x), direct'[x] = "accepted" => direct[x] = "accepted" \/ onPage'[x] > 0,
           onPage[x] <= onPage'[x],
           onPage'[x] + Slot(x)' + excused[x] <= onPage[x] + Slot(x) + excused'[x]
    PROVE  PInv'
<1>1. \A p \in ScheduledPost, v \in Publishers : HoldsPost(v, p)' <=> HoldsPost(v, p)
  BY SamePost
<1>2. \A p \in ScheduledPost : Open(p)' = Open(p) /\ Held(p)' = Held(p)
  BY <1>1 DEF Open, Held
<1>3. AtHandIsListed'
  BY DEF PInv, AtHandIsListed
<1>4. ASSUME NEW p \in ScheduledPost PROVE PostOK(p)'
  <2>1. PostOK(p) /\ IsFiniteSet(Open(p)') /\ Opens(p)' = Opens(p)
    BY <1>2 DEF PInv, PostOK, Opens
  <2>2. /\ onPage[p] \in Nat /\ excused[p] \in Nat /\ Opens(p) \in Nat /\ Slot(p) \in {0, 1}
        /\ Slot(p)' \in {0, 1} /\ onPage'[p] \in Nat /\ excused'[p] \in Nat
    BY <2>1, CountsAreNat DEF PInv, PostOK, PostsTypeOK, Slot
  <2>3. CASE p = x
    <3>1. GroundsStay(p)
      BY <1>1, <2>3 DEF GroundsStay
    <3>2. onPage'[p] + Opens(p)' + Slot(p)' + excused[p] <= onPage[p] + Opens(p) + Slot(p) + excused'[p]
      BY <2>1, <2>2, <2>3
    <3> QED BY <2>1, <2>3, <3>1, <3>2, PostKept
  <2>4. CASE p # x
    <3>1. PostStays(p) /\ Slot(p)' = Slot(p)
      BY <1>2, <2>4 DEF Slot, PostStays
    <3>2. GroundsStay(p)
      BY <1>1, <2>2, <3>1 DEF GroundsStay, PostStays
    <3>3. RowTrue(p)
      BY <2>1, <3>1 DEF RowTrue, PostOK, PostStays
    <3>4. onPage'[p] + Opens(p)' + Slot(p)' + excused[p] <= onPage[p] + Opens(p) + Slot(p) + excused'[p]
      BY <2>1, <2>2, <3>1 DEF PostStays
    <3> QED BY <2>1, <3>2, <3>3, <3>4, PostKept
  <2> QED BY <2>3, <2>4
<1> QED BY <1>3, <1>4 DEF PInv


-----------------------------------------------------------------------------
(* The steps of the editor and of the posts page.                          *)

LEMMA SchedulePInv == ASSUME PInv, NEW p \in ScheduledPost, Schedule(p) PROVE PInv'
<1>1. PICK st \in {"draft", "scheduled"} : post[p] = "absent" /\ post' = [post EXCEPT ![p] = st]
  BY DEF Schedule, SetPost
<1>2. UNCHANGED <<mark, attempts, pub, list, held, direct, seen, onPage, excused, misread, relapsed, troubles>>
  BY DEF Schedule, postWork, postDirect, postHistory
<1>3. PostsTypeOK'
  BY <1>1, <1>2 DEF PInv, PostsTypeOK, PostStates
<1>4. post'[p] = st /\ \A q \in ScheduledPost \ {p} : PostStays(q)
  BY <1>1, <1>2 DEF PInv, PostsTypeOK, PostStays
<1>5. RowTrue(p) /\ Slot(p) = 1 /\ Slot(p)' = 1
  BY <1>1, <1>4 DEF RowTrue, Slot
<1>6. onPage[p] \in Nat /\ excused[p] \in Nat
  BY DEF PInv, PostsTypeOK
<1> QED BY <1>2, <1>3, <1>4, <1>5, <1>6, EditorStep

LEMMA EditStatusPInv ==
    ASSUME PInv, NEW p \in ScheduledPost, NEW st \in {"draft", "scheduled"}, EditStatus(p, st) PROVE PInv'
<1>1. /\ post' = [post EXCEPT ![p] = st] /\ attempts' = [attempts EXCEPT ![p] = 0]
      /\ excused' = [excused EXCEPT ![p] = @ + 1]
      /\ troubles < MaxTroubles /\ troubles' = troubles + 1
      /\ UNCHANGED <<mark, pub, list, held, direct, seen, onPage, misread, relapsed>>
  BY DEF EditStatus, SetPost, Excuse, Trouble, postDirect
<1>2. troubles' \in 0 .. MaxTroubles
  BY <1>1, MaxTroublesAssumption DEF PInv, PostsTypeOK
<1>3. PostsTypeOK'
  BY <1>1, <1>2 DEF PInv, PostsTypeOK, PostStates
<1>4. post'[p] = st /\ excused'[p] = excused[p] + 1 /\ \A q \in ScheduledPost \ {p} : PostStays(q)
  BY <1>1 DEF PInv, PostsTypeOK, PostStays
<1>5. RowTrue(p) /\ Slot(p) \in {0, 1} /\ Slot(p)' = 1
  BY <1>4 DEF RowTrue, Slot
<1>6. onPage[p] \in Nat /\ excused[p] \in Nat
  BY DEF PInv, PostsTypeOK
<1> QED BY <1>1, <1>3, <1>4, <1>5, <1>6, EditorStep

LEMMA DeletePostPInv == ASSUME PInv, NEW p \in ScheduledPost, DeletePost(p) PROVE PInv'
<1>1. /\ post' = [post EXCEPT ![p] = "deleted"]
      /\ mark' = [mark EXCEPT ![p] = "none"] \/ mark' = mark
      /\ attempts' = [attempts EXCEPT ![p] = 0] \/ attempts' = attempts
      /\ UNCHANGED <<pub, list, held, direct, seen, onPage, excused, misread, relapsed, troubles>>
  BY DEF DeletePost, SetPost, ClearMark, postDirect, postHistory
<1>2. PostsTypeOK'
  BY <1>1 DEF PInv, PostsTypeOK, PostStates
<1>3. post'[p] = "deleted" /\ \A q \in ScheduledPost \ {p} : PostStays(q)
  BY <1>1 DEF PInv, PostsTypeOK, PostStays
<1>4. RowTrue(p) /\ Slot(p) \in {0, 1} /\ Slot(p)' = 0
  BY <1>3 DEF RowTrue, Slot
<1>5. onPage[p] \in Nat /\ excused[p] \in Nat
  BY DEF PInv, PostsTypeOK
<1> QED BY <1>1, <1>2, <1>3, <1>4, <1>5, EditorStep

\* A marker ages: one that was there is there.
LEMMA MarkAgesPInv ==
    ASSUME PInv, NEW p \in ScheduledPost, MarkAges(p) \/ MarkAgesUnderSlow(p) PROVE PInv'
<1>1. /\ mark' = [mark EXCEPT ![p] = "stale"]
      /\ troubles' = troubles \/ (troubles < MaxTroubles /\ troubles' = troubles + 1)
      /\ UNCHANGED <<post, attempts, pub, list, held, direct, seen, onPage, excused, misread, relapsed>>
  BY DEF MarkAges, MarkAgesUnderSlow, Trouble, postWork, postDirect, postHistory
<1>2. troubles' \in 0 .. MaxTroubles
  BY <1>1, MaxTroublesAssumption DEF PInv, PostsTypeOK
<1>3. PostsTypeOK'
  BY <1>1, <1>2 DEF PInv, PostsTypeOK
<1>4. mark'[p] = "stale" /\ \A q \in ScheduledPost \ {p} : PostStays(q)
  BY <1>1 DEF PInv, PostsTypeOK, PostStays
<1>5. \A v \in Publishers : HoldsPost(v, p)' <=> HoldsPost(v, p)
  BY <1>1, SamePost
<1>6. Slot(p)' = Slot(p) /\ Slot(p) \in {0, 1}
  BY <1>1, <1>5 DEF Slot, Held
<1>7. RowTrue(p)
  BY <1>1, <1>4 DEF RowTrue, PInv, PostOK
<1>8. onPage[p] \in Nat /\ excused[p] \in Nat
  BY DEF PInv, PostsTypeOK
<1> QED BY <1>1, <1>3, <1>4, <1>6, <1>7, <1>8, EditorStep

LEMMA CallDirectlyPInv ==
    ASSUME PInv, NEW p \in ScheduledPost, NEW answer \in Answers, CallDirectly(p, answer) PROVE PInv'
<1>1. PICK lost \in 0 .. MaxTroubles - troubles - 1 :
        /\ onPage' = [onPage EXCEPT ![p] = @ + lost + (IF answer = "accepted" THEN 1 ELSE 0)]
        /\ excused' = [excused EXCEPT ![p] = @ + lost + 1]
        /\ troubles' = troubles + lost + 1
  BY DEF CallDirectly, Called
<1>2. /\ direct' = [direct EXCEPT ![p] = answer] /\ seen' = [seen EXCEPT ![p] = post[p]]
      /\ UNCHANGED <<postRows, attempts, pub, list, held, misread, relapsed>>
  BY DEF CallDirectly
<1>3. /\ lost \in Nat /\ troubles' \in 0 .. MaxTroubles
      /\ onPage \in [ScheduledPost -> Nat] /\ excused \in [ScheduledPost -> Nat]
  BY <1>1, MaxTroublesAssumption DEF PInv, PostsTypeOK
<1>4. /\ onPage'[p] = onPage[p] + lost + (IF answer = "accepted" THEN 1 ELSE 0)
      /\ excused'[p] = excused[p] + lost + 1 /\ onPage[p] \in Nat /\ excused[p] \in Nat
      /\ \A q \in ScheduledPost \ {p} : onPage'[q] = onPage[q] /\ excused'[q] = excused[q]
      /\ onPage' \in [ScheduledPost -> Nat] /\ excused' \in [ScheduledPost -> Nat]
  BY <1>1, <1>3
<1>5. PostsTypeOK'
  BY <1>2, <1>3, <1>4 DEF PInv, PostsTypeOK, postRows
<1>6. direct'[p] = answer /\ \A q \in ScheduledPost \ {p} : PostStays(q)
  BY <1>2, <1>4 DEF PInv, PostsTypeOK, PostStays, postRows
<1>7. \A v \in Publishers : HoldsPost(v, p)' <=> HoldsPost(v, p)
  BY <1>2, SamePost
<1>8. Slot(p)' = Slot(p) /\ Slot(p) \in {0, 1}
  BY <1>2, <1>7 DEF Slot, Held, postRows
<1>9. RowTrue(p)
  BY <1>2, <1>3, <1>4 DEF RowTrue, PInv, PostOK, postRows
<1>10. /\ onPage[p] <= onPage'[p] /\ (direct'[p] = "accepted" => onPage'[p] > 0)
       /\ onPage'[p] + Slot(p)' + excused[p] <= onPage[p] + Slot(p) + excused'[p]
  BY <1>3, <1>4, <1>6, <1>8
<1> QED BY <1>2, <1>5, <1>6, <1>9, <1>10, EditorStep

LEMMA SettleDirectlyPInv == ASSUME PInv, NEW p \in ScheduledPost, SettleDirectly(p) PROVE PInv'
<1>1. /\ direct[p] # "none" /\ direct' = [direct EXCEPT ![p] = "none"]
      /\ seen' = [seen EXCEPT ![p] = "absent"]
      /\ UNCHANGED <<mark, attempts, pub, list, held, onPage, excused, relapsed, troubles>>
      /\ \/ post' = post /\ misread' = misread
         \/ /\ post' = [post EXCEPT ![p] = "published"] /\ direct[p] # "lost"
            /\ misread' = IF direct[p] = "rejected" THEN misread \cup {p} ELSE misread
  BY DEF SettleDirectly, SetPost
<1>2. PostsTypeOK' /\ misread \subseteq misread'
  BY <1>1 DEF PInv, PostsTypeOK, PostStates
<1>3. /\ direct'[p] = "none" /\ \A q \in ScheduledPost \ {p} : PostStays(q)
      /\ onPage[p] \in Nat /\ excused[p] \in Nat /\ direct[p] \in {"accepted", "rejected", "lost"}
  BY <1>1 DEF PInv, PostsTypeOK, PostStays, Answers
<1>4. \A v \in Publishers : HoldsPost(v, p)' <=> HoldsPost(v, p)
  BY <1>1, SamePost
<1>5. Slot(p) \in {0, 1} /\ Slot(p)' \in {0, 1} /\ Slot(p)' <= Slot(p)
  <2>1. post'[p] = "published" => Slot(p)' = 0
    BY DEF Slot
  <2>2. post'[p] = post[p] => Slot(p)' = Slot(p)
    BY <1>4 DEF Slot, Held
  <2> QED BY <1>1, <2>1, <2>2 DEF PInv, PostsTypeOK, Slot
<1>6. RowTrue(p)
  <2>1. PostOK(p)
    BY DEF PInv
  <2> QED BY <1>1, <1>3, <2>1 DEF PInv, PostsTypeOK, RowTrue, PostOK
<1>7. onPage'[p] = onPage[p] /\ excused'[p] = excused[p]
  BY <1>1
<1> QED BY <1>1, <1>2, <1>3, <1>5, <1>6, <1>7, EditorStep

-----------------------------------------------------------------------------
(* The steps of a publisher without a post at hand.                        *)

LEMMA FindStuckPInv == ASSUME PInv, NEW w \in Publishers, FindStuck(w) PROVE PInv'
<1>1. PostsTypeOK'
  BY DEF PInv, PostsTypeOK, FindStuck, Publisher, postRows, postDirect, postHistory
<1>2. ByPublisher(w) /\ \A p \in ScheduledPost : PostStays(p)
  BY DEF PInv, PostsTypeOK, FindStuck, Publisher, ByPublisher, PostStays, postRows, postDirect, postHistory
<1>3. pub[w] \notin AtWork /\ pub'[w] \notin AtWork /\ held' = held
  BY DEF PInv, PostsTypeOK, FindStuck, Publisher, AtWork, Answers
<1> QED BY <1>1, <1>2, <1>3, RestingStep

\* The rows that are taken back may be claimed again: by nobody's loss, or
\* for an excuse.
LEMMA RecoverPostsPInv == ASSUME PInv, NEW w \in Publishers, RecoverPosts(w) PROVE PInv'
<1>1. PICK dropped \in SUBSET list[w] :
        mark' = [p \in ScheduledPost |-> IF p \in dropped THEN "none" ELSE mark[p]]
  BY DEF RecoverPosts
<1>2. /\ post' = [p \in ScheduledPost |->
            IF p \in list[w] /\ post[p] = "publishing" THEN "scheduled" ELSE post[p]]
      /\ excused' = [p \in ScheduledPost |->
            excused[p] + (IF (p \in list[w] /\ post[p] = "publishing") /\ Held(p) THEN 1 ELSE 0)]
  <2>1. \A p \in ScheduledPost : p \in {q \in list[w] : post[q] = "publishing"} <=> p \in list[w] /\ post[p] = "publishing"
    OBVIOUS
  <2> QED BY <2>1 DEF RecoverPosts
<1>3. /\ pub[w] = "recovering" /\ pub' = [pub EXCEPT ![w] = "recovered"]
      /\ list' = [list EXCEPT ![w] = {}]
      /\ UNCHANGED <<attempts, held, direct, seen, onPage, misread, relapsed, troubles>>
  BY DEF RecoverPosts, Publisher, postDirect
<1>4. /\ post' \in [ScheduledPost -> PostStates] /\ mark' \in [ScheduledPost -> {"none", "fresh", "stale"}]
      /\ excused' \in [ScheduledPost -> Nat]
  BY <1>1, <1>2 DEF PInv, PostsTypeOK, PostStates
<1>5. PostsTypeOK'
  BY <1>3, <1>4 DEF PInv, PostsTypeOK
<1>6. ByPublisher(w) /\ pub[w] \notin AtWork /\ pub'[w] \notin AtWork
  BY <1>3 DEF PInv, PostsTypeOK, ByPublisher, AtWork, Answers
<1>7. AtHandIsListed'
  BY <1>6 DEF PInv, AtHandIsListed, ByPublisher
<1>8. ASSUME NEW p \in ScheduledPost PROVE PostOK(p)'
  <2>1. \A v \in Publishers : HoldsPost(v, p)' <=> HoldsPost(v, p)
    BY <1>6, OtherPublishers DEF HoldsPost
  <2>2. \A v \in Publishers : HoldsPost(v, p) => pub'[v] = pub[v]
    BY <1>6 DEF ByPublisher, HoldsPost
  <2>3. Open(p)' = Open(p) /\ Held(p)' = Held(p)
    BY <2>1, <2>2 DEF Open, Held
  <2>4. PostOK(p) /\ IsFiniteSet(Open(p)') /\ Opens(p)' = Opens(p)
    BY <2>3 DEF PInv, PostOK, Opens
  <2>5. onPage[p] \in Nat /\ excused[p] \in Nat /\ Opens(p) \in Nat /\ onPage'[p] = onPage[p]
    BY <1>3, <2>4, CountsAreNat DEF PInv, PostOK
  <2>6. RowTrue(p)
    BY <1>1, <1>2, <1>3, <2>4 DEF RowTrue, PostOK, PInv, PostsTypeOK
  <2>7. GroundsStay(p)
    BY <1>3, <2>1, <2>2, <2>5 DEF GroundsStay
  <2>8. Slot(p)' + excused[p] <= Slot(p) + excused'[p]
    <3>1. CASE p \in list[w] /\ post[p] = "publishing"
      <4>1. Slot(p)' = 1 /\ Slot(p) = (IF Held(p) THEN 0 ELSE 1)
        BY <1>2, <3>1 DEF Slot
      <4>2. excused'[p] = excused[p] + (IF Held(p) THEN 1 ELSE 0)
        BY <1>2, <3>1
      <4> QED BY <2>5, <4>1, <4>2
    <3>2. CASE ~(p \in list[w] /\ post[p] = "publishing")
      <4>1. post'[p] = post[p] /\ excused'[p] = excused[p] + 0
        BY <1>2, <3>2
      <4>2. Slot(p)' = Slot(p) /\ Slot(p) \in {0, 1}
        BY <2>3, <4>1 DEF Slot
      <4> QED BY <2>5, <4>1, <4>2
    <3> QED BY <3>1, <3>2
  <2>9. Slot(p) \in {0, 1} /\ Slot(p)' \in {0, 1} /\ excused'[p] \in Nat
    BY <1>4 DEF Slot
  <2>10. onPage'[p] + Opens(p)' + Slot(p)' + excused[p] <= onPage[p] + Opens(p) + Slot(p) + excused'[p]
    BY <2>4, <2>5, <2>8, <2>9
  <2> QED BY <1>5, <2>4, <2>6, <2>7, <2>10, PostKept
<1> QED BY <1>5, <1>7, <1>8 DEF PInv

LEMMA RecoveryRaisesPInv == ASSUME PInv, NEW w \in Publishers, RecoveryRaises(w) PROVE PInv'
<1>1. troubles' \in 0 .. MaxTroubles
  BY MaxTroublesAssumption DEF PInv, PostsTypeOK, RecoveryRaises, Trouble
<1>2. PostsTypeOK'
  BY <1>1 DEF PInv, PostsTypeOK, RecoveryRaises, Publisher, postRows, postDirect, postHistory
<1>3. ByPublisher(w) /\ \A p \in ScheduledPost : PostStays(p)
  BY DEF PInv, PostsTypeOK, RecoveryRaises, Publisher, ByPublisher, PostStays, postRows, postDirect, postHistory
<1>4. pub[w] \notin AtWork /\ pub'[w] \notin AtWork /\ held' = held
  BY DEF PInv, PostsTypeOK, RecoveryRaises, Publisher, AtWork, Answers
<1> QED BY <1>2, <1>3, <1>4, RestingStep

LEMMA ScanPostsPInv ==
    ASSUME PInv, NEW w \in Publishers, NEW found \in SUBSET ScheduledPost, ScanPosts(w, found) PROVE PInv'
<1>1. PostsTypeOK'
  BY DEF PInv, PostsTypeOK, PostStates, ScanPosts, Publisher, postRows, postDirect, postHistory
<1>2. ByPublisher(w) /\ \A p \in ScheduledPost : PostStays(p)
  BY DEF PInv, PostsTypeOK, ScanPosts, Publisher, ByPublisher, PostStays, postRows, postDirect, postHistory
<1>3. pub[w] \notin AtWork /\ pub'[w] \notin AtWork
  BY DEF PInv, PostsTypeOK, ScanPosts, Publisher, AtWork, Answers
<1>4. \A p \in ScheduledPost : held'[w][p] \in {"absent", post[p]}
  BY DEF PInv, PostsTypeOK, ScanPosts
<1> QED BY <1>1, <1>2, <1>3, <1>4, RestingStep

LEMMA PublishNowPInv ==
    ASSUME PInv, NEW w \in Publishers, NEW x \in ScheduledPost, PublishNow(w, x) PROVE PInv'
<1>1. PostsTypeOK'
  BY DEF PInv, PostsTypeOK, PublishNow, Publisher, postRows, postDirect, postHistory
<1>2. ByPublisher(w) /\ \A p \in ScheduledPost : PostStays(p)
  BY DEF PInv, PostsTypeOK, PublishNow, Publisher, ByPublisher, PostStays, postRows, postDirect, postHistory
<1>3. pub[w] \notin AtWork /\ pub'[w] \notin AtWork
  BY DEF PInv, PostsTypeOK, PublishNow, Publisher, AtWork, Answers
<1>4. \A p \in ScheduledPost : held'[w][p] \in {held[w][p], post[p]}
  BY DEF PInv, PostsTypeOK, PublishNow
<1> QED BY <1>1, <1>2, <1>3, <1>4, RestingStep

\* Turning to the next post, and ending the run
LEMMA NextPostLeaves ==
    ASSUME PostsTypeOK, NEW w \in Publishers, list[w] # {}, NextPost(w)
    PROVE  /\ \A v \in Publishers \ {w} : pub'[v] = pub[v] /\ list'[v] = list[v] /\ held'[v] = held[v]
           /\ pub'[w] = "working"
           /\ pub' \in [Publishers -> {"idle", "recovering", "recovered", "working", "claimed"} \cup Answers]
           /\ list' \in [Publishers -> SUBSET ScheduledPost]
           /\ held' \in [Publishers -> [ScheduledPost -> PostStates]]
           /\ \A v \in Publishers, p \in ScheduledPost : held'[v][p] \in {held[v][p], "absent"}
<1>1. PICK x \in ScheduledPost : x = PostAtHand(w)
  BY PostAtHandIsListed
<1> QED BY <1>1 DEF PostsTypeOK, PostStates, NextPost, Publisher

LEMMA StopLeaves ==
    ASSUME PostsTypeOK, NEW w \in Publishers, Stop(w)
    PROVE  /\ \A v \in Publishers \ {w} : pub'[v] = pub[v] /\ list'[v] = list[v] /\ held'[v] = held[v]
           /\ pub'[w] = "idle"
           /\ pub' \in [Publishers -> {"idle", "recovering", "recovered", "working", "claimed"} \cup Answers]
           /\ list' \in [Publishers -> SUBSET ScheduledPost]
           /\ held' \in [Publishers -> [ScheduledPost -> PostStates]]
           /\ \A v \in Publishers, p \in ScheduledPost : held'[v][p] \in {held[v][p], "absent"}
BY DEF PostsTypeOK, PostStates, Stop, Publisher, Nothing

LEMMA EndRunPInv == ASSUME PInv, NEW w \in Publishers, EndRun(w) PROVE PInv'
<1>1. PostsTypeOK' /\ ByPublisher(w) /\ \A p \in ScheduledPost : PostStays(p)
  BY StopLeaves DEF PInv, PostsTypeOK, EndRun, ByPublisher, PostStays, postRows, postDirect, postHistory
<1>2. /\ pub[w] \notin AtWork /\ pub'[w] \notin AtWork
      /\ \A p \in ScheduledPost : held'[w][p] \in {held[w][p], "absent"}
  BY StopLeaves DEF PInv, EndRun, AtWork, Answers
<1> QED BY <1>1, <1>2, RestingStep

LEMMA PassOverPInv == ASSUME PInv, NEW w \in Publishers, PassOver(w) PROVE PInv'
<1>1. PostsTypeOK' /\ ByPublisher(w) /\ \A p \in ScheduledPost : PostStays(p)
  BY NextPostLeaves DEF PInv, PostsTypeOK, PassOver, ByPublisher, PostStays, postRows, postDirect, postHistory
<1>2. /\ pub[w] \notin AtWork /\ pub'[w] \notin AtWork
      /\ \A p \in ScheduledPost : held'[w][p] \in {held[w][p], "absent"}
  BY NextPostLeaves DEF PInv, PassOver, AtWork, Answers
<1> QED BY <1>1, <1>2, RestingStep

-----------------------------------------------------------------------------
(* The steps of a publisher with a post at hand.                           *)

LEMMA WorkerHolds ==
    ASSUME PInv, NEW w \in Publishers, pub[w] \in AtWork
    PROVE  list[w] # {} /\ \E x \in ScheduledPost : x = PostAtHand(w) /\ HoldsPost(w, x)
BY PostAtHandIsListed DEF PInv, AtHandIsListed, HoldsPost

LEMMA ClaimPostPInv == ASSUME PInv, NEW w \in Publishers, ClaimPost(w) PROVE PInv'
<1>1. PICK x \in ScheduledPost : x = PostAtHand(w) /\ x \in list[w]
  BY PostAtHandIsListed DEF PInv, ClaimPost
<1>2. /\ post' = [post EXCEPT ![x] = "publishing"] /\ mark' = [mark EXCEPT ![x] = "fresh"]
      /\ post[x] \in {"scheduled", "draft", "failed"}
      /\ pub[w] = "working" /\ pub' = [pub EXCEPT ![w] = "claimed"]
      /\ UNCHANGED <<attempts, list, held, direct, seen, onPage, excused, misread, relapsed, troubles>>
  BY <1>1 DEF ClaimPost, CanClaim, ClaimableBy, SetPost, Publisher, postDirect, postHistory
<1>3. PostsTypeOK' /\ ByPublisher(w) /\ pub'[w] = "claimed"
  BY <1>2 DEF PInv, PostsTypeOK, PostStates, ByPublisher
<1>4. \A p \in ScheduledPost \ {x} : PostStays(p) /\ held'[w][p] = held[w][p]
  BY <1>2 DEF PInv, PostsTypeOK, PostStays
<1>5. post'[x] = "publishing" /\ mark'[x] = "fresh" /\ HoldsPost(w, x)' /\ ~HoldsPost(w, x)
  BY <1>1, <1>2, <1>3 DEF PInv, PostsTypeOK, HoldsPost, PostAtHand, AtWork, Answers
<1>6. PostOK(x) /\ onPage[x] \in Nat /\ excused[x] \in Nat /\ Opens(x) \in Nat
  BY CountsAreNat DEF PInv, PostOK
<1>7. Slot(x) = 1 /\ Slot(x)' = 0
  BY <1>2, <1>5 DEF Slot, Held
<1>8. Open(x)' = Open(x) \cup {w} /\ w \notin Open(x)
  BY <1>3, <1>5, OtherPublishers DEF Open, ByPublisher
<1>9. IsFiniteSet(Open(x)') /\ Opens(x)' = Opens(x) + 1
  <2>1. IsFiniteSet(Open(x))
    BY <1>6 DEF PostOK
  <2>2. IsFiniteSet(Open(x) \cup {w}) /\ Cardinality(Open(x) \cup {w}) = Cardinality(Open(x)) + 1
    BY <1>8, <2>1, FS_AddElement
  <2>3. Opens(x)' = Cardinality(Open(x) \cup {w})
    BY <1>8 DEF Opens
  <2> QED BY <1>8, <2>2, <2>3 DEF Opens
<1>10. onPage'[x] + Opens(x)' + Slot(x)' + excused[x] <= onPage[x] + Opens(x) + Slot(x) + excused'[x]
  BY <1>2, <1>6, <1>7, <1>9
<1>11. RowTrue(x)
  BY <1>5 DEF RowTrue
<1>12. GroundsStay(x)
  <2>1. \A v \in Publishers : HoldsPost(v, x)' /\ pub'[v] = "accepted" => HoldsPost(v, x) /\ pub[v] = "accepted"
    BY <1>3, OtherPublishers DEF ByPublisher
  <2> QED BY <1>2, <1>6, <2>1 DEF GroundsStay
<1>13. PostOK(x)'
  BY <1>3, <1>9, <1>10, <1>11, <1>12, PostKept
<1> QED BY <1>1, <1>2, <1>3, <1>4, <1>13, WorkingStep

\* The Graph call: an accepted post is on the page and open no more.
LEMMA CallPagePInv ==
    ASSUME PInv, NEW w \in Publishers, NEW answer \in Answers, CallPage(w, answer) PROVE PInv'
<1>1. PICK x \in ScheduledPost : x = PostAtHand(w) /\ HoldsPost(w, x) /\ list[w] # {}
  BY WorkerHolds DEF CallPage, AtWork
<1>2. PICK lost \in 0 .. MaxTroubles - troubles :
        /\ onPage' = [onPage EXCEPT ![x] = @ + lost + (IF answer = "accepted" THEN 1 ELSE 0)]
        /\ excused' = [excused EXCEPT ![x] = @ + lost]
        /\ troubles' = troubles + lost
  <2>1. PICK lost \in 0 .. MaxTroubles - troubles - 0 :
          /\ onPage' = [onPage EXCEPT ![x] = @ + lost + (IF answer = "accepted" THEN 1 ELSE 0)]
          /\ excused' = [excused EXCEPT ![x] = @ + lost + 0]
          /\ troubles' = troubles + lost + 0
    BY <1>1 DEF CallPage, Called
  <2>2. troubles \in Int /\ lost \in Int /\ excused[x] \in Nat
    BY <2>1, MaxTroublesAssumption DEF PInv, PostsTypeOK
  <2>3. /\ MaxTroubles - troubles - 0 = MaxTroubles - troubles
        /\ excused[x] + lost + 0 = excused[x] + lost /\ troubles + lost + 0 = troubles + lost
    BY <2>2, MaxTroublesAssumption
  <2> QED BY <2>1, <2>3
<1>3. /\ pub[w] = "claimed" /\ pub' = [pub EXCEPT ![w] = answer]
      /\ UNCHANGED <<post, mark, attempts, list, held, direct, seen, misread, relapsed>>
  BY DEF CallPage, Publisher, postRows, postDirect
<1>4. /\ lost \in Nat /\ troubles' \in 0 .. MaxTroubles
      /\ onPage \in [ScheduledPost -> Nat] /\ excused \in [ScheduledPost -> Nat]
  BY <1>2, MaxTroublesAssumption DEF PInv, PostsTypeOK
<1>5. /\ onPage'[x] = onPage[x] + lost + (IF answer = "accepted" THEN 1 ELSE 0)
      /\ excused'[x] = excused[x] + lost /\ onPage[x] \in Nat /\ excused[x] \in Nat
      /\ \A q \in ScheduledPost \ {x} : onPage'[q] = onPage[q] /\ excused'[q] = excused[q]
      /\ onPage' \in [ScheduledPost -> Nat] /\ excused' \in [ScheduledPost -> Nat]
  BY <1>2, <1>4
<1>6. PostsTypeOK'
  BY <1>3, <1>4, <1>5 DEF PInv, PostsTypeOK
<1>7. ByPublisher(w) /\ pub'[w] = answer
  BY <1>3 DEF PInv, PostsTypeOK, ByPublisher
<1>8. \A p \in ScheduledPost \ {x} : PostStays(p) /\ held'[w][p] = held[w][p]
  BY <1>3, <1>5 DEF PostStays
<1>9. \A v \in Publishers : HoldsPost(v, x)' <=> HoldsPost(v, x)
  <2>1. HoldsPost(w, x)'
    BY <1>1, <1>3, <1>7, SamePost DEF AtWork, Answers
  <2> QED BY <1>1, <1>7, <2>1, OtherPublishers
<1>10. PostOK(x) /\ Opens(x) \in Nat /\ Slot(x)' = Slot(x) /\ Slot(x) \in {0, 1} /\ IsFiniteSet(Open(x))
  BY <1>3, <1>9, CountsAreNat DEF PInv, PostOK, Slot, Held
<1>11. w \in Open(x)
  BY <1>1, <1>3 DEF Open
<1>12. RowTrue(x)
  BY <1>3, <1>4, <1>5, <1>10 DEF RowTrue, PostOK
<1>13. GroundsStay(x)
  <2>1. answer = "accepted" => onPage'[x] > 0
    BY <1>4, <1>5
  <2>2. onPage[x] <= onPage'[x]
    BY <1>4, <1>5
  <2>3. \A v \in Publishers : HoldsPost(v, x)' /\ pub'[v] = "accepted" =>
            (HoldsPost(v, x) /\ pub[v] = "accepted") \/ onPage'[x] > 0
    BY <1>7, <1>9, <2>1 DEF ByPublisher
  <2> QED BY <1>3, <2>2, <2>3 DEF GroundsStay
<1>14. IsFiniteSet(Open(x)') /\ Opens(x)' = Opens(x) - (IF answer = "accepted" THEN 1 ELSE 0)
  <2>1. CASE answer = "accepted"
    <3>1. Open(x)' = Open(x) \ {w}
      BY <1>7, <1>9, <2>1 DEF Open, ByPublisher
    <3>2. IsFiniteSet(Open(x) \ {w}) /\ Cardinality(Open(x) \ {w}) = Cardinality(Open(x)) - 1
      BY <1>10, <1>11, FS_RemoveElement
    <3> QED BY <2>1, <3>1, <3>2 DEF Opens
  <2>2. CASE answer # "accepted"
    <3>1. Open(x)' = Open(x)
      BY <1>3, <1>7, <1>9, <2>2 DEF Open, ByPublisher
    <3> QED BY <1>10, <2>2, <3>1 DEF Opens
  <2> QED BY <2>1, <2>2
<1>15. onPage'[x] + Opens(x)' + Slot(x)' + excused[x] <= onPage[x] + Opens(x) + Slot(x) + excused'[x]
  BY <1>4, <1>5, <1>10, <1>14
<1>16. PostOK(x)'
  BY <1>6, <1>12, <1>13, <1>14, <1>15, PostKept
<1> QED BY <1>1, <1>3, <1>6, <1>7, <1>8, <1>16, WorkingStep

\* A publisher lets go of the post at hand.
LEMMA LettingGo ==
    ASSUME PInv, NEW w \in Publishers, pub[w] \in AtWork, pub'[w] \notin AtWork,
           ByPublisher(w), PostsTypeOK', NEW x \in ScheduledPost, x = PostAtHand(w),
           onPage' = onPage, direct' = direct,
           \A v \in Publishers, p \in ScheduledPost : held'[v][p] \in {held[v][p], "absent"},
           \A p \in ScheduledPost \ {x} : post'[p] = post[p] /\ mark'[p] = mark[p] /\ excused'[p] = excused[p],
           RowTrue(x),
           \/ pub[w] # "accepted" /\ excused'[x] = excused[x]
           \/ excused'[x] = excused[x] + 1
           \/ excused'[x] = excused[x] /\ post'[x] = "published"
           \/ excused'[x] = excused[x] /\ post'[x] = post[x] /\ post[x] # "publishing"
    PROVE  PInv'
<1>1. HoldsPost(w, x) /\ ~HoldsPost(w, x)'
  BY DEF HoldsPost
<1>2. \/ pub[w] # "accepted" /\ excused'[x] = excused[x]
      \/ excused'[x] = excused[x] + 1
      \/ excused'[x] = excused[x] /\ Slot(x)' <= Slot(x)
  <2>1. post'[x] = "published" => Slot(x)' = 0
    BY DEF Slot
  <2>2. post'[x] = post[x] /\ post[x] # "publishing" => Slot(x)' = Slot(x)
    BY DEF Slot
  <2>3. Slot(x) \in {0, 1}
    BY DEF Slot
  <2> QED BY <2>1, <2>2, <2>3
<1>3. PostOK(x)'
  BY <1>1, <1>2, LeavesPost
<1>4. \A p \in ScheduledPost \ {x} : PostStays(p) /\ held'[w][p] \in {held[w][p], "absent", post[p]}
  BY DEF PostStays
<1> QED BY <1>3, <1>4, WorkingStep

\* Of the rows, what a step may do to one of them.
OnlyRow(x) ==
    /\ post' \in [ScheduledPost -> PostStates] /\ mark' \in [ScheduledPost -> {"none", "fresh", "stale"}]
    /\ \A p \in ScheduledPost \ {x} : post'[p] = post[p] /\ mark'[p] = mark[p]

LEMMA ReleaseIsOfOne ==
    ASSUME PInv, NEW x \in ScheduledPost, NEW st \in PostStates, ReleaseTo(x, st)
    PROVE  /\ OnlyRow(x)
           /\ \/ post[x] = "publishing" /\ post'[x] = st
              \/ post[x] # "publishing" /\ post'[x] = post[x] /\ mark'[x] = mark[x]
BY DEF PInv, PostsTypeOK, ReleaseTo, SetPost, ClearMark, OnlyRow, postRows

LEMMA SettleIsOfOne ==
    ASSUME PInv, NEW x \in ScheduledPost, NEW st \in PostStates, SetPost(x, st), ClearMark(x)
    PROVE  OnlyRow(x) /\ post'[x] = st
BY DEF PInv, PostsTypeOK, SetPost, ClearMark, OnlyRow

\* A row that stays, or is given one of the settled statuses, stays true.
LEMMA RowStaysTrue ==
    ASSUME PInv, NEW x \in ScheduledPost, relapsed \subseteq relapsed', misread \subseteq misread', onPage' = onPage,
           \/ post'[x] = post[x] /\ mark'[x] = mark[x]
           \/ post'[x] \in {"draft", "scheduled", "failed"}
           \/ post'[x] = "published" /\ (x \in misread' \/ onPage[x] > 0)
    PROVE  RowTrue(x)
BY DEF PInv, PostOK, RowTrue

LEMMA NoConnectedPagePInv == ASSUME PInv, NEW w \in Publishers, NoConnectedPage(w) PROVE PInv'
<1>1. PICK x \in ScheduledPost : x = PostAtHand(w) /\ HoldsPost(w, x) /\ list[w] # {}
  BY WorkerHolds DEF NoConnectedPage, AtWork
<1> DEFINE st == StatusBefore(w, x)
<1>2. /\ pub[w] = "claimed" /\ ReleaseTo(x, st) /\ NextPost(w)
      /\ relapsed' = IF st = "publishing" THEN relapsed \cup {x} ELSE relapsed
      /\ UNCHANGED <<attempts, direct, seen, onPage, excused, misread, troubles>>
  BY <1>1 DEF NoConnectedPage, postDirect
<1>3. st \in PostStates /\ (st = "published" => x \in misread \/ onPage[x] > 0)
  BY DEF PInv, PostsTypeOK, PostStates, StatusBefore, PostOK
<1> HIDE DEF st
<1>4. /\ OnlyRow(x)
      /\ \/ post[x] = "publishing" /\ post'[x] = st
         \/ post[x] # "publishing" /\ post'[x] = post[x] /\ mark'[x] = mark[x]
  BY <1>2, <1>3, ReleaseIsOfOne
<1>5. PostsTypeOK' /\ ByPublisher(w) /\ pub'[w] = "working"
  BY <1>1, <1>2, <1>4, NextPostLeaves DEF PInv, PostsTypeOK, OnlyRow, ByPublisher
<1>6. RowTrue(x)
  BY <1>2, <1>3, <1>4 DEF RowTrue, PInv, PostOK
<1>7. pub[w] \in AtWork /\ pub'[w] \notin AtWork
  BY <1>2, <1>5 DEF AtWork, Answers
<1>8. \A v \in Publishers, p \in ScheduledPost : held'[v][p] \in {held[v][p], "absent"}
  BY <1>1, <1>2, NextPostLeaves DEF PInv
<1> QED BY <1>1, <1>2, <1>4, <1>5, <1>6, <1>7, <1>8, LettingGo DEF OnlyRow

LEMMA SweepSettlesPInv == ASSUME PInv, NEW w \in Publishers, SweepSettles(w) PROVE PInv'
<1>1. PICK x \in ScheduledPost : x = PostAtHand(w) /\ HoldsPost(w, x) /\ list[w] # {}
  BY WorkerHolds DEF SweepSettles, AtWork
<1> DEFINE st == IF pub[w] = "accepted" THEN "published" ELSE "failed"
<1>2. /\ pub[w] \in Answers /\ NextPost(w)
      /\ IF Exists(x) THEN SetPost(x, st) /\ ClearMark(x) ELSE post' = post /\ mark' = mark
      /\ UNCHANGED <<attempts, direct, seen, onPage, excused, misread, relapsed, troubles>>
  BY <1>1 DEF SweepSettles, postDirect, postRows, postHistory
<1>3. /\ OnlyRow(x)
      /\ post'[x] = st \/ (post'[x] = post[x] /\ mark'[x] = mark[x] /\ post[x] # "publishing")
  <2>1. st \in PostStates
    BY DEF PostStates
  <2>2. ~Exists(x) => post[x] # "publishing"
    BY DEF Exists
  <2>3. post' = post /\ mark' = mark => OnlyRow(x)
    BY DEF PInv, PostsTypeOK, OnlyRow
  <2> HIDE DEF st
  <2> QED BY <1>2, <2>1, <2>2, <2>3, SettleIsOfOne
<1>4. PostsTypeOK' /\ ByPublisher(w) /\ pub'[w] = "working"
  BY <1>1, <1>2, <1>3, NextPostLeaves DEF PInv, PostsTypeOK, OnlyRow, ByPublisher
<1>5. pub[w] = "accepted" => onPage[x] > 0
  BY <1>1 DEF PInv, PostOK
<1>6. RowTrue(x)
  BY <1>2, <1>3, <1>5, RowStaysTrue
<1>7. pub[w] \in AtWork /\ pub'[w] \notin AtWork
  BY <1>2, <1>4 DEF AtWork, Answers
<1>8. \A v \in Publishers, p \in ScheduledPost : held'[v][p] \in {held[v][p], "absent"}
  BY <1>1, <1>2, NextPostLeaves DEF PInv
<1> QED BY <1>1, <1>2, <1>3, <1>4, <1>6, <1>7, <1>8, LettingGo DEF OnlyRow

LEMMA EngineSucceedsPInv == ASSUME PInv, NEW w \in Publishers, EngineSucceeds(w) PROVE PInv'
<1>1. PICK x \in ScheduledPost : x = PostAtHand(w) /\ HoldsPost(w, x) /\ list[w] # {}
  BY WorkerHolds DEF EngineSucceeds, AtWork, Answers
<1>2. /\ pub[w] \in {"accepted", "rejected"} /\ attempts' = [attempts EXCEPT ![x] = 0]
      /\ misread' = IF pub[w] = "rejected" THEN misread \cup {x} ELSE misread
      /\ IF Exists(x) THEN SetPost(x, "published") /\ ClearMark(x) /\ NextPost(w)
                      ELSE post' = post /\ mark' = mark /\ Stop(w)
      /\ UNCHANGED <<direct, seen, onPage, excused, relapsed, troubles>>
  BY <1>1 DEF EngineSucceeds, postDirect, postRows
<1>3. /\ OnlyRow(x)
      /\ post'[x] = "published" \/ (post'[x] = post[x] /\ mark'[x] = mark[x] /\ post[x] # "publishing")
  <2>1. "published" \in PostStates
    BY DEF PostStates
  <2>2. ~Exists(x) => post[x] # "publishing"
    BY DEF Exists
  <2>3. post' = post /\ mark' = mark => OnlyRow(x)
    BY DEF PInv, PostsTypeOK, OnlyRow
  <2> QED BY <1>2, <2>1, <2>2, <2>3, SettleIsOfOne
<1>4. NextPost(w) \/ Stop(w)
  BY <1>2
<1>5. PostsTypeOK' /\ ByPublisher(w) /\ pub'[w] \in {"working", "idle"}
  BY <1>1, <1>2, <1>3, <1>4, NextPostLeaves, StopLeaves DEF PInv, PostsTypeOK, OnlyRow, ByPublisher
<1>6. pub[w] = "accepted" => onPage[x] > 0
  BY <1>1 DEF PInv, PostOK
<1>7. RowTrue(x)
  BY <1>2, <1>3, <1>6, RowStaysTrue
<1>8. pub[w] \in AtWork /\ pub'[w] \notin AtWork
  BY <1>2, <1>5 DEF AtWork, Answers
<1>9. \A v \in Publishers, p \in ScheduledPost : held'[v][p] \in {held[v][p], "absent"}
  BY <1>1, <1>4, NextPostLeaves, StopLeaves DEF PInv
<1> QED BY <1>1, <1>2, <1>3, <1>5, <1>7, <1>8, <1>9, LettingGo DEF OnlyRow

LEMMA EngineFailsPInv == ASSUME PInv, NEW w \in Publishers, EngineFails(w) PROVE PInv'
<1>1. PICK x \in ScheduledPost : x = PostAtHand(w) /\ HoldsPost(w, x) /\ list[w] # {}
  BY WorkerHolds DEF EngineFails, AtWork, Answers
<1>2. /\ pub[w] = "lost" /\ attempts' = [attempts EXCEPT ![x] = @ + 1]
      /\ ReleaseTo(x, "scheduled") /\ NextPost(w)
      /\ UNCHANGED <<direct, seen, onPage, excused, misread, relapsed, troubles>>
  BY <1>1 DEF EngineFails, postDirect, postHistory
<1>3. /\ OnlyRow(x)
      /\ post'[x] = "scheduled" \/ (post'[x] = post[x] /\ mark'[x] = mark[x])
  BY <1>2, ReleaseIsOfOne DEF PostStates
<1>4. attempts' \in [ScheduledPost -> Nat]
  BY <1>2 DEF PInv, PostsTypeOK
<1>5. PostsTypeOK' /\ ByPublisher(w) /\ pub'[w] = "working"
  BY <1>1, <1>2, <1>3, <1>4, NextPostLeaves DEF PInv, PostsTypeOK, OnlyRow, ByPublisher
<1>6. RowTrue(x)
  BY <1>2, <1>3, RowStaysTrue
<1>7. pub[w] \in AtWork /\ pub'[w] \notin AtWork
  BY <1>2, <1>5 DEF AtWork, Answers
<1>8. \A v \in Publishers, p \in ScheduledPost : held'[v][p] \in {held[v][p], "absent"}
  BY <1>1, <1>2, NextPostLeaves DEF PInv
<1> QED BY <1>1, <1>2, <1>3, <1>5, <1>6, <1>7, <1>8, LettingGo DEF OnlyRow

LEMMA EngineGivesUpPInv == ASSUME PInv, NEW w \in Publishers, EngineGivesUp(w) PROVE PInv'
<1>1. PICK x \in ScheduledPost : x = PostAtHand(w) /\ HoldsPost(w, x) /\ list[w] # {}
  BY WorkerHolds DEF EngineGivesUp, AtWork, Answers
<1>2. /\ pub[w] = "lost" /\ NextPost(w)
      /\ attempts' = [attempts EXCEPT ![x] = 0] \/ attempts' = [attempts EXCEPT ![x] = @ + 1]
      /\ (SetPost(x, "failed") /\ ClearMark(x)) \/ (post' = post /\ mark' = mark)
      /\ troubles' = troubles \/ (troubles < MaxTroubles /\ troubles' = troubles + 1)
      /\ UNCHANGED <<direct, seen, onPage, excused, misread, relapsed>>
  BY <1>1 DEF EngineGivesUp, Trouble, postDirect, postRows, postHistory
<1>3. /\ OnlyRow(x)
      /\ post'[x] = "failed" \/ (post'[x] = post[x] /\ mark'[x] = mark[x])
  <2>1. "failed" \in PostStates
    BY DEF PostStates
  <2>2. post' = post /\ mark' = mark => OnlyRow(x)
    BY DEF PInv, PostsTypeOK, OnlyRow
  <2> QED BY <1>2, <2>1, <2>2, SettleIsOfOne
<1>4. troubles' \in 0 .. MaxTroubles /\ attempts' \in [ScheduledPost -> Nat]
  BY <1>2, MaxTroublesAssumption DEF PInv, PostsTypeOK
<1>5. PostsTypeOK' /\ ByPublisher(w) /\ pub'[w] = "working"
  BY <1>1, <1>2, <1>3, <1>4, NextPostLeaves DEF PInv, PostsTypeOK, OnlyRow, ByPublisher
<1>6. RowTrue(x)
  BY <1>2, <1>3, RowStaysTrue
<1>7. pub[w] \in AtWork /\ pub'[w] \notin AtWork
  BY <1>2, <1>5 DEF AtWork, Answers
<1>8. \A v \in Publishers, p \in ScheduledPost : held'[v][p] \in {held[v][p], "absent"}
  BY <1>1, <1>2, NextPostLeaves DEF PInv
<1> QED BY <1>1, <1>2, <1>3, <1>5, <1>6, <1>7, <1>8, LettingGo DEF OnlyRow

-----------------------------------------------------------------------------
(* Exceptions, dying instances and slow ones.                              *)

LEMMA TroubleType == ASSUME PInv, Trouble PROVE troubles' \in 0 .. MaxTroubles
BY MaxTroublesAssumption DEF PInv, PostsTypeOK, Trouble

\* The exception of a claim: the sweep releases what nobody holds, or what
\* another holds for an excuse.
LEMMA SweepRaisesAtClaimPInv ==
    ASSUME PInv, NEW w \in Publishers, SweepRaises(w), pub[w] = "working" PROVE PInv'
<1>1. PICK x \in ScheduledPost : x = PostAtHand(w) /\ x \in list[w]
  BY PostAtHandIsListed DEF PInv, SweepRaises, AtWork, Answers
<1>2. /\ excused' = IF Held(x) THEN [excused EXCEPT ![x] = @ + 1] ELSE excused
      /\ ReleaseTo(x, "scheduled") \/ (post' = post /\ mark' = mark)
      /\ NextPost(w) /\ Trouble
      /\ UNCHANGED <<attempts, direct, seen, onPage, misread, relapsed>>
  BY <1>1 DEF SweepRaises, Excuse, Unrecorded, postDirect, postRows
<1>3. /\ OnlyRow(x)
      /\ \/ post[x] = "publishing" /\ post'[x] = "scheduled"
         \/ post'[x] = post[x] /\ mark'[x] = mark[x]
  <2>1. post' = post /\ mark' = mark => OnlyRow(x)
    BY DEF PInv, PostsTypeOK, OnlyRow
  <2> QED BY <1>2, <2>1, ReleaseIsOfOne DEF PostStates
<1>4. /\ excused' \in [ScheduledPost -> Nat] /\ troubles' \in 0 .. MaxTroubles
      /\ excused'[x] = excused[x] + (IF Held(x) THEN 1 ELSE 0)
      /\ \A p \in ScheduledPost \ {x} : excused'[p] = excused[p]
  BY <1>2, TroubleType DEF PInv, PostsTypeOK
<1>5. PostsTypeOK' /\ ByPublisher(w) /\ pub'[w] = "working"
  BY <1>1, <1>2, <1>3, <1>4, NextPostLeaves DEF PInv, PostsTypeOK, OnlyRow, ByPublisher
<1>6. \A v \in Publishers, p \in ScheduledPost : held'[v][p] \in {held[v][p], "absent"}
  BY <1>1, <1>2, NextPostLeaves DEF PInv
<1>7. \A v \in Publishers : HoldsPost(v, x)' <=> HoldsPost(v, x)
  BY <1>5, OtherPublishers DEF HoldsPost, AtWork, Answers
<1>8. \A v \in Publishers : HoldsPost(v, x) => pub'[v] = pub[v]
  BY <1>5 DEF ByPublisher
<1>9. Open(x)' = Open(x) /\ Held(x)' = Held(x)
  BY <1>7, <1>8 DEF Open, Held
<1>10. PostOK(x) /\ IsFiniteSet(Open(x)') /\ Opens(x)' = Opens(x)
  BY <1>9 DEF PInv, PostOK, Opens
<1>11. /\ onPage[x] \in Nat /\ excused[x] \in Nat /\ Opens(x) \in Nat
       /\ Slot(x) \in {0, 1} /\ Slot(x)' \in {0, 1}
  BY <1>10, CountsAreNat DEF PInv, PostOK, Slot
<1>12. Slot(x)' <= Slot(x) + (IF Held(x) THEN 1 ELSE 0)
  <2>1. post[x] = "publishing" /\ ~Held(x) => Slot(x) = 1
    BY DEF Slot
  <2>2. post'[x] = post[x] => Slot(x)' = Slot(x)
    BY <1>9 DEF Slot
  <2> QED BY <1>3, <1>11, <2>1, <2>2
<1>13. onPage'[x] + Opens(x)' + Slot(x)' + excused[x] <= onPage[x] + Opens(x) + Slot(x) + excused'[x]
  BY <1>2, <1>4, <1>10, <1>11, <1>12
<1>14. RowTrue(x)
  BY <1>2, <1>3, RowStaysTrue
<1>15. GroundsStay(x)
  BY <1>2, <1>6, <1>7, <1>8, <1>11 DEF GroundsStay
<1>16. PostOK(x)'
  BY <1>5, <1>10, <1>13, <1>14, <1>15, PostKept
<1>17. \A p \in ScheduledPost \ {x} : PostStays(p) /\ held'[w][p] \in {held[w][p], "absent", post[p]}
  BY <1>2, <1>3, <1>4, <1>6 DEF PostStays, OnlyRow
<1> QED BY <1>1, <1>5, <1>16, <1>17, WorkingStep DEF AtWork, Answers

LEMMA SweepRaisesPInv == ASSUME PInv, NEW w \in Publishers, SweepRaises(w) PROVE PInv'
<1>1. CASE pub[w] = "working"
  BY <1>1, SweepRaisesAtClaimPInv
<1>2. CASE pub[w] # "working"
  <2>1. pub[w] \in AtWork
    BY <1>2 DEF SweepRaises
  <2>2. PICK x \in ScheduledPost : x = PostAtHand(w) /\ HoldsPost(w, x) /\ list[w] # {}
    BY <2>1, WorkerHolds
  <2>3. /\ excused' = IF pub[w] = "accepted" THEN [excused EXCEPT ![x] = @ + 1] ELSE excused
        /\ ReleaseTo(x, "scheduled") \/ (post' = post /\ mark' = mark)
        /\ NextPost(w) /\ Trouble
        /\ UNCHANGED <<attempts, direct, seen, onPage, misread, relapsed>>
    BY <1>2, <2>2 DEF SweepRaises, Excuse, Unrecorded, postDirect, postRows
  <2>4. /\ OnlyRow(x)
        /\ post'[x] = "scheduled" \/ (post'[x] = post[x] /\ mark'[x] = mark[x])
    <3>1. post' = post /\ mark' = mark => OnlyRow(x)
      BY DEF PInv, PostsTypeOK, OnlyRow
    <3> QED BY <2>3, <3>1, ReleaseIsOfOne DEF PostStates
  <2>5. /\ excused' \in [ScheduledPost -> Nat] /\ troubles' \in 0 .. MaxTroubles
        /\ excused'[x] = excused[x] + (IF pub[w] = "accepted" THEN 1 ELSE 0)
        /\ excused[x] \in Nat
        /\ \A p \in ScheduledPost \ {x} : excused'[p] = excused[p]
    BY <2>3, TroubleType DEF PInv, PostsTypeOK
  <2>6. PostsTypeOK' /\ ByPublisher(w) /\ pub'[w] = "working"
    BY <2>2, <2>3, <2>4, <2>5, NextPostLeaves DEF PInv, PostsTypeOK, OnlyRow, ByPublisher
  <2>7. RowTrue(x)
    BY <2>3, <2>4, RowStaysTrue
  <2>8. pub'[w] \notin AtWork
    BY <2>6 DEF AtWork, Answers
  <2>9. \A v \in Publishers, p \in ScheduledPost : held'[v][p] \in {held[v][p], "absent"}
    BY <2>2, <2>3, NextPostLeaves DEF PInv
  <2> QED BY <2>1, <2>2, <2>3, <2>4, <2>5, <2>6, <2>7, <2>8, <2>9, LettingGo DEF OnlyRow
<1> QED BY <1>1, <1>2

\* A publisher whose run ends at a post: it leaves the claim as it is.
LEMMA BreaksOffPInv ==
    ASSUME PInv, NEW w \in Publishers, pub[w] \in AtWork, Unrecorded(w), Stop(w), Trouble,
           attempts' \in [ScheduledPost -> Nat],
           UNCHANGED <<post, mark, direct, seen, onPage, misread, relapsed>>
    PROVE  PInv'
<1>1. PICK x \in ScheduledPost : x = PostAtHand(w) /\ HoldsPost(w, x) /\ list[w] # {}
  BY WorkerHolds
<1>2. excused' = IF pub[w] = "accepted" THEN [excused EXCEPT ![x] = @ + 1] ELSE excused
  BY <1>1 DEF Unrecorded, Excuse
<1>3. /\ excused' \in [ScheduledPost -> Nat] /\ troubles' \in 0 .. MaxTroubles
      /\ excused'[x] = excused[x] + (IF pub[w] = "accepted" THEN 1 ELSE 0)
      /\ excused[x] \in Nat
      /\ \A p \in ScheduledPost \ {x} : excused'[p] = excused[p]
  BY <1>2, TroubleType DEF PInv, PostsTypeOK
<1>4. PostsTypeOK' /\ ByPublisher(w) /\ pub'[w] = "idle"
  BY <1>3, StopLeaves DEF PInv, PostsTypeOK, ByPublisher
<1>5. RowTrue(x)
  BY <1>4, RowStaysTrue DEF ByPublisher
<1>6. pub'[w] \notin AtWork
  BY <1>4 DEF AtWork, Answers
<1>7. \A v \in Publishers, p \in ScheduledPost : held'[v][p] \in {held[v][p], "absent"}
  BY StopLeaves DEF PInv
<1> QED BY <1>1, <1>3, <1>4, <1>5, <1>6, <1>7, LettingGo

LEMMA DiesPInv == ASSUME PInv, NEW w \in Publishers, Dies(w) PROVE PInv'
<1>1. /\ Unrecorded(w) /\ Stop(w) /\ Trouble /\ attempts' \in [ScheduledPost -> Nat]
      /\ UNCHANGED <<post, mark, direct, seen, onPage, misread, relapsed>>
  BY DEF Dies, PInv, PostsTypeOK, postRows, postDirect
<1>2. CASE pub[w] \in AtWork
  BY <1>1, <1>2, BreaksOffPInv
<1>3. CASE pub[w] \notin AtWork
  <2>1. excused' = excused
    BY <1>1, <1>3 DEF Unrecorded, AtWork, Answers
  <2>2. PostsTypeOK' /\ ByPublisher(w) /\ pub'[w] = "idle"
    BY <1>1, <2>1, StopLeaves, TroubleType DEF PInv, PostsTypeOK, ByPublisher
  <2>3. \A p \in ScheduledPost : PostStays(p) /\ held'[w][p] \in {held[w][p], "absent"}
    BY <1>1, <2>1, StopLeaves DEF PInv, PostStays
  <2>4. pub'[w] \notin AtWork
    BY <2>2 DEF AtWork, Answers
  <2> QED BY <1>3, <2>2, <2>3, <2>4, RestingStep
<1> QED BY <1>2, <1>3

LEMMA PublishPInv == ASSUME PInv, NEW w \in Publishers, Publish(w) PROVE PInv'
BY RecoverPostsPInv, ScanPostsPInv, EndRunPInv, ClaimPostPInv, PassOverPInv, NoConnectedPagePInv,
   CallPagePInv, SweepSettlesPInv, EngineSucceedsPInv, EngineFailsPInv, EngineGivesUpPInv DEF Publish

LEMMA PostsNextPInv == PInv /\ [PostsNext]_postVars => PInv'
<1> SUFFICES ASSUME PInv, [PostsNext]_postVars PROVE PInv'
  OBVIOUS
<1>1. ASSUME NEW p \in ScheduledPost,
             Schedule(p) \/ DeletePost(p) \/ MarkAges(p) \/ MarkAgesUnderSlow(p) \/ SettleDirectly(p)
      PROVE  PInv'
  BY <1>1, SchedulePInv, DeletePostPInv, MarkAgesPInv, SettleDirectlyPInv
<1>2. ASSUME NEW p \in ScheduledPost, NEW st \in {"draft", "scheduled"}, EditStatus(p, st) PROVE PInv'
  BY <1>2, EditStatusPInv
<1>3. ASSUME NEW p \in ScheduledPost, NEW answer \in Answers, CallDirectly(p, answer) PROVE PInv'
  BY <1>3, CallDirectlyPInv
<1>4. ASSUME NEW w \in Publishers, FindStuck(w) \/ RecoveryRaises(w) \/ Publish(w) \/ SweepRaises(w) \/ Dies(w)
      PROVE  PInv'
  BY <1>4, FindStuckPInv, RecoveryRaisesPInv, PublishPInv, SweepRaisesPInv, DiesPInv
<1>5. ASSUME NEW w \in Publishers, EngineRaises(w) PROVE PInv'
  <2>1. attempts' \in [ScheduledPost -> Nat]
    BY <1>5 DEF EngineRaises, PInv, PostsTypeOK
  <2> QED BY <1>5, <2>1, BreaksOffPInv DEF EngineRaises, postRows, postDirect
<1>6. ASSUME NEW w \in Publishers, NEW p \in ScheduledPost, PublishNow(w, p) PROVE PInv'
  BY <1>6, PublishNowPInv
<1>7. CASE UNCHANGED postVars
  <2>1. UNCHANGED <<post, mark, attempts, pub, list, held, direct, seen, onPage, excused, misread, relapsed, troubles>>
    BY <1>7 DEF postVars, postRows, postWork, postDirect, postHistory
  <2>2. PostsTypeOK' /\ AtHandIsListed'
    BY <2>1 DEF PInv, PostsTypeOK, AtHandIsListed
  <2>3. ASSUME NEW p \in ScheduledPost PROVE PostOK(p)'
    <3>1. \A v \in Publishers : HoldsPost(v, p)' <=> HoldsPost(v, p)
      BY <2>1, SamePost
    <3>2. Open(p)' = Open(p) /\ Held(p)' = Held(p)
      BY <2>1, <3>1 DEF Open, Held
    <3>3. Opens(p)' = Opens(p) /\ Slot(p)' = Slot(p)
      BY <2>1, <3>2 DEF Opens, Slot
    <3>4. PostOK(p)
      BY DEF PInv
    <3> QED BY <2>1, <3>1, <3>2, <3>3, <3>4 DEF PostOK
  <2> QED BY <2>2, <2>3 DEF PInv
<1> QED BY <1>1, <1>2, <1>3, <1>4, <1>5, <1>6, <1>7 DEF PostsNext

(* A post is on the page once, and once more only for each reason there is;  *)
(* its claim is marked, and what shows as published is there: for every      *)
(* number of posts, sweeps and calendars at work on them                     *)
(* (claim_scheduled_post, release_scheduled_post, recover_stale_publishing). *)
THEOREM PostsPublishedOnce == PostsSpec => []PostsInv
<1>1. PInv /\ [PostsNext]_postVars => PInv'
  BY PostsNextPInv
<1> QED BY PostsInitPInv, <1>1, PInvImplies, PTL DEF PostsSpec

-----------------------------------------------------------------------------
(* What a step may do to a post that is published once and for all.        *)

Final(p) == post[p] = "published" /\ excused'[p] = 0 /\ p \notin misread'
Stays(p) == post'[p] \in {"published", "deleted"} /\ onPage'[p] = onPage[p]

\* A step that puts nothing on the page and gives no published post another status.
LEMMA UntouchedStays ==
    ASSUME NEW p \in ScheduledPost, Final(p), onPage' = onPage,
           post'[p] \in {post[p], "published", "deleted"}
    PROVE  Stays(p)
BY DEF Final, Stays

\* Nobody who may still publish it, or give it up, is at such a post.
LEMMA NobodyIsOpen ==
    ASSUME PInv, NEW p \in ScheduledPost, post[p] = "published", excused[p] = 0, p \notin misread,
           NEW w \in Publishers, HoldsPost(w, p)
    PROVE  pub[w] = "accepted"
<1>1. /\ IsFiniteSet(Open(p)) /\ onPage[p] + Opens(p) + Slot(p) <= 1 + excused[p]
      /\ onPage[p] > 0
  BY DEF PInv, PostOK
<1>2. onPage[p] \in Nat /\ Opens(p) \in Nat /\ Slot(p) \in {0, 1}
  BY <1>1, CountsAreNat DEF PInv
<1>3. Cardinality(Open(p)) = 0
  BY <1>1, <1>2 DEF Opens
<1>4. Open(p) = {}
  BY <1>1, <1>3, FS_EmptySet
<1> QED BY <1>4 DEF Open

\* The rows of posts, written by one step at a time.
LEMMA WritesStay ==
    ASSUME PInv, NEW p \in ScheduledPost, Final(p), NEW x \in ScheduledPost,
           Schedule(x) \/ DeletePost(x) \/ MarkAges(x) \/ MarkAgesUnderSlow(x) \/ SettleDirectly(x)
    PROVE  Stays(p)
<1>1. onPage' = onPage
  BY DEF Schedule, DeletePost, MarkAges, MarkAgesUnderSlow, SettleDirectly, postHistory
<1>2. post'[p] \in {post[p], "published", "deleted"}
  BY DEF Final, PInv, PostsTypeOK, Schedule, DeletePost, MarkAges, MarkAgesUnderSlow, SettleDirectly, SetPost
<1> QED BY <1>1, <1>2, UntouchedStays

LEMMA EditOrCallStays ==
    ASSUME PInv, NEW p \in ScheduledPost, Final(p), NEW x \in ScheduledPost,
           \/ \E st \in {"draft", "scheduled"} : EditStatus(x, st)
           \/ \E answer \in Answers : CallDirectly(x, answer)
    PROVE  Stays(p)
<1>1. onPage \in [ScheduledPost -> Nat] /\ excused \in [ScheduledPost -> Nat] /\ post[p] = "published"
  BY DEF PInv, PostsTypeOK, Final
<1>2. ASSUME NEW st \in {"draft", "scheduled"}, EditStatus(x, st) PROVE Stays(p)
  <2>1. x # p
    BY <1>1, <1>2 DEF EditStatus, Excuse, Final
  <2>2. post'[p] = post[p] /\ onPage' = onPage
    BY <1>2, <2>1 DEF EditStatus, SetPost, PInv, PostsTypeOK
  <2> QED BY <2>2, UntouchedStays
<1>3. ASSUME NEW answer \in Answers, CallDirectly(x, answer) PROVE Stays(p)
  <2>1. PICK lost \in 0 .. MaxTroubles - troubles - 1, new \in {0, 1} :
            /\ onPage' = [onPage EXCEPT ![x] = @ + lost + new]
            /\ excused' = [excused EXCEPT ![x] = @ + lost + 1]
    BY <1>3 DEF CallDirectly, Called
  <2>2. lost \in Nat
    BY <2>1, MaxTroublesAssumption DEF PInv, PostsTypeOK
  <2>3. x # p
    BY <1>1, <2>1, <2>2 DEF Final
  <2> QED BY <1>1, <1>3, <2>1, <2>3 DEF CallDirectly, postRows, Stays
<1> QED BY <1>2, <1>3

\* What a publisher does besides calling the page and recording a failure.
LEMMA PublisherStays ==
    ASSUME PInv, NEW p \in ScheduledPost, Final(p), NEW w \in Publishers,
           \/ FindStuck(w) \/ RecoveryRaises(w) \/ EndRun(w) \/ PassOver(w)
           \/ RecoverPosts(w) \/ ClaimPost(w) \/ NoConnectedPage(w) \/ EngineSucceeds(w) \/ EngineFails(w)
           \/ \E found \in SUBSET ScheduledPost : ScanPosts(w, found)
           \/ \E x \in ScheduledPost : PublishNow(w, x)
           \/ SweepRaises(w) \/ EngineRaises(w) \/ Dies(w)
    PROVE  Stays(p)
<1>1. onPage' = onPage
  BY DEF FindStuck, RecoveryRaises, EndRun, PassOver, RecoverPosts, ClaimPost, NoConnectedPage, EngineSucceeds,
         EngineFails, ScanPosts, PublishNow, SweepRaises, EngineRaises, Dies, postHistory
<1>2. post[p] = "published" /\ post \in [ScheduledPost -> PostStates]
  BY DEF Final, PInv, PostsTypeOK
<1>3. CASE FindStuck(w) \/ RecoveryRaises(w) \/ EndRun(w) \/ PassOver(w) \/ EngineRaises(w) \/ Dies(w)
           \/ (\E found \in SUBSET ScheduledPost : ScanPosts(w, found))
           \/ (\E x \in ScheduledPost : PublishNow(w, x))
  <2>1. post' = post
    BY <1>3 DEF FindStuck, RecoveryRaises, EndRun, PassOver, EngineRaises, Dies, ScanPosts, PublishNow, postRows
  <2> QED BY <1>1, <2>1, UntouchedStays
<1>4. CASE RecoverPosts(w)
  <2>1. post'[p] = post[p]
    BY <1>2, <1>4 DEF RecoverPosts
  <2> QED BY <1>1, <2>1, UntouchedStays
<1>5. CASE ClaimPost(w)
  <2>1. post'[p] = post[p]
    BY <1>2, <1>5 DEF ClaimPost, CanClaim, ClaimableBy, SetPost
  <2> QED BY <1>1, <2>1, UntouchedStays
<1>6. CASE NoConnectedPage(w) \/ EngineFails(w) \/ SweepRaises(w)
  <2>1. \E x, st : ReleaseTo(x, st) \/ UNCHANGED postRows
    BY <1>6 DEF NoConnectedPage, EngineFails, SweepRaises
  <2>2. post'[p] = post[p]
    BY <1>2, <2>1 DEF ReleaseTo, SetPost, postRows
  <2> QED BY <1>1, <2>2, UntouchedStays
<1>7. CASE EngineSucceeds(w)
  <2>1. post'[p] \in {post[p], "published"}
    BY <1>2, <1>7 DEF EngineSucceeds, SetPost, postRows
  <2> QED BY <1>1, <2>1, UntouchedStays
<1> QED BY <1>3, <1>4, <1>5, <1>6, <1>7

\* A call, or a failure recorded, is of a post that somebody is open at.
LEMMA HolderStays ==
    ASSUME PInv, NEW p \in ScheduledPost, Final(p), NEW w \in Publishers,
           SweepSettles(w) \/ EngineGivesUp(w) \/ \E answer \in Answers : CallPage(w, answer)
    PROVE  Stays(p)
<1>1. /\ onPage \in [ScheduledPost -> Nat] /\ excused \in [ScheduledPost -> Nat]
      /\ post \in [ScheduledPost -> PostStates] /\ post[p] = "published"
  BY DEF PInv, PostsTypeOK, Final
<1>2. pub[w] \in AtWork
  BY DEF SweepSettles, EngineGivesUp, CallPage, AtWork, Answers
<1>3. PICK x \in ScheduledPost : x = PostAtHand(w) /\ HoldsPost(w, x)
  BY <1>2, WorkerHolds
<1>4. ASSUME excused[p] = 0, p \notin misread, x = p PROVE pub[w] = "accepted"
  BY <1>1, <1>3, <1>4, NobodyIsOpen
<1>5. CASE SweepSettles(w)
  <2>1. onPage' = onPage /\ excused' = excused /\ misread' = misread
    BY <1>5 DEF SweepSettles, postHistory
  <2>2. post' = [post EXCEPT ![x] = IF pub[w] = "accepted" THEN "published" ELSE "failed"] \/ post' = post
    BY <1>3, <1>5 DEF SweepSettles, SetPost, postRows
  <2>3. x = p => pub[w] = "accepted"
    BY <1>4, <2>1 DEF Final
  <2>4. post'[p] \in {post[p], "published", "deleted"}
    BY <1>1, <2>2, <2>3
  <2> QED BY <2>1, <2>4, UntouchedStays
<1>6. CASE EngineGivesUp(w)
  <2>1. onPage' = onPage /\ excused' = excused /\ misread' = misread /\ pub[w] = "lost"
    BY <1>6 DEF EngineGivesUp, postHistory
  <2>2. post' = [post EXCEPT ![x] = "failed"] \/ post' = post
    BY <1>3, <1>6 DEF EngineGivesUp, SetPost, postRows
  <2>3. x # p
    BY <1>4, <2>1 DEF Final
  <2>4. post'[p] \in {post[p], "published", "deleted"}
    BY <1>1, <2>2, <2>3
  <2> QED BY <2>1, <2>4, UntouchedStays
<1>7. ASSUME NEW answer \in Answers, CallPage(w, answer) PROVE Stays(p)
  <2>1. /\ pub[w] = "claimed" /\ post' = post /\ misread' = misread
        /\ Called(x, answer, 0)
    BY <1>3, <1>7 DEF CallPage, postRows
  <2>2. PICK lost \in 0 .. MaxTroubles - troubles - 0 :
          /\ onPage' = [onPage EXCEPT ![x] = @ + lost + (IF answer = "accepted" THEN 1 ELSE 0)]
          /\ excused' = [excused EXCEPT ![x] = @ + lost + 0]
    BY <2>1 DEF Called
  <2>3. lost \in Nat
    BY <2>2, MaxTroublesAssumption DEF PInv, PostsTypeOK
  <2>4. ASSUME x = p PROVE FALSE
    <3>1. excused'[p] = excused[p] + lost + 0 /\ excused[p] \in Nat /\ excused'[p] = 0
      BY <1>1, <2>2, <2>4 DEF Final
    <3>2. excused[p] = 0
      BY <2>3, <3>1
    <3> QED BY <1>4, <2>1, <2>4, <3>2 DEF Final
  <2>5. onPage'[p] = onPage[p] /\ post'[p] = "published"
    BY <1>1, <2>1, <2>2, <2>4
  <2> QED BY <2>5 DEF Stays
<1> QED BY <1>5, <1>6, <1>7

LEMMA PostsNextStays ==
    ASSUME PInv, PostsNext, NEW p \in ScheduledPost, Final(p)
    PROVE  Stays(p)
<1>1. ASSUME NEW x \in ScheduledPost,
             Schedule(x) \/ DeletePost(x) \/ MarkAges(x) \/ MarkAgesUnderSlow(x) \/ SettleDirectly(x)
      PROVE  Stays(p)
  BY <1>1, WritesStay
<1>2. ASSUME NEW x \in ScheduledPost, NEW st \in {"draft", "scheduled"}, EditStatus(x, st) PROVE Stays(p)
  BY <1>2, EditOrCallStays
<1>3. ASSUME NEW x \in ScheduledPost, NEW answer \in Answers, CallDirectly(x, answer) PROVE Stays(p)
  BY <1>3, EditOrCallStays
<1>4. ASSUME NEW w \in Publishers,
             FindStuck(w) \/ RecoveryRaises(w) \/ SweepRaises(w) \/ EngineRaises(w) \/ Dies(w)
      PROVE  Stays(p)
  BY <1>4, PublisherStays
<1>5. ASSUME NEW w \in Publishers, Publish(w) PROVE Stays(p)
  <2>1. CASE SweepSettles(w) \/ EngineGivesUp(w) \/ \E answer \in Answers : CallPage(w, answer)
    BY <2>1, HolderStays
  <2>2. CASE ~(SweepSettles(w) \/ EngineGivesUp(w) \/ \E answer \in Answers : CallPage(w, answer))
    BY <1>5, <2>2, PublisherStays DEF Publish
  <2> QED BY <2>1, <2>2
<1>6. ASSUME NEW w \in Publishers, NEW x \in ScheduledPost, PublishNow(w, x) PROVE Stays(p)
  BY <1>6, PublisherStays
<1> QED BY <1>1, <1>2, <1>3, <1>4, <1>5, <1>6 DEF PostsNext

(* A published post is neither published again nor taken for another, for   *)
(* every number of posts, sweeps and calendars: whoever still holds it has  *)
(* an answer that Facebook accepted (_publish_scheduled_post, publish_post, *)
(* _mark_failed, the posts page's publish).                                 *)
THEOREM PublishedOnceAndForAll == PostsSpec => PublishedStays
<1>1. PInv /\ [PostsNext]_postVars => PInv'
  BY PostsNextPInv
<1>2. PInv /\ [PostsNext]_postVars =>
        [\A p \in ScheduledPost \ misread' : post[p] = "published" /\ excused'[p] = 0 =>
            /\ post'[p] \in {"published", "deleted"}
            /\ onPage'[p] = onPage[p]]_postVars
  BY PostsNextStays DEF Final, Stays
<1> QED BY PostsInitPInv, <1>1, <1>2, PTL DEF PostsSpec, PublishedStays
=============================================================================
