--------------------------- MODULE LearnerProofs ---------------------------
(***************************************************************************)
(* Proofs about the learner's two modules, for every number of nodes,      *)
(* questions, levels, events and learners.                                 *)
(*                                                                         *)
(* LearnerSession: what every copy of a session says of a learner's        *)
(* mastery and reviews, whichever threads, resets, failed saves and        *)
(* restarts it went through.  The claims are about one copy at a time, so  *)
(* the proofs take a session as a value: a change of it keeps it sound     *)
(* (ChangesKeepSessionsSound), and a step leaves only copies that were     *)
(* there, fresh ones and changed ones (StepsChangeCopies).                 *)
(*                                                                         *)
(* LearningJourney: the cold start of a profile, the path and the numbers  *)
(* of an answer.  The state of a cold start and the state of a learner are *)
(* values of their own too (ColdSound, AgentSound).                        *)
(***************************************************************************)
EXTENDS LearnerSession, LearningJourney, FiniteSetTheorems, SequenceTheorems,
        WellFoundedInduction, TLAPS

-----------------------------------------------------------------------------
(* One session as a value *)

\* What LearnerTypeOK says of a copy, and that a quiz asks something.
Shaped(s) ==
    /\ s \in SessionType
    /\ \A n \in Nodes : /\ s.quiz[n].rev <= budget.revision
                        /\ s.quiz[n].rev > 0 => s.quiz[n].asks # {}
    /\ Len(s.events) <= budget.events /\ Len(s.receipts) <= budget.receipts

\* Evidence that has moved mastery is remembered as used.
EvidenceIsSpent(s) ==
    \A k \in 1 .. Len(s.attributions) :
        LET why == s.attributions[k].why
        IN /\ why[1] = "quiz" => <<why[2], why[3]>> \in s.consumed
           /\ why[1] = "code" => why[2] \in s.credited

CountsOnce(s) ==
    \A a, b \in DOMAIN s.attributions :
        LET x == s.attributions[a].why
            y == s.attributions[b].why
        IN a # b => x # y /\ ~(x[1] = "code" /\ y[1] = "code" /\ x[2] = y[2])

WasProven(s) ==
    \A i \in ItemIds :
        s.items[i].status = "completed" =>
            \E k \in Verdicts(s, i) :
                i[2] \in s.events[k].right /\ \A l \in Verdicts(s, i) : l <= k

Sound(s) ==
    /\ Shaped(s)
    /\ \A n \in Nodes : Chain(s, n)
    /\ EvidenceIsSpent(s)
    /\ CountsOnce(s)
    /\ WasProven(s)

\* What a change may do to mastery: move one node, with an attribution to
\* evidence that was not used before and is now.
Moves(o, s, n, why) ==
    \E after \in 0 .. Top :
        \/ s.mastery = o.mastery /\ s.attributions = o.attributions
        \/ /\ s.mastery = [o.mastery EXCEPT ![n] = after]
           /\ s.attributions = Append(o.attributions,
                 [node |-> n, before |-> o.mastery[n], after |-> after, why |-> why])

EvidenceMoves(o, s) ==
    \/ /\ s.mastery = o.mastery /\ s.attributions = o.attributions
       /\ s.consumed = o.consumed /\ s.credited = o.credited
    \/ \E n \in Nodes, rev \in Nat :
          /\ <<n, rev>> \notin o.consumed
          /\ s.consumed = o.consumed \cup {<<n, rev>>} /\ s.credited = o.credited
          /\ Moves(o, s, n, <<"quiz", n, rev>>)
    \/ \E n \in Nodes, r \in Nat :
          /\ n \notin o.credited
          /\ s.consumed = o.consumed /\ s.credited = o.credited \cup {n}
          /\ Moves(o, s, n, <<"code", n, r>>)

\* What a change may do to reviews: close an item only by a verdict that says
\* its answer is right, and never add a verdict that says otherwise beside a
\* closed item.
Concerns(e, i) == e.kind # "answer_submitted" /\ e.node = i[1] /\ i[2] \in e.asked
VerdictsMove(o, s) ==
    \/ /\ s.events = o.events
       /\ \A i \in ItemIds : s.items[i].status = "completed" => o.items[i].status = "completed"
    \/ \E e \in EventType :
          /\ s.events = Append(o.events, e)
          /\ \A i \in ItemIds : s.items[i].status = "completed" =>
                IF Concerns(e, i) THEN i[2] \in e.right ELSE o.items[i].status = "completed"

Changes(o, s) == Shaped(s) /\ EvidenceMoves(o, s) /\ VerdictsMove(o, s)

LEMMA SessionFields ==
    ASSUME NEW s \in SessionType
    PROVE  /\ s.mastery \in [Nodes -> 0 .. Top]
           /\ s.quiz \in [Nodes -> [rev : Nat, says : Nat, asks : SUBSET Questions,
                                    template : BOOLEAN]]
           /\ s.cards \in SUBSET (Nodes \X Supporting)
           /\ s.consumed \in SUBSET (Nodes \X Nat)
           /\ s.events \in Seq(EventType)
           /\ s.attributions \in Seq(AttributionType)
           /\ s.receipts \in Seq([node : Nodes, verdict : Receipts, spentOn : Nat])
           /\ s.credited \in SUBSET Nodes
           /\ s.items \in [ItemIds -> ItemType]
  BY DEF SessionType

\* The level a chain leaves is moved on by an attribution to its node.
LEMMA ChainsGrow ==
    ASSUME NEW o \in SessionType, NEW s \in SessionType, NEW n \in Nodes, NEW m \in Nodes,
           NEW after \in 0 .. Top, NEW why,
           Chain(o, m),
           s.mastery = [o.mastery EXCEPT ![n] = after],
           s.attributions = Append(o.attributions,
              [node |-> n, before |-> o.mastery[n], after |-> after, why |-> why])
    PROVE  Chain(s, m)
<1> DEFINE len == Len(o.attributions)
           new == [node |-> n, before |-> o.mastery[n], after |-> after, why |-> why]
<1>1. o.attributions \in Seq(AttributionType) /\ len \in Nat
      /\ o.mastery \in [Nodes -> 0 .. Top]
  BY SessionFields, LenProperties
<1>2. /\ Len(s.attributions) = len + 1
      /\ s.attributions[len + 1] = new
      /\ \A k \in 1 .. len : s.attributions[k] = o.attributions[k]
  BY <1>1
<1>3. \A k \in 1 .. len + 1 : \A level :
        Leaves(o, m, k, level) <=> Leaves(s, m, k, level)
  <2>1. TAKE k \in 1 .. len + 1
  <2>2. TAKE level
  <2>3. \A l \in 1 .. k - 1 : s.attributions[l] = o.attributions[l]
    BY <1>1, <1>2
  <2>4. \A q \in 1 .. k - 1 : \A l \in q + 1 .. k - 1 : s.attributions[l] = o.attributions[l]
    BY <1>1, <2>3
  <2>5. QED
    BY SMTT(30), <2>3, <2>4 DEF Leaves
<1>4. \A k \in 1 .. len :
        s.attributions[k].node = m => Leaves(s, m, k, s.attributions[k].before)
  <2>1. \A k \in 1 .. len :
          o.attributions[k].node = m => Leaves(o, m, k, o.attributions[k].before)
    BY DEF Chain
  <2>2. \A k \in 1 .. len : k \in 1 .. len + 1
    BY <1>1
  <2> HIDE DEF len
  <2>3. QED
    BY <1>2, <1>3, <2>1, <2>2
<1>5. Leaves(s, m, len + 1, o.mastery[m])
  <2>1. Leaves(o, m, len + 1, o.mastery[m])
    BY DEF Chain
  <2> HIDE DEF len
  <2>2. len + 1 \in 1 .. len + 1
    BY <1>1
  <2>3. QED
    BY <1>3, <2>1, <2>2
<1>6. s.attributions[len + 1].node = m =>
        Leaves(s, m, len + 1, s.attributions[len + 1].before)
  BY <1>2, <1>5
<1>7. Leaves(s, m, len + 2, s.mastery[m])
  <2>1. CASE m = n
    <3>1. s.mastery[m] = after
      BY <1>1, <2>1
    <3>2. len + 1 \in 1 .. (len + 2) - 1 /\ s.attributions[len + 1].node = m
          /\ s.attributions[len + 1].after = after
          /\ \A l \in (len + 1) + 1 .. (len + 2) - 1 : s.attributions[l].node # m
      BY <1>1, <1>2, <2>1
    <3>3. QED
      BY <3>1, <3>2 DEF Leaves
  <2>2. CASE m # n
    <3>1. s.mastery[m] = o.mastery[m]
      BY <1>1, <2>2
    <3>2. s.attributions[len + 1].node # m
      BY <1>2, <2>2
    <3>3. CASE o.mastery[m] = 0 /\ \A k \in 1 .. (len + 1) - 1 : s.attributions[k].node # m
      BY <1>1, <3>1, <3>2, <3>3 DEF Leaves
    <3>4. CASE \E k \in 1 .. (len + 1) - 1 :
                 /\ s.attributions[k].node = m /\ s.attributions[k].after = o.mastery[m]
                 /\ \A l \in k + 1 .. (len + 1) - 1 : s.attributions[l].node # m
      <4>1. PICK k \in 1 .. len :
                 /\ s.attributions[k].node = m /\ s.attributions[k].after = o.mastery[m]
                 /\ \A l \in k + 1 .. len : s.attributions[l].node # m
        <5>1. (len + 1) - 1 = len
          BY <1>1
        <5>2. QED
          BY <3>4, <5>1
      <4>2. k \in 1 .. (len + 2) - 1
            /\ \A l \in k + 1 .. (len + 2) - 1 : s.attributions[l].node # m
        BY <1>1, <3>2, <4>1
      <4>3. QED
        BY <3>1, <4>1, <4>2 DEF Leaves
    <3>5. QED
      BY <1>5, <3>3, <3>4 DEF Leaves
  <2>3. QED
    BY <2>1, <2>2
<1>8. \A k \in 1 .. len + 1 :
        s.attributions[k].node = m => Leaves(s, m, k, s.attributions[k].before)
  BY <1>1, <1>4, <1>6
<1>9. (len + 1) + 1 = len + 2
  BY <1>1
<1>10. QED
  BY <1>2, <1>7, <1>8, <1>9 DEF Chain

\* What one attribution more does to the evidence: its reason is a new one.
LEMMA EvidenceGrows ==
    ASSUME NEW o \in SessionType, NEW s \in SessionType, NEW n \in Nodes, NEW why,
           EvidenceIsSpent(o), CountsOnce(o), \A m \in Nodes : Chain(o, m),
           Moves(o, s, n, why),
           o.consumed \subseteq s.consumed, o.credited \subseteq s.credited,
           why[1] = "quiz" => <<why[2], why[3]>> \in s.consumed \ o.consumed,
           why[1] = "code" => why[2] \in s.credited \ o.credited,
           why[1] \in {"quiz", "code"}
    PROVE  EvidenceIsSpent(s) /\ CountsOnce(s) /\ \A m \in Nodes : Chain(s, m)
<1> DEFINE len == Len(o.attributions)
<1>1. o.attributions \in Seq(AttributionType) /\ s.attributions \in Seq(AttributionType)
      /\ len \in Nat
  BY SessionFields, LenProperties
<1>2. CASE s.mastery = o.mastery /\ s.attributions = o.attributions
  <2>1. EvidenceIsSpent(s)
    <3>1. \A x \in o.consumed : x \in s.consumed
      OBVIOUS
    <3>2. \A x \in o.credited : x \in s.credited
      OBVIOUS
    <3>3. QED
      BY <1>2, <3>1, <3>2 DEF EvidenceIsSpent
  <2>2. CountsOnce(s)
    BY <1>2 DEF CountsOnce
  <2>3. \A m \in Nodes : Chain(s, m)
    BY SMTT(30), <1>2 DEF Chain, Leaves
  <2>4. QED
    BY <2>1, <2>2, <2>3
<1>3. ASSUME NEW after \in 0 .. Top,
             s.mastery = [o.mastery EXCEPT ![n] = after],
             s.attributions = Append(o.attributions,
                [node |-> n, before |-> o.mastery[n], after |-> after, why |-> why])
      PROVE  EvidenceIsSpent(s) /\ CountsOnce(s) /\ \A m \in Nodes : Chain(s, m)
  <2> DEFINE new == [node |-> n, before |-> o.mastery[n], after |-> after, why |-> why]
  <2>1. /\ Len(s.attributions) = len + 1
        /\ s.attributions[len + 1].why = why
        /\ \A k \in 1 .. len : s.attributions[k] = o.attributions[k]
    <3>1. new \in AttributionType
      BY <1>1, <1>3, ElementOfSeq
    <3>2. QED
      BY <1>1, <1>3, <3>1
  <2>2. /\ DOMAIN s.attributions = 1 .. len + 1 /\ DOMAIN o.attributions = 1 .. len
    BY <1>1, <2>1
  <2>3. \A m \in Nodes : Chain(s, m)
    BY <1>3, ChainsGrow
  <2>4. EvidenceIsSpent(s)
    <3> SUFFICES ASSUME NEW k \in 1 .. len + 1
                 PROVE  LET y == s.attributions[k].why
                        IN /\ y[1] = "quiz" => <<y[2], y[3]>> \in s.consumed
                           /\ y[1] = "code" => y[2] \in s.credited
      BY <2>1 DEF EvidenceIsSpent
    <3>1. CASE k \in 1 .. len
      BY <2>1, <3>1 DEF EvidenceIsSpent
    <3>2. CASE k = len + 1
      BY <2>1, <3>2
    <3>3. QED
      BY <1>1, <3>1, <3>2
  <2>5. \A k \in 1 .. len :
          LET x == o.attributions[k].why
          IN x # why /\ ~(x[1] = "code" /\ why[1] = "code" /\ x[2] = why[2])
    BY <1>1 DEF EvidenceIsSpent
  <2>6. CountsOnce(s)
    <3> SUFFICES ASSUME NEW a \in 1 .. len + 1, NEW b \in 1 .. len + 1, a # b
                 PROVE  LET x == s.attributions[a].why
                            y == s.attributions[b].why
                        IN x # y /\ ~(x[1] = "code" /\ y[1] = "code" /\ x[2] = y[2])
      BY <2>2 DEF CountsOnce
    <3>2. CASE a \in 1 .. len /\ b \in 1 .. len
      <4>1. LET x == o.attributions[a].why
                y == o.attributions[b].why
            IN x # y /\ ~(x[1] = "code" /\ y[1] = "code" /\ x[2] = y[2])
        BY <2>2, <3>2 DEF CountsOnce
      <4>2. s.attributions[a] = o.attributions[a] /\ s.attributions[b] = o.attributions[b]
        BY <2>1, <3>2
      <4>3. QED
        BY <4>1, <4>2
    <3>3. CASE a = len + 1
      <4>1. b \in 1 .. len
        BY <1>1, <3>3
      <4>2. QED
        BY <2>1, <2>5, <3>3, <4>1
    <3>4. CASE b = len + 1
      <4>1. a \in 1 .. len
        BY <1>1, <3>4
      <4>2. QED
        BY <2>1, <2>5, <3>4, <4>1
    <3>5. QED
      BY SMTT(30), <1>1, <3>2, <3>3, <3>4
  <2>7. QED
    BY <2>3, <2>4, <2>6
<1>4. QED
  BY <1>2, <1>3 DEF Moves

\* A verdict more keeps closed items proven.
LEMMA VerdictsKeepProofs ==
    ASSUME NEW o \in SessionType, NEW s \in SessionType, WasProven(o), VerdictsMove(o, s)
    PROVE  WasProven(s)
<1> DEFINE len == Len(o.events)
<1>1. o.events \in Seq(EventType) /\ len \in Nat
  BY SessionFields, LenProperties
<1>2. CASE /\ s.events = o.events
           /\ \A i \in ItemIds : s.items[i].status = "completed" => o.items[i].status = "completed"
  BY <1>2 DEF WasProven, Verdicts
<1>3. ASSUME NEW e \in EventType, s.events = Append(o.events, e),
             NEW i \in ItemIds, s.items[i].status = "completed",
             IF Concerns(e, i) THEN i[2] \in e.right ELSE o.items[i].status = "completed"
      PROVE  \E k \in Verdicts(s, i) :
                i[2] \in s.events[k].right /\ \A l \in Verdicts(s, i) : l <= k
  <2>1. /\ DOMAIN s.events = 1 .. len + 1 /\ DOMAIN o.events = 1 .. len
        /\ s.events[len + 1] = e
        /\ \A k \in 1 .. len : s.events[k] = o.events[k]
    BY <1>1, <1>3
  <2>2. CASE Concerns(e, i)
    <3>1. len + 1 \in Verdicts(s, i)
      BY <1>1, <2>1, <2>2 DEF Verdicts, Concerns
    <3>2. \A l \in Verdicts(s, i) : l <= len + 1
      BY <1>1, <2>1 DEF Verdicts
    <3>3. QED
      BY <1>3, <2>1, <2>2, <3>1, <3>2
  <2>3. CASE ~Concerns(e, i)
    <3>1. len + 1 \notin Verdicts(s, i)
      BY <1>1, <2>1, <2>3 DEF Verdicts, Concerns
    <3>2. \A k \in 1 .. len : k \in Verdicts(s, i) <=> k \in Verdicts(o, i)
      BY <1>1, <2>1 DEF Verdicts
    <3>3. Verdicts(s, i) = Verdicts(o, i)
      BY SMTT(30), <1>1, <2>1, <3>1, <3>2 DEF Verdicts
    <3>4. PICK k \in Verdicts(o, i) :
            i[2] \in o.events[k].right /\ \A l \in Verdicts(o, i) : l <= k
      BY <1>3, <2>3 DEF WasProven
    <3>5. k \in 1 .. len
      BY <2>1, <3>4 DEF Verdicts
    <3>6. QED
      BY <2>1, <3>3, <3>4, <3>5
  <2>4. QED
    BY <2>2, <2>3
<1>4. QED
  BY <1>2, <1>3 DEF VerdictsMove, WasProven

LEMMA ChangesKeepSessionsSound ==
    ASSUME NEW o, NEW s, Sound(o), Changes(o, s)
    PROVE  Sound(s)
<1>1. o \in SessionType /\ s \in SessionType /\ Shaped(s)
  BY DEF Sound, Shaped, Changes
<1>2. WasProven(s)
  BY <1>1, VerdictsKeepProofs DEF Sound, Changes
<1>3. EvidenceIsSpent(s) /\ CountsOnce(s) /\ \A m \in Nodes : Chain(s, m)
  <2>1. CASE /\ s.mastery = o.mastery /\ s.attributions = o.attributions
             /\ s.consumed = o.consumed /\ s.credited = o.credited
    <3>1. EvidenceIsSpent(s)
      BY <2>1 DEF Sound, EvidenceIsSpent
    <3>2. CountsOnce(s)
      BY <2>1 DEF Sound, CountsOnce
    <3>3. \A m \in Nodes : Chain(s, m)
      BY <2>1 DEF Sound, Chain, Leaves
    <3>4. QED
      BY <3>1, <3>2, <3>3
  <2>2. ASSUME NEW n \in Nodes, NEW rev \in Nat,
               <<n, rev>> \notin o.consumed,
               s.consumed = o.consumed \cup {<<n, rev>>}, s.credited = o.credited,
               Moves(o, s, n, <<"quiz", n, rev>>)
        PROVE  EvidenceIsSpent(s) /\ CountsOnce(s) /\ \A m \in Nodes : Chain(s, m)
    <3> DEFINE why == <<"quiz", n, rev>>
    <3>1. why[1] = "quiz" /\ why[2] = n /\ why[3] = rev
      OBVIOUS
    <3>2. Moves(o, s, n, why)
      BY <2>2
    <3> HIDE DEF why
    <3>3. QED
      BY <1>1, <2>2, <3>1, <3>2, EvidenceGrows DEF Sound
  <2>3. ASSUME NEW n \in Nodes, NEW r \in Nat,
               n \notin o.credited,
               s.consumed = o.consumed, s.credited = o.credited \cup {n},
               Moves(o, s, n, <<"code", n, r>>)
        PROVE  EvidenceIsSpent(s) /\ CountsOnce(s) /\ \A m \in Nodes : Chain(s, m)
    <3> DEFINE why == <<"code", n, r>>
    <3>1. why[1] = "code" /\ why[2] = n /\ why[3] = r
      OBVIOUS
    <3>2. Moves(o, s, n, why)
      BY <2>3
    <3> HIDE DEF why
    <3>3. QED
      BY <1>1, <2>3, <3>1, <3>2, EvidenceGrows DEF Sound
  <2>4. QED
    BY <2>1, <2>2, <2>3 DEF Changes, EvidenceMoves
<1>4. QED
  BY <1>1, <1>2, <1>3 DEF Sound

-----------------------------------------------------------------------------
(* What the handlers and the threads make of a session *)

LEMMA FreshSessionsAreSound == ASSUME budget \in BudgetType PROVE Sound(FreshSession)
<1> USE DEF FreshSession
<1>1. NoItem \in ItemType /\ NoItem.status # "completed"
  BY ReviewAssumption DEF NoItem, ItemType
<1>2. NoQuiz \in [rev : Nat, says : Nat, asks : SUBSET Questions, template : BOOLEAN]
      /\ NoQuiz.rev = 0
  BY DEF NoQuiz
<1>3. FreshSession.events = << >> /\ FreshSession.attributions = << >>
      /\ FreshSession.receipts = << >>
  OBVIOUS
<1>4. FreshSession \in SessionType
  BY <1>1, <1>2, LearnerAssumption DEF SessionType
<1>5. Shaped(FreshSession)
  BY <1>2, <1>3, <1>4 DEF Shaped, BudgetType
<1>6. WasProven(FreshSession)
  BY <1>1 DEF WasProven
<1>7. EvidenceIsSpent(FreshSession) /\ CountsOnce(FreshSession)
  BY <1>3 DEF EvidenceIsSpent, CountsOnce
<1>8. ASSUME NEW n \in Nodes PROVE Chain(FreshSession, n)
  <2>1. FreshSession.mastery[n] = 0 /\ Len(FreshSession.attributions) = 0
    BY <1>3
  <2>2. QED
    BY <2>1 DEF Chain, Leaves
<1>9. QED
  BY <1>5, <1>6, <1>7, <1>8 DEF Sound

LEMMA SharesAreParts ==
    ASSUME NEW c \in Nat, NEW k \in Nat, k > 0, c <= k
    PROVE  (Top * c) \div k \in 0 .. Top
<1> DEFINE q == (Top * c) \div k
<1>1. Top \in Nat /\ Top * c \in Nat
  BY LearnerAssumption
<1>2. q \in Nat /\ k * q <= Top * c
  BY <1>1
<1>3. Top * c <= Top * k
  BY <1>1
<1>4. ASSUME q > Top PROVE FALSE
  <2>1. k * q >= k * (Top + 1)
    BY <1>1, <1>2, <1>4
  <2>2. k * (Top + 1) = Top * k + k
    BY <1>1
  <2>3. QED
    BY <1>1, <1>2, <1>3, <2>1, <2>2
<1>5. QED
  BY <1>1, <1>2, <1>4

LEMMA ScoresAreLevels ==
    ASSUME NEW asks \in SUBSET Questions, asks # {}, NEW right \in SUBSET asks
    PROVE  Score(asks, right) \in 0 .. Top
<1>1. IsFiniteSet(asks) /\ Cardinality(asks) \in Nat /\ Cardinality(asks) > 0
  BY ReviewAssumption, FS_Subset, FS_CardinalityType, FS_EmptySet
<1>2. /\ Cardinality(asks \cap right) \in Nat
      /\ Cardinality(asks \cap right) <= Cardinality(asks)
  BY <1>1, FS_Subset, FS_CardinalityType
<1>3. QED
  BY <1>1, <1>2, SharesAreParts DEF Score

LEMMA AttributedMoves ==
    ASSUME NEW o \in SessionType, NEW n \in Nodes, NEW after \in 0 .. Top,
           NEW why \in {"quiz", "code"} \X Nodes \X Nat
    PROVE  LET s == Attribute(o, n, after, why)
           IN /\ s \in SessionType
              /\ Moves(o, s, n, why)
              /\ s.quiz = o.quiz /\ s.cards = o.cards /\ s.consumed = o.consumed
              /\ s.events = o.events /\ s.receipts = o.receipts
              /\ s.credited = o.credited /\ s.items = o.items
<1> DEFINE entry == [node |-> n, before |-> o.mastery[n], after |-> after, why |-> why]
           moved == [o EXCEPT !.mastery[n] = after, !.attributions = Append(@, entry)]
<1>1. o.mastery \in [Nodes -> 0 .. Top] /\ o.attributions \in Seq(AttributionType)
  BY SessionFields
<1>2. entry \in AttributionType
  BY <1>1 DEF AttributionType
<1>3. CASE after = o.mastery[n]
  BY <1>3 DEF Attribute, Moves
<1>4. CASE after # o.mastery[n]
  <2>1. Attribute(o, n, after, why) = moved
    BY <1>4 DEF Attribute
  <2>2. /\ moved.mastery = [o.mastery EXCEPT ![n] = after]
        /\ moved.attributions = Append(o.attributions, entry)
        /\ moved.quiz = o.quiz /\ moved.cards = o.cards /\ moved.consumed = o.consumed
        /\ moved.events = o.events /\ moved.receipts = o.receipts
        /\ moved.credited = o.credited /\ moved.items = o.items
    BY DEF SessionType
  <2>3. moved \in SessionType
    <3>1. [o.mastery EXCEPT ![n] = after] \in [Nodes -> 0 .. Top]
          /\ Append(o.attributions, entry) \in Seq(AttributionType)
      BY <1>1, <1>2
    <3>2. QED
      BY <3>1 DEF SessionType
  <2>4. Moves(o, moved, n, why)
    BY <2>2 DEF Moves
  <2>5. QED
    BY <2>1, <2>2, <2>3, <2>4
<1>5. QED
  BY <1>3, <1>4

LEMMA DiagnosticItems ==
    ASSUME NEW items \in [ItemIds -> ItemType], NEW n, NEW rev, NEW asks, NEW right,
           NEW now \in Nat
    PROVE  LET new == RecordVerifiedDiagnostic(items, n, rev, asks, right, now)
           IN /\ new \in [ItemIds -> ItemType]
              /\ \A i \in ItemIds : new[i].status = "completed" =>
                    IF i[1] = n /\ i[2] \in asks THEN i[2] \in right
                    ELSE items[i].status = "completed"
<1> DEFINE new == RecordVerifiedDiagnostic(items, n, rev, asks, right, now)
<1>1. \A it \in ItemType : /\ DueAgain(it, now) \in ItemType
                           /\ DueAgain(it, now).status = "due"
                           /\ Closed(it) \in ItemType
  BY DEF DueAgain, RequireNewPractice, Closed, ItemType
<1>2. \A i \in ItemIds : items[i] \in ItemType
  OBVIOUS
<1>3. \A i \in ItemIds :
        /\ new[i] \in ItemType
        /\ new[i].status = "completed" =>
              IF i[1] = n /\ i[2] \in asks THEN i[2] \in right
              ELSE items[i].status = "completed"
  <2> TAKE i \in ItemIds
  <2>1. new[i] = IF i[1] # n \/ i[2] \notin asks THEN items[i]
                 ELSE IF i[2] \notin right THEN DueAgain(items[i], now)
                 ELSE IF IsRetestedBy(items[i], rev) THEN Closed(items[i])
                 ELSE items[i]
    BY DEF RecordVerifiedDiagnostic
  <2>2. QED
    BY <1>1, <1>2, <2>1
<1>4. new = [i \in ItemIds |-> new[i]]
  BY DEF RecordVerifiedDiagnostic
<1>5. QED
  BY <1>3, <1>4

LEMMA CompletionsAreChanges ==
    ASSUME NEW o, Sound(o), budget \in BudgetType, NEW n \in Nodes,
           QuizVerified(o, n, o.quiz[n].rev), Room(o),
           NEW right \in SUBSET o.quiz[n].asks,
           NEW after \in Evaluated(o.mastery[n], Score(o.quiz[n].asks, right))
    PROVE  Changes(o, Completion(o, n, right, after))
<1> DEFINE quiz == o.quiz[n]
           why == <<"quiz", n, quiz.rev>>
           e == Event("lesson_completed", n, None, quiz.asks, right)
           a == Attribute(o, n, after, why)
           s == Completion(o, n, right, after)
           items == RecordVerifiedDiagnostic(o.items, n, quiz.rev, quiz.asks, right,
                                             Len(o.events) + 1)
<1>1. o \in SessionType /\ quiz.rev \in Nat /\ quiz.rev > 0 /\ quiz.asks \in SUBSET Questions
      /\ quiz.asks # {} /\ <<n, quiz.rev>> \notin o.consumed /\ o.mastery[n] \in 0 .. Top
  <2>1. o \in SessionType
    BY DEF Sound, Shaped
  <2>2. o.quiz[n] \in [rev : Nat, says : Nat, asks : SUBSET Questions, template : BOOLEAN]
        /\ o.mastery[n] \in 0 .. Top
    BY <2>1, SessionFields
  <2>3. QED
    BY <2>1, <2>2 DEF QuizVerified, Sound, Shaped
<1>2. after \in 0 .. Top
  <2>1. Score(quiz.asks, right) \in 0 .. Top
    BY <1>1, ScoresAreLevels
  <2>2. QED
    BY <1>1, <2>1, LearnerAssumption DEF Evaluated
<1>3. why \in {"quiz", "code"} \X Nodes \X Nat
  BY <1>1
<1>4. e \in EventType /\ e.kind = "lesson_completed" /\ e.node = n
      /\ e.asked = quiz.asks /\ e.right = right
  BY <1>1 DEF Event, EventType
<1>5. /\ a \in SessionType /\ Moves(o, a, n, why)
      /\ a.quiz = o.quiz /\ a.cards = o.cards /\ a.consumed = o.consumed
      /\ a.events = o.events /\ a.receipts = o.receipts
      /\ a.credited = o.credited /\ a.items = o.items
  BY <1>1, <1>2, <1>3, AttributedMoves
<1>6. s = [a EXCEPT !.events = Append(a.events, e),
                    !.consumed = a.consumed \cup {<<n, quiz.rev>>},
                    !.items = RecordVerifiedDiagnostic(a.items, n, quiz.rev, quiz.asks, right,
                                                       Len(o.events) + 1)]
  <2>1. s = [WithEvent(a, e) EXCEPT !.consumed = @ \cup {<<n, quiz.rev>>},
                !.items = RecordVerifiedDiagnostic(@, n, quiz.rev, quiz.asks, right,
                                                   Len(o.events) + 1)]
    BY DEF Completion
  <2> HIDE DEF s, a, e, quiz
  <2>2. QED
    BY <1>5, <2>1 DEF WithEvent, SessionType
<1>7. o.events \in Seq(EventType) /\ o.items \in [ItemIds -> ItemType]
      /\ Len(o.events) \in Nat
  BY <1>1, SessionFields, LenProperties
<1>8. /\ items \in [ItemIds -> ItemType]
      /\ \A i \in ItemIds : items[i].status = "completed" =>
            IF i[1] = n /\ i[2] \in quiz.asks THEN i[2] \in right
            ELSE o.items[i].status = "completed"
  BY <1>7, DiagnosticItems
<1> HIDE DEF s, a, e, items, quiz, why
<1>9. /\ s.mastery = a.mastery /\ s.attributions = a.attributions
      /\ s.quiz = o.quiz /\ s.cards = o.cards /\ s.receipts = o.receipts
      /\ s.consumed = o.consumed \cup {<<n, quiz.rev>>} /\ s.credited = o.credited
      /\ s.events = Append(o.events, e) /\ s.items = items
  BY <1>5, <1>6 DEF SessionType, items
<1>10. s \in SessionType
  <2>1. Append(a.events, e) \in Seq(EventType)
    BY <1>4, <1>5, <1>7
  <2>2. a.consumed \cup {<<n, quiz.rev>>} \in SUBSET (Nodes \X Nat)
    BY <1>1, <1>5, SessionFields
  <2>3. QED
    BY <1>5, <1>6, <1>8, <2>1, <2>2 DEF SessionType, items
<1>11. Shaped(s)
  <2>1. Len(s.events) = Len(o.events) + 1
    BY <1>7, <1>9
  <2>2. Len(s.events) <= budget.events
    BY <1>7, <2>1 DEF Room, BudgetType
  <2>3. QED
    BY <1>9, <1>10, <2>2 DEF Sound, Shaped
<1>12. EvidenceMoves(o, s)
  <2>1. Moves(o, s, n, why)
    BY <1>5, <1>9 DEF Moves
  <2>2. QED
    BY <1>1, <1>9, <2>1 DEF EvidenceMoves, why
<1>13. VerdictsMove(o, s)
  <2>1. \A i \in ItemIds : s.items[i].status = "completed" =>
           IF Concerns(e, i) THEN i[2] \in e.right ELSE o.items[i].status = "completed"
    BY <1>4, <1>8, <1>9 DEF Concerns
  <2>2. QED
    BY <1>4, <1>9, <2>1 DEF VerdictsMove
<1>14. QED
  BY <1>11, <1>12, <1>13 DEF Changes, s

LEMMA AnswersAreChanges ==
    ASSUME NEW o, Sound(o), budget \in BudgetType, Room(o), NEW n \in Nodes, NEW i \in ItemIds
    PROVE  Changes(o, WithEvent(o, Answer(n, i)))
<1> DEFINE e == Answer(n, i)
           s == WithEvent(o, e)
<1>1. o \in SessionType
  BY DEF Sound, Shaped
<1>2. i[2] \in Questions \cup {Code}
  BY DEF ItemIds
<1>3. e \in EventType /\ e.kind = "answer_submitted"
  BY <1>2 DEF Answer, Event, EventType
<1>4. o.events \in Seq(EventType) /\ Len(o.events) \in Nat
  BY <1>1, SessionFields, LenProperties
<1> HIDE DEF e
<1>5. /\ s.mastery = o.mastery /\ s.attributions = o.attributions
      /\ s.quiz = o.quiz /\ s.receipts = o.receipts /\ s.items = o.items
      /\ s.consumed = o.consumed /\ s.credited = o.credited
      /\ s.events = Append(o.events, e) /\ s \in SessionType
  <2>1. Append(o.events, e) \in Seq(EventType)
    BY <1>3, <1>4
  <2>2. s = [o EXCEPT !.events = Append(o.events, e)]
    BY DEF WithEvent
  <2> HIDE DEF s
  <2>3. QED
    BY <1>1, <2>1, <2>2 DEF SessionType
<1>6. Len(s.events) = Len(o.events) + 1
  BY <1>4, <1>5
<1> HIDE DEF s
<1>7. Shaped(s)
  BY <1>4, <1>5, <1>6 DEF Sound, Shaped, Room, BudgetType
<1>8. VerdictsMove(o, s)
  <2>1. \A j \in ItemIds : s.items[j].status = "completed" =>
           IF Concerns(e, j) THEN j[2] \in e.right ELSE o.items[j].status = "completed"
    BY <1>3, <1>5 DEF Concerns
  <2>2. QED
    BY <1>3, <1>5, <2>1 DEF VerdictsMove
<1>9. EvidenceMoves(o, s)
  BY <1>5 DEF EvidenceMoves
<1>10. Changes(o, s)
  BY <1>7, <1>8, <1>9 DEF Changes
<1>11. QED
  BY <1>10 DEF s, e

LEMMA CodeItems ==
    ASSUME NEW items \in [ItemIds -> ItemType], NEW n \in Nodes, NEW verdict
    PROVE  LET new == RecordVerifiedCode(items, n, verdict)
           IN /\ new \in [ItemIds -> ItemType]
              /\ \A i \in ItemIds : new[i].status = "completed" =>
                    IF i = <<n, Code>> /\ verdict # "internal_error" THEN verdict = "accepted"
                    ELSE items[i].status = "completed"
<1> DEFINE c == <<n, Code>>
           new == RecordVerifiedCode(items, n, verdict)
           again == [items[c] EXCEPT !.status = "due", !.phase = "code_resubmission"]
<1>1. c \in ItemIds
  BY DEF ItemIds
<1>2. Closed(items[c]) \in ItemType /\ again \in ItemType /\ again.status = "due"
  BY <1>1 DEF Closed, ItemType
<1>3. CASE verdict = "accepted" /\ Open(items[c])
  <2>1. new = [items EXCEPT ![c] = Closed(items[c])]
    BY <1>3 DEF RecordVerifiedCode
  <2>2. QED
    BY <1>1, <1>2, <1>3, <2>1
<1>4. CASE verdict \notin {"accepted", "internal_error"}
  <2>1. new = [items EXCEPT ![c].status = "due", ![c].phase = "code_resubmission"]
    BY <1>4 DEF RecordVerifiedCode
  <2>2. new = [items EXCEPT ![c] = again]
    BY <1>1, <2>1
  <2>3. QED
    BY <1>1, <1>2, <1>4, <2>2
<1>5. CASE (verdict = "accepted" /\ ~Open(items[c])) \/ verdict = "internal_error"
  <2>1. new = items
    BY <1>5 DEF RecordVerifiedCode
  <2>2. QED
    BY <1>5, <2>1
<1>6. QED
  BY <1>3, <1>4, <1>5

LEMMA CreditsMove ==
    ASSUME NEW o \in SessionType, NEW n \in Nodes, NEW r \in Nat,
           o.receipts[r].node = n
    PROVE  LET s == Credit(o, n, r)
           IN /\ s \in SessionType /\ EvidenceMoves(o, s)
              /\ s.quiz = o.quiz /\ s.events = o.events
              /\ s.receipts = o.receipts /\ s.items = o.items
<1> DEFINE marked == [o EXCEPT !.credited = @ \cup {n}]
           after == IF o.mastery[n] < Top THEN o.mastery[n] + 1 ELSE Top
           why == <<"code", n, r>>
<1>1. CASE ~Credits(o, r)
  BY <1>1 DEF Credit, EvidenceMoves
<1>2. CASE Credits(o, r)
  <2>1. n \notin o.credited
    BY <1>2 DEF Credits
  <2>2. o.mastery \in [Nodes -> 0 .. Top] /\ o.credited \in SUBSET Nodes
    BY SessionFields
  <2>3. /\ marked \in SessionType
        /\ marked.mastery = o.mastery /\ marked.attributions = o.attributions
        /\ marked.quiz = o.quiz /\ marked.consumed = o.consumed /\ marked.events = o.events
        /\ marked.receipts = o.receipts /\ marked.items = o.items
        /\ marked.credited = o.credited \cup {n}
    BY <2>2 DEF SessionType
  <2>4. after \in 0 .. Top
    BY <2>2, LearnerAssumption
  <2>5. Credit(o, n, r) = Attribute(marked, n, after, why)
    BY <1>2 DEF Credit
  <2>6. why \in {"quiz", "code"} \X Nodes \X Nat
    OBVIOUS
  <2> HIDE DEF marked, after
  <2>7. QED
    <3> DEFINE s == Attribute(marked, n, after, why)
    <3>1. /\ s \in SessionType
          /\ Moves(marked, s, n, why)
          /\ s.quiz = marked.quiz /\ s.consumed = marked.consumed
          /\ s.events = marked.events /\ s.receipts = marked.receipts
          /\ s.credited = marked.credited /\ s.items = marked.items
      BY <2>3, <2>4, <2>6, AttributedMoves
    <3> HIDE DEF s
    <3>2. Moves(o, s, n, why)
      BY <2>3, <3>1 DEF Moves
    <3>3. EvidenceMoves(o, s)
      BY <2>1, <2>3, <3>1, <3>2 DEF EvidenceMoves
    <3>4. QED
      BY <2>3, <2>5, <3>1, <3>3 DEF s
<1>3. QED
  BY <1>1, <1>2

LEMMA SubmissionsAreChanges ==
    ASSUME NEW o, Sound(o), budget \in BudgetType, Room(o), NEW n \in Nodes,
           NEW r \in DOMAIN o.receipts, ReceiptVerified(o, n, r)
    PROVE  Changes(o, CodeSubmission(o, n, r))
<1> DEFINE ReceiptType == [node : Nodes, verdict : Receipts, spentOn : Nat]
           verdict == o.receipts[r].verdict
           e == Event("code_submitted", n, <<n, Code>>,
                      IF verdict = "internal_error" THEN {} ELSE {Code},
                      IF verdict = "accepted" THEN {Code} ELSE {})
           a == Credit(o, n, r)
           items == RecordVerifiedCode(o.items, n, verdict)
           receipts == [o.receipts EXCEPT ![r].spentOn = Len(o.events) + 1]
           s == CodeSubmission(o, n, r)
<1>1. o \in SessionType
  BY DEF Sound, Shaped
<1>2. /\ o.events \in Seq(EventType) /\ Len(o.events) \in Nat
      /\ o.receipts \in Seq(ReceiptType) /\ Len(o.receipts) \in Nat
      /\ o.items \in [ItemIds -> ItemType]
  BY <1>1, SessionFields, LenProperties
<1>3. r \in 1 .. Len(o.receipts) /\ r \in Nat /\ o.receipts[r] \in ReceiptType
  <2> HIDE DEF ReceiptType
  <2>1. r \in 1 .. Len(o.receipts)
    BY <1>2
  <2>2. QED
    BY <1>2, <2>1, ElementOfSeq
<1>4. /\ e \in EventType /\ e.kind = "code_submitted" /\ e.node = n
      /\ e.asked = IF verdict = "internal_error" THEN {} ELSE {Code}
      /\ e.right = IF verdict = "accepted" THEN {Code} ELSE {}
  BY DEF Event, EventType, ItemIds
<1>5. /\ a \in SessionType /\ EvidenceMoves(o, a) /\ a.quiz = o.quiz
      /\ a.events = o.events /\ a.receipts = o.receipts /\ a.items = o.items
  BY <1>1, <1>3, CreditsMove DEF ReceiptVerified
<1>6. /\ items \in [ItemIds -> ItemType]
      /\ \A i \in ItemIds : items[i].status = "completed" =>
            IF i = <<n, Code>> /\ verdict # "internal_error" THEN verdict = "accepted"
            ELSE o.items[i].status = "completed"
  <2> HIDE DEF verdict
  <2>1. LET new == RecordVerifiedCode(o.items, n, verdict)
        IN /\ new \in [ItemIds -> ItemType]
           /\ \A i \in ItemIds : new[i].status = "completed" =>
                 IF i = <<n, Code>> /\ verdict # "internal_error" THEN verdict = "accepted"
                 ELSE o.items[i].status = "completed"
    BY ONLY <1>2, CodeItems
  <2>2. QED
    BY <2>1
<1>7. receipts \in Seq(ReceiptType) /\ Len(receipts) = Len(o.receipts)
  <2>1. [o.receipts[r] EXCEPT !.spentOn = Len(o.events) + 1] \in ReceiptType
    <3>1. Len(o.events) + 1 \in Nat
      BY <1>2
    <3>2. QED
      BY <1>3, <3>1
  <2>2. receipts = [o.receipts EXCEPT ![r] = [o.receipts[r] EXCEPT !.spentOn = Len(o.events) + 1]]
    BY <1>2, <1>3
  <2>3. QED
    BY <1>2, <1>3, <2>1, <2>2, ExceptSeq
<1>8. s = [a EXCEPT !.events = Append(a.events, e),
                    !.receipts[r].spentOn = Len(o.events) + 1,
                    !.items = RecordVerifiedCode(a.items, n, verdict)]
  BY DEF CodeSubmission
<1> HIDE DEF s, a, e, items, verdict
<1>9. /\ s.mastery = a.mastery /\ s.attributions = a.attributions
      /\ s.quiz = o.quiz /\ s.consumed = a.consumed /\ s.credited = a.credited
      /\ s.events = Append(o.events, e) /\ s.items = items
      /\ s.receipts = receipts
  BY <1>5, <1>8 DEF SessionType, items
<1>10. s \in SessionType
  <2>1. Append(o.events, e) \in Seq(EventType)
    BY <1>2, <1>4
  <2>2. s = [a EXCEPT !.events = Append(o.events, e), !.receipts = receipts, !.items = items]
    BY <1>5, <1>8 DEF SessionType, items
  <2>3. QED
    BY <1>5, <1>6, <1>7, <2>1, <2>2 DEF SessionType
<1>11. Shaped(s)
  <2>1. Len(s.events) = Len(o.events) + 1
    BY <1>2, <1>9
  <2>2. Len(s.events) <= budget.events
    BY <1>2, <2>1 DEF Room, BudgetType
  <2>3. QED
    BY <1>7, <1>9, <1>10, <2>2 DEF Sound, Shaped
<1>12. EvidenceMoves(o, s)
  <2>1. \A m, why : Moves(o, a, m, why) => Moves(o, s, m, why)
    BY <1>9 DEF Moves
  <2>2. QED
    BY <1>5, <1>9, <2>1 DEF EvidenceMoves
<1>13. VerdictsMove(o, s)
  <2>1. ASSUME NEW i \in ItemIds, s.items[i].status = "completed"
        PROVE  IF Concerns(e, i) THEN i[2] \in e.right ELSE o.items[i].status = "completed"
    <3>1. Concerns(e, i) <=> i = <<n, Code>> /\ verdict # "internal_error"
      BY <1>4 DEF Concerns, ItemIds
    <3>2. QED
      BY <1>4, <1>6, <1>9, <2>1, <3>1
  <2>2. QED
    BY <1>4, <1>9, <2>1 DEF VerdictsMove
<1>14. Changes(o, s)
  BY <1>11, <1>12, <1>13 DEF Changes
<1>15. QED
  BY <1>14 DEF s

\* A change of cards, receipts or open items has nothing to do with evidence.
LEMMA RearrangementsAreChanges ==
    ASSUME NEW o, Sound(o), NEW s, Shaped(s),
           s.mastery = o.mastery, s.attributions = o.attributions,
           s.consumed = o.consumed, s.credited = o.credited, s.events = o.events,
           \A i \in ItemIds : s.items[i].status = "completed" => o.items[i].status = "completed"
    PROVE  Changes(o, s)
  BY DEF Changes, EvidenceMoves, VerdictsMove

LEMMA ReceiptsAreChanges ==
    ASSUME NEW o, Sound(o), budget \in BudgetType, Len(o.receipts) < budget.receipts,
           NEW n \in Nodes, NEW verdict \in Receipts
    PROVE  Changes(o, RecordSubmissionReceipt(o, n, verdict))
<1> DEFINE receipt == [node |-> n, verdict |-> verdict, spentOn |-> 0]
           s == RecordSubmissionReceipt(o, n, verdict)
<1>1. o \in SessionType
  BY DEF Sound, Shaped
<1>2. o.receipts \in Seq([node : Nodes, verdict : Receipts, spentOn : Nat])
      /\ Len(o.receipts) \in Nat
  BY <1>1, SessionFields, LenProperties
<1>3. /\ Append(o.receipts, receipt) \in Seq([node : Nodes, verdict : Receipts, spentOn : Nat])
      /\ Len(Append(o.receipts, receipt)) = Len(o.receipts) + 1
  BY <1>2
<1>4. /\ s \in SessionType /\ s.receipts = Append(o.receipts, receipt)
      /\ s.mastery = o.mastery /\ s.attributions = o.attributions
      /\ s.consumed = o.consumed /\ s.credited = o.credited /\ s.events = o.events
      /\ s.items = o.items /\ s.quiz = o.quiz
  BY <1>1, <1>3 DEF RecordSubmissionReceipt, SessionType
<1> HIDE DEF s
<1>5. Shaped(s)
  BY <1>2, <1>3, <1>4 DEF Sound, Shaped, BudgetType
<1>6. Changes(o, s)
  BY <1>4, <1>5, RearrangementsAreChanges
<1>7. QED
  BY <1>6 DEF s

LEMMA QuizzesAreChanges ==
    ASSUME NEW o, Sound(o), budget \in BudgetType, NEW n \in Nodes, NEW force \in BOOLEAN,
           QuizRevision(o.quiz[n], force) <= budget.revision,
           NEW q \in Quizzes(o.quiz[n], force)
    PROVE  Changes(o, [o EXCEPT !.quiz[n] = q])
<1> DEFINE s == [o EXCEPT !.quiz[n] = q]
           QuizType == [rev : Nat, says : Nat, asks : SUBSET Questions, template : BOOLEAN]
<1>1. o \in SessionType
  BY DEF Sound, Shaped
<1>2. o.quiz \in [Nodes -> QuizType]
  BY <1>1, SessionFields
<1>3. QuizRevision(o.quiz[n], force) \in Nat /\ QuizRevision(o.quiz[n], force) > 0
  BY <1>2 DEF QuizRevision
<1>4. budget.quizzes \in SUBSET ((SUBSET Questions) \ {{}})
  BY DEF BudgetType
<1>5. q \in QuizType /\ q.rev = QuizRevision(o.quiz[n], force) /\ q.asks # {}
  <2> DEFINE rev == QuizRevision(o.quiz[n], force)
  <2>1. \/ q \in [rev : {rev}, says : {rev}, asks : budget.quizzes, template : BOOLEAN]
        \/ q \in [rev : {rev}, says : {1}, asks : budget.quizzes, template : {TRUE}]
    BY DEF Quizzes
  <2>2. \A asks \in budget.quizzes : asks \in SUBSET Questions /\ asks # {}
    BY <1>4
  <2>3. rev \in Nat /\ 1 \in Nat /\ TRUE \in BOOLEAN
    BY <1>3
  <2> HIDE DEF rev
  <2>4. q \in QuizType /\ q.rev = rev /\ q.asks # {}
    <3>1. CASE q \in [rev : {rev}, says : {rev}, asks : budget.quizzes, template : BOOLEAN]
      BY <2>2, <2>3, <3>1
    <3>2. CASE q \in [rev : {rev}, says : {1}, asks : budget.quizzes, template : {TRUE}]
      BY <2>2, <2>3, <3>2
    <3>3. QED
      BY <2>1, <3>1, <3>2
  <2>5. QED
    BY <2>4 DEF rev
<1>6. /\ s \in SessionType /\ s.quiz = [o.quiz EXCEPT ![n] = q]
      /\ s.mastery = o.mastery /\ s.attributions = o.attributions
      /\ s.consumed = o.consumed /\ s.credited = o.credited /\ s.events = o.events
      /\ s.items = o.items /\ s.receipts = o.receipts
  BY <1>1, <1>2, <1>5 DEF SessionType
<1> HIDE DEF s
<1>7. Shaped(s)
  BY <1>2, <1>5, <1>6 DEF Sound, Shaped
<1>8. Changes(o, s)
  BY <1>6, <1>7, RearrangementsAreChanges
<1>9. QED
  BY <1>8 DEF s

LEMMA CardsAreChanges ==
    ASSUME NEW o, Sound(o), NEW n \in Nodes, NEW types \in SUBSET Supporting
    PROVE  Changes(o, [o EXCEPT !.cards = @ \cup ({n} \X types)])
<1> DEFINE s == [o EXCEPT !.cards = o.cards \cup ({n} \X types)]
<1>1. o \in SessionType
  BY DEF Sound, Shaped
<1>2. o.cards \cup ({n} \X types) \in SUBSET (Nodes \X Supporting)
  BY <1>1, SessionFields
<1>3. /\ s \in SessionType /\ s.quiz = o.quiz
      /\ s.mastery = o.mastery /\ s.attributions = o.attributions
      /\ s.consumed = o.consumed /\ s.credited = o.credited /\ s.events = o.events
      /\ s.items = o.items /\ s.receipts = o.receipts
  BY <1>1, <1>2 DEF SessionType
<1>4. s = [o EXCEPT !.cards = @ \cup ({n} \X types)]
  OBVIOUS
<1> HIDE DEF s
<1>5. Shaped(s)
  BY <1>3 DEF Sound, Shaped
<1>6. Changes(o, s)
  BY <1>3, <1>5, RearrangementsAreChanges
<1>7. QED
  BY <1>4, <1>6

LEMMA ItemsAreChanges ==
    ASSUME NEW o, Sound(o), NEW i \in ItemIds, NEW it \in ItemType, it.status # "completed"
    PROVE  Changes(o, [o EXCEPT !.items[i] = it])
<1> DEFINE s == [o EXCEPT !.items[i] = it]
<1>1. o \in SessionType
  BY DEF Sound, Shaped
<1>2. o.items \in [ItemIds -> ItemType]
  BY <1>1, SessionFields
<1>3. /\ s \in SessionType /\ s.quiz = o.quiz
      /\ s.mastery = o.mastery /\ s.attributions = o.attributions
      /\ s.consumed = o.consumed /\ s.credited = o.credited /\ s.events = o.events
      /\ s.items = [o.items EXCEPT ![i] = it] /\ s.receipts = o.receipts
  BY <1>1, <1>2 DEF SessionType
<1> HIDE DEF s
<1>4. Shaped(s)
  BY <1>3 DEF Sound, Shaped
<1>5. Changes(o, s)
  BY <1>2, <1>3, <1>4, RearrangementsAreChanges
<1>6. QED
  BY <1>5 DEF s

-----------------------------------------------------------------------------
(* The copies and the threads *)

HandlerType == [op : {"start", "direct", "prepare"}, item : ItemIds, event : Nat,
                made : BOOLEAN, due : BOOLEAN]
JobType == [held : {"queued", "live", "discarded"}, node : Nodes, quiz : BOOLEAN,
            force : BOOLEAN]
PracticeType == [held : {"live", "discarded"}, node : Nodes]

ThreadTypes ==
    /\ handler \in HandlerType \cup {NoHandler}
    /\ job \in JobType \cup {NoJob}
    /\ practice \in PracticeType \cup {NoPractice}

\* A thread that holds an object finds it there.
HeldObjectsExist ==
    /\ "live" \in {job.held, practice.held} \/ handler # NoHandler => mem # None
    /\ "discarded" \in {job.held, practice.held} => discarded # None

CopiesAreSound == \A s \in Copies : Sound(s)

LearnerInv ==
    /\ budget \in BudgetType
    /\ ThreadTypes
    /\ HeldObjectsExist
    /\ CopiesAreSound

\* What every step but a load, a crash and a reset does to the objects.
Kept ==
    /\ budget' = budget
    /\ \A s \in Copies' : Sound(s)
    /\ mem # None => mem' # None
    /\ discarded # None => discarded' # None

LEMMA SoundnessIsTimeless ==
    ASSUME budget' = budget, \A s \in Copies' : Sound(s)
    PROVE  CopiesAreSound'
<1>1. ASSUME NEW s, Sound(s)
      PROVE  Sound(s)'
  <2>1. Shaped(s)'
    BY <1>1 DEF Sound, Shaped
  <2>2. (\A n \in Nodes : Chain(s, n))'
    BY <1>1 DEF Sound, Chain, Leaves
  <2>3. EvidenceIsSpent(s)'
    BY <1>1 DEF Sound, EvidenceIsSpent
  <2>4. CountsOnce(s)'
    BY <1>1 DEF Sound, CountsOnce
  <2>5. WasProven(s)'
    BY <1>1 DEF Sound, WasProven, Verdicts
  <2>6. QED
    BY <2>1, <2>2, <2>3, <2>4, <2>5 DEF Sound
<1>2. QED
  BY <1>1 DEF CopiesAreSound

LEMMA SoundIsNotNone == ASSUME NEW s, Sound(s) PROVE s # None
  BY NoneIsNoSession DEF Sound, Shaped

LEMMA StandingStillKeeps ==
    ASSUME LearnerInv, UNCHANGED <<objects, durable, spent>>
    PROVE  Kept
<1>1. Copies' = Copies
  BY DEF objects, durable, Copies
<1>2. QED
  BY <1>1 DEF objects, durable, spent, Kept, LearnerInv, CopiesAreSound

LEMMA StoringKeeps ==
    ASSUME LearnerInv, NEW held \in {"live", "discarded"}, NEW s, Sound(s), Store(held, s)
    PROVE  Kept
<1>1. mem' \in {mem, s} /\ discarded' \in {discarded, s}
      /\ row' \in {row, s} /\ snapshot' \in {snapshot, s} /\ budget' = budget
  BY DEF Store, PersistSession
<1>2. \A c \in Copies' : c \in Copies \/ c = s
  BY <1>1 DEF Copies
<1>3. s # None
  BY SoundIsNotNone
<1>4. QED
  BY <1>1, <1>2, <1>3 DEF Kept, LearnerInv, CopiesAreSound

LEMMA ChangingKeeps ==
    ASSUME LearnerInv, NEW held \in {"live", "discarded"}, NEW s,
           Object(held) # None, Changes(Object(held), s), Store(held, s)
    PROVE  Kept
<1>1. Sound(Object(held))
  BY DEF Object, LearnerInv, CopiesAreSound, Copies
<1>2. Sound(s)
  BY <1>1, ChangesKeepSessionsSound
<1>3. QED
  BY <1>2, StoringKeeps

LEMMA LiveIsMem == ASSUME LearnerInv, mem # None
                   PROVE  Object("live") = mem /\ Sound(mem) /\ mem \in SessionType
<1>1. Object("live") = mem
  BY DEF Object
<1>2. Sound(mem)
  BY DEF LearnerInv, CopiesAreSound, Copies
<1>3. QED
  BY <1>1, <1>2 DEF Sound, Shaped

LEMMA HolderHasObject ==
    ASSUME LearnerInv, NEW held \in {"live", "discarded"}, held \in {job.held, practice.held}
    PROVE  Object(held) # None /\ Sound(Object(held)) /\ Object(held) \in SessionType
<1>1. Object(held) # None
  BY DEF LearnerInv, HeldObjectsExist, Object
<1>2. Sound(Object(held))
  BY <1>1 DEF Object, LearnerInv, CopiesAreSound, Copies
<1>3. QED
  BY <1>1, <1>2 DEF Sound, Shaped

-----------------------------------------------------------------------------
(* Steps of the learner *)

LEMMA LessonsKeep == ASSUME LearnerInv, LessonCompleted PROVE Kept
<1>1. mem # None /\ Room(mem)
  BY DEF LessonCompleted
<1>2. PICK n \in Nodes : LET quiz == mem.quiz[n] IN
         /\ QuizVerified(mem, n, quiz.rev)
         /\ \E right \in SUBSET quiz.asks :
            \E after \in Evaluated(mem.mastery[n], Score(quiz.asks, right)) :
               Store("live", Completion(mem, n, right, after))
  BY DEF LessonCompleted
<1>3. PICK right \in SUBSET mem.quiz[n].asks :
         \E after \in Evaluated(mem.mastery[n], Score(mem.quiz[n].asks, right)) :
            Store("live", Completion(mem, n, right, after))
  BY <1>2
<1>4. PICK after \in Evaluated(mem.mastery[n], Score(mem.quiz[n].asks, right)) :
         Store("live", Completion(mem, n, right, after))
  BY <1>3
<1>5. Changes(mem, Completion(mem, n, right, after))
  BY <1>1, <1>2, LiveIsMem, CompletionsAreChanges DEF LearnerInv
<1>6. QED
  BY <1>1, <1>4, <1>5, LiveIsMem, ChangingKeeps

LEMMA AnswersKeep == ASSUME LearnerInv, AnswerSubmitted PROVE Kept
<1>1. mem # None /\ Room(mem)
  BY DEF AnswerSubmitted, Serving
<1>2. PICK n \in Nodes, i \in ItemIds : Store("live", WithEvent(mem, Answer(n, i)))
  BY DEF AnswerSubmitted, SaveInHandler
<1>3. Changes(mem, WithEvent(mem, Answer(n, i)))
  BY <1>1, LiveIsMem, AnswersAreChanges DEF LearnerInv
<1>4. QED
  BY <1>1, <1>2, <1>3, LiveIsMem, ChangingKeeps

LEMMA SubmissionsKeep == ASSUME LearnerInv, CodeSubmitted PROVE Kept
<1>1. mem # None /\ Room(mem)
  BY DEF CodeSubmitted, Serving
<1>2. PICK n \in Nodes, r \in DOMAIN mem.receipts :
        ReceiptVerified(mem, n, r) /\ Store("live", CodeSubmission(mem, n, r))
  BY DEF CodeSubmitted, SaveInHandler
<1>3. Changes(mem, CodeSubmission(mem, n, r))
  BY <1>1, <1>2, LiveIsMem, SubmissionsAreChanges DEF LearnerInv
<1>4. QED
  BY <1>1, <1>2, <1>3, LiveIsMem, ChangingKeeps

LEMMA PracticesKeep == ASSUME LearnerInv, FinishPractice PROVE Kept
<1> DEFINE held == practice.held
           s == Object(held)
<1>1. practice \in PracticeType /\ held \in {"live", "discarded"} /\ practice.node \in Nodes
  BY DEF FinishPractice, LearnerInv, ThreadTypes, PracticeType
<1>2. s # None /\ Sound(s)
  BY <1>1, HolderHasObject
<1>3. CASE Store(held, s)
  BY <1>1, <1>2, <1>3, StoringKeeps
<1>4. ASSUME Len(s.receipts) < budget.receipts, NEW verdict \in Receipts,
             Store(held, RecordSubmissionReceipt(s, practice.node, verdict))
      PROVE  Kept
  <2>1. Changes(s, RecordSubmissionReceipt(s, practice.node, verdict))
    BY <1>1, <1>2, <1>4, ReceiptsAreChanges DEF LearnerInv
  <2>2. QED
    BY <1>1, <1>2, <1>4, <2>1, ChangingKeeps
<1>5. QED
  BY <1>3, <1>4 DEF FinishPractice

LEMMA QuizPublicationsKeep ==
    ASSUME LearnerInv, NEW held \in {"live", "discarded"}, Object(held) # None,
           NEW n \in Nodes, NEW force \in BOOLEAN, PublishQuiz(held, n, force)
    PROVE  Kept
<1> DEFINE o == Object(held)
<1>1. Sound(o)
  BY DEF Object, LearnerInv, CopiesAreSound, Copies
<1>2. PICK q \in Quizzes(o.quiz[n], force) : Store(held, [o EXCEPT !.quiz[n] = q])
  BY DEF PublishQuiz
<1>3. Changes(o, [o EXCEPT !.quiz[n] = q])
  BY <1>1, QuizzesAreChanges DEF PublishQuiz, LearnerInv
<1>4. QED
  BY <1>2, <1>3, ChangingKeeps

LEMMA CardPublicationsKeep ==
    ASSUME LearnerInv, NEW held \in {"live", "discarded"}, Object(held) # None,
           NEW n \in Nodes, NEW types \in SUBSET Supporting,
           PublishSupporting(held, n, types)
    PROVE  Kept
<1> DEFINE o == Object(held)
<1>1. Sound(o)
  BY DEF Object, LearnerInv, CopiesAreSound, Copies
<1>2. Changes(o, [o EXCEPT !.cards = @ \cup ({n} \X types)])
  BY <1>1, CardsAreChanges
<1>3. QED
  BY <1>2, ChangingKeeps DEF PublishSupporting

LEMMA ItemsKeep ==
    ASSUME LearnerInv, mem # None, NEW i \in ItemIds, NEW it \in ItemType,
           it.status # "completed", SaveItem(i, it)
    PROVE  Kept
<1>1. Changes(mem, [mem EXCEPT !.items[i] = it])
  BY LiveIsMem, ItemsAreChanges
<1>2. QED
  BY <1>1, LiveIsMem, ChangingKeeps DEF SaveItem

-----------------------------------------------------------------------------
(* Review handlers *)

LEMMA ReviewItemTypes ==
    ASSUME LearnerInv, mem # None, NEW i \in ItemIds
    PROVE  /\ mem.items[i] \in ItemType /\ Now \in Nat /\ mem.quiz[i[1]].rev \in Nat
           /\ Recovered(i) \in ItemType
           /\ Open(mem.items[i]) => Recovered(i).status # "completed"
           /\ \A it \in ItemType, wasDue \in BOOLEAN :
                 Started(i, it, wasDue) \in ItemType /\ Started(i, it, wasDue).status # "completed"
           /\ \A it \in ItemType, e \in Nat :
                 InRetestWith(i, it, e) \in ItemType /\ InRetestWith(i, it, e).status # "completed"
<1>1. mem \in SessionType
  BY LiveIsMem
<1>2. i[1] \in Nodes
  BY DEF ItemIds
<1>3. mem.items[i] \in ItemType /\ Now \in Nat /\ mem.quiz[i[1]].rev \in Nat
  <2>1. mem.items \in [ItemIds -> ItemType] /\ mem.events \in Seq(EventType)
        /\ mem.quiz \in [Nodes -> [rev : Nat, says : Nat, asks : SUBSET Questions,
                                   template : BOOLEAN]]
    BY <1>1, SessionFields
  <2>2. QED
    BY <1>2, <2>1, LenProperties DEF Now
<1>4. \A it \in ItemType : RequireNewPractice(it, Now) \in ItemType
                           /\ DueAgain(it, Now) \in ItemType /\ DueAgain(it, Now).status = "due"
  BY <1>3 DEF RequireNewPractice, DueAgain, ItemType
<1>5. Recovered(i) \in ItemType /\ (Open(mem.items[i]) => Recovered(i).status # "completed")
  BY <1>3, <1>4 DEF Recovered, Open
<1>6. ASSUME NEW it \in ItemType, NEW wasDue \in BOOLEAN
      PROVE  Started(i, it, wasDue) \in ItemType /\ Started(i, it, wasDue).status # "completed"
  <2> DEFINE fresh == IF wasDue /\ ~IsCode(i) THEN RequireNewPractice(it, Now) ELSE it
  <2>1. fresh \in ItemType
    BY <1>4, <1>6
  <2>2. Started(i, it, wasDue) =
          [fresh EXCEPT !.status = "in_progress",
                        !.phase = IF IsCode(i) THEN "code_resubmission" ELSE "material_review"]
    BY DEF Started
  <2> HIDE DEF fresh
  <2>3. QED
    BY <2>1, <2>2 DEF ItemType
<1>7. \A it \in ItemType, e \in Nat :
        InRetestWith(i, it, e) \in ItemType /\ InRetestWith(i, it, e).status # "completed"
  BY <1>3 DEF InRetestWith, ItemType
<1>8. QED
  BY <1>3, <1>5, <1>6, <1>7

LEMMA WaitingHandlers ==
    ASSUME NEW op \in {"start", "direct", "prepare"}, NEW i \in ItemIds, NEW e \in Nat,
           Wait(op, i, e)
    PROVE  handler' \in HandlerType
  BY DEF Wait, HandlerType

LEMMA HandlersKeep ==
    ASSUME LearnerInv,
           StartReview \/ StartDirectRetest \/ PrepareRetest \/ GenerateForHandler
             \/ FinishHandler \/ DeleteReviewItem
    PROVE  Kept /\ mem # None /\ handler' \in HandlerType \cup {NoHandler}
           /\ UNCHANGED <<job, practice>>
<1> USE DEF threads
<1>0. mem # None
  BY DEF StartReview, StartDirectRetest, PrepareRetest, GenerateForHandler, FinishHandler,
         DeleteReviewItem, Serving, LearnerInv, HeldObjectsExist
<1>1. handler \in HandlerType \cup {NoHandler} /\ 0 \in Nat
  BY DEF LearnerInv, ThreadTypes
<1>2. CASE StartReview
  <2>1. PICK i \in ItemIds :
         /\ Open(mem.items[i])
         /\ \/ /\ SaveItem(i, Started(i, Recovered(i), Recovered(i).status = "due"))
               /\ UNCHANGED handler
            \/ SaveItem(i, Recovered(i)) /\ Wait("start", i, 0)
    BY <1>2 DEF StartReview
  <2>2. CASE /\ SaveItem(i, Started(i, Recovered(i), Recovered(i).status = "due"))
             /\ UNCHANGED handler
    BY <1>0, <1>1, <1>2, <2>2, ReviewItemTypes, ItemsKeep DEF StartReview
  <2>3. CASE SaveItem(i, Recovered(i)) /\ Wait("start", i, 0)
    BY <1>0, <1>1, <1>2, <2>1, <2>3, ReviewItemTypes, ItemsKeep, WaitingHandlers DEF StartReview
  <2>4. QED
    BY <2>1, <2>2, <2>3
<1>3. CASE StartDirectRetest
  <2>1. PICK i \in ItemIds :
         \/ /\ SaveItem(i, InRetestWith(i, mem.items[i], mem.items[i].practice))
            /\ UNCHANGED handler
         \/ /\ Wait("direct", i, 0)
            /\ UNCHANGED <<objects, durable, spent>>
    BY <1>3 DEF StartDirectRetest
  <2>2. CASE /\ SaveItem(i, InRetestWith(i, mem.items[i], mem.items[i].practice))
             /\ UNCHANGED handler
    <3>1. mem.items[i].practice \in Nat
      BY <1>0, ReviewItemTypes DEF ItemType
    <3>2. QED
      BY <1>0, <1>1, <1>3, <2>2, <3>1, ReviewItemTypes, ItemsKeep DEF StartDirectRetest
  <2>3. CASE Wait("direct", i, 0) /\ UNCHANGED <<objects, durable, spent>>
    BY <1>0, <1>1, <1>3, <2>3, StandingStillKeeps, WaitingHandlers DEF StartDirectRetest
  <2>4. QED
    BY <2>1, <2>2, <2>3
<1>4. CASE PrepareRetest
  <2>1. PICK i \in ItemIds, e \in 1 .. Now : Wait("prepare", i, e)
    BY <1>4 DEF PrepareRetest
  <2>2. e \in Nat
    BY <1>0, ReviewItemTypes
  <2>3. QED
    BY <1>0, <1>4, <2>1, <2>2, StandingStillKeeps, WaitingHandlers DEF PrepareRetest
<1>5. CASE GenerateForHandler
  <2>1. handler \in HandlerType /\ handler.item[1] \in Nodes
        /\ handler' = [handler EXCEPT !.made = TRUE]
    BY <1>1, <1>5 DEF GenerateForHandler, HandlerType, ItemIds
  <2>2. handler' \in HandlerType
    BY <2>1 DEF HandlerType
  <2>3. ASSUME PublishSupporting("live", handler.item[1], {"interactive_exercise"})
        PROVE  Kept
    BY <1>0, <2>1, <2>3, LiveIsMem, CardPublicationsKeep DEF Supporting
  <2>4. ASSUME PublishQuiz("live", handler.item[1], handler.op = "prepare")
        PROVE  Kept
    BY <1>0, <2>1, <2>4, LiveIsMem, QuizPublicationsKeep
  <2>5. ASSUME UNCHANGED <<objects, durable, spent>>
        PROVE  Kept
    BY <2>5, StandingStillKeeps
  <2>6. QED
    BY <1>0, <1>5, <2>2, <2>3, <2>4, <2>5 DEF GenerateForHandler
<1>6. CASE FinishHandler
  <2> DEFINE i == handler.item
  <2>1. handler \in HandlerType /\ i \in ItemIds /\ handler.event \in Nat
        /\ handler.due \in BOOLEAN
    BY <1>1, <1>6 DEF FinishHandler, HandlerType
  <2>2. /\ mem.items[i] \in ItemType /\ mem.items[i].practice \in Nat
    BY <1>0, <2>1, ReviewItemTypes DEF ItemType
  <2>3. \/ SaveItem(i, Started(i, mem.items[i], handler.due))
        \/ SaveItem(i, InRetestWith(i, mem.items[i], mem.items[i].practice))
        \/ SaveItem(i, InRetestWith(i, mem.items[i], handler.event))
        \/ UNCHANGED <<objects, durable, spent>>
    BY <1>6 DEF FinishHandler
  <2> HIDE DEF i
  <2>4. ASSUME SaveItem(i, Started(i, mem.items[i], handler.due))
        PROVE  Kept
    BY <1>0, <2>1, <2>2, <2>4, ReviewItemTypes, ItemsKeep
  <2>5. ASSUME SaveItem(i, InRetestWith(i, mem.items[i], mem.items[i].practice))
        PROVE  Kept
    BY <1>0, <2>1, <2>2, <2>5, ReviewItemTypes, ItemsKeep
  <2>6. ASSUME SaveItem(i, InRetestWith(i, mem.items[i], handler.event))
        PROVE  Kept
    BY <1>0, <2>1, <2>2, <2>6, ReviewItemTypes, ItemsKeep
  <2>7. Kept
    BY <2>3, <2>4, <2>5, <2>6, StandingStillKeeps
  <2>8. QED
    BY <1>0, <1>6, <2>7 DEF FinishHandler
<1>7. CASE DeleteReviewItem
  <2>1. PICK i \in ItemIds : SaveItem(i, NoItem)
    BY <1>7 DEF DeleteReviewItem
  <2>2. NoItem \in ItemType /\ NoItem.status # "completed"
    BY ReviewAssumption DEF NoItem, ItemType
  <2>3. QED
    BY <1>0, <1>1, <1>7, <2>1, <2>2, ItemsKeep DEF DeleteReviewItem
<1>8. QED
  BY <1>2, <1>3, <1>4, <1>5, <1>6, <1>7

-----------------------------------------------------------------------------
(* Threads, loads, crashes and resets *)

LEMMA ThreadShapes ==
    /\ NoJob.held \notin {"queued", "live", "discarded"}
    /\ NoPractice.held \notin {"queued", "live", "discarded"}
    /\ \A t \in JobType : /\ Discard(t) \in JobType
                          /\ Discard(t).held # "live"
                          /\ Discard(t).held = "discarded" => t.held \in {"live", "discarded"}
    /\ \A t \in PracticeType : /\ Discard(t) \in PracticeType
                               /\ Discard(t).held # "live"
                               /\ Discard(t).held = "discarded" => t.held \in {"live", "discarded"}
    /\ Discard(NoJob) = NoJob /\ Discard(NoPractice) = NoPractice
  BY LearnerAssumption DEF NoJob, NoPractice, Discard, JobType, PracticeType

LEMMA KeptWithThreads ==
    ASSUME LearnerInv, Kept, ThreadTypes',
           "live" \in {job'.held, practice'.held} \/ handler' # NoHandler => mem # None,
           "discarded" \in {job'.held, practice'.held} => discarded # None
    PROVE  LearnerInv'
<1>1. CopiesAreSound'
  BY SoundnessIsTimeless DEF Kept
<1>2. QED
  BY <1>1 DEF LearnerInv, Kept, HeldObjectsExist

LEMMA ThreadStepsKeep ==
    ASSUME LearnerInv,
           BeginPractice \/ FinishPractice \/ RequestGeneration \/ ClaimJob
             \/ PublishCard \/ FailCard
    PROVE  LearnerInv'
<1>0. ThreadTypes /\ HeldObjectsExist
  BY DEF LearnerInv
<1>1. CASE BeginPractice
  <2>1. PICK n \in Nodes : practice' = [held |-> "live", node |-> n]
    BY <1>1 DEF BeginPractice
  <2>2. practice' \in PracticeType /\ practice'.held = "live" /\ mem # None
    BY <1>1, <2>1 DEF PracticeType, BeginPractice, Serving
  <2>3. Kept /\ UNCHANGED <<handler, job>>
    BY <1>1, StandingStillKeeps DEF BeginPractice
  <2>4. QED
    BY <1>0, <2>2, <2>3, KeptWithThreads DEF ThreadTypes, HeldObjectsExist
<1>2. CASE FinishPractice
  BY <1>0, <1>2, PracticesKeep, ThreadShapes, KeptWithThreads
     DEF FinishPractice, ThreadTypes, HeldObjectsExist
<1>3. CASE RequestGeneration
  <2>1. job' \in JobType /\ job'.held = "queued"
    <3>1. PICK n \in Nodes :
            \/ job' = [held |-> "queued", node |-> n, quiz |-> TRUE, force |-> TRUE]
            \/ job' = [held |-> "queued", node |-> n, quiz |-> TRUE, force |-> FALSE]
            \/ job' = [held |-> "queued", node |-> n, quiz |-> FALSE, force |-> FALSE]
      BY <1>3 DEF RequestGeneration
    <3>2. CASE job' = [held |-> "queued", node |-> n, quiz |-> TRUE, force |-> TRUE]
      BY <3>2 DEF JobType
    <3>3. CASE job' = [held |-> "queued", node |-> n, quiz |-> TRUE, force |-> FALSE]
      BY <3>3 DEF JobType
    <3>4. CASE job' = [held |-> "queued", node |-> n, quiz |-> FALSE, force |-> FALSE]
      BY <3>4 DEF JobType
    <3>5. QED
      BY <3>1, <3>2, <3>3, <3>4
  <2>2. Kept /\ UNCHANGED <<handler, practice>>
    BY <1>3, StandingStillKeeps DEF RequestGeneration
  <2>3. QED
    BY <1>0, <2>1, <2>2, KeptWithThreads DEF ThreadTypes, HeldObjectsExist
<1>4. CASE ClaimJob
  <2>1. job \in JobType /\ mem # None
    BY <1>0, <1>4, ThreadShapes DEF ClaimJob, ThreadTypes
  <2>2. job' = NoJob \/ (job' \in JobType /\ job'.held = "live")
    BY <1>4, <2>1 DEF ClaimJob, JobType
  <2>3. Kept /\ UNCHANGED <<handler, practice>>
    BY <1>4, StandingStillKeeps DEF ClaimJob
  <2>4. QED
    BY <1>0, <2>1, <2>2, <2>3, ThreadShapes, KeptWithThreads DEF ThreadTypes, HeldObjectsExist
<1>5. CASE PublishCard
  <2>1. job \in JobType /\ job.held \in {"live", "discarded"} /\ job.node \in Nodes
        /\ job.force \in BOOLEAN
    BY <1>0, <1>5, ThreadShapes DEF PublishCard, ThreadTypes, JobType
  <2>2. Object(job.held) # None
    BY <2>1, HolderHasObject
  <2>3. Kept
    BY <1>5, <2>1, <2>2, QuizPublicationsKeep, CardPublicationsKeep DEF PublishCard
  <2>4. QED
    BY <1>0, <1>5, <2>3, ThreadShapes, KeptWithThreads
       DEF PublishCard, ThreadTypes, HeldObjectsExist
<1>6. CASE FailCard
  BY <1>0, <1>6, StandingStillKeeps, ThreadShapes, KeptWithThreads
     DEF FailCard, ThreadTypes, HeldObjectsExist
<1>7. QED
  BY <1>1, <1>2, <1>3, <1>4, <1>5, <1>6

LEMMA LearnerStepsKeep ==
    ASSUME LearnerInv,
           \/ LessonCompleted \/ AnswerSubmitted \/ CodeSubmitted
           \/ StartReview \/ StartDirectRetest \/ PrepareRetest
           \/ GenerateForHandler \/ FinishHandler \/ DeleteReviewItem
    PROVE  LearnerInv'
<1>0. ThreadTypes /\ HeldObjectsExist
  BY DEF LearnerInv
<1>1. CASE LessonCompleted \/ AnswerSubmitted \/ CodeSubmitted
  <2>1. Kept
    BY <1>1, LessonsKeep, AnswersKeep, SubmissionsKeep
  <2>2. UNCHANGED threads
    BY <1>1 DEF LessonCompleted, AnswerSubmitted, CodeSubmitted, SaveInHandler
  <2>3. QED
    BY <1>0, <2>1, <2>2, KeptWithThreads DEF threads, ThreadTypes, HeldObjectsExist
<1>2. CASE StartReview \/ StartDirectRetest \/ PrepareRetest \/ GenerateForHandler
             \/ FinishHandler \/ DeleteReviewItem
  <2>1. Kept /\ mem # None /\ handler' \in HandlerType \cup {NoHandler}
        /\ UNCHANGED <<job, practice>>
    BY <1>2, HandlersKeep
  <2>2. QED
    BY <1>0, <2>1, KeptWithThreads DEF ThreadTypes, HeldObjectsExist
<1>3. QED
  BY <1>1, <1>2

LEMMA RestartsKeep ==
    ASSUME LearnerInv, RestoreOrCreate \/ Crash \/ Reset
    PROVE  LearnerInv'
<1>0. /\ ThreadTypes /\ HeldObjectsExist /\ budget \in BudgetType
      /\ \A s \in Copies : Sound(s)
  BY DEF LearnerInv, CopiesAreSound
<1>1. Sound(FreshSession) /\ FreshSession # None
  BY <1>0, FreshSessionsAreSound, SoundIsNotNone
<1>2. CASE RestoreOrCreate
  <2>1. /\ mem = None /\ UNCHANGED <<discarded, threads, budget>>
        /\ mem' \in {snapshot, row, FreshSession} /\ mem' # None
        /\ row' \in {row, FreshSession} /\ snapshot' \in {snapshot, FreshSession}
    BY <1>1, <1>2 DEF RestoreOrCreate, durable, spent, Store, PersistSession
  <2>2. \A s \in Copies' : s \in Copies \/ s = FreshSession
    BY <2>1 DEF Copies
  <2>3. Kept
    BY <1>0, <1>1, <2>1, <2>2 DEF Kept
  <2>4. QED
    BY <1>0, <2>1, <2>3, KeptWithThreads DEF threads, ThreadTypes, HeldObjectsExist
<1>3. CASE Crash
  <2>1. \A s \in Copies' : s \in Copies
    BY <1>3 DEF Crash, Copies, durable
  <2>2. CopiesAreSound'
    BY <1>0, <1>3, <2>1, SoundnessIsTimeless DEF Crash
  <2>3. ThreadTypes' /\ HeldObjectsExist'
    BY <1>3, ThreadShapes DEF Crash, ThreadTypes, HeldObjectsExist
  <2>4. QED
    BY <1>0, <1>3, <2>2, <2>3 DEF Crash, LearnerInv
<1>4. CASE Reset
  <2>1. /\ mem # None /\ handler = NoHandler /\ handler' = handler
        /\ "discarded" \notin {job.held, practice.held}
        /\ mem' = FreshSession /\ budget' = budget
        /\ row' \in {FreshSession, None, row} /\ snapshot' \in {FreshSession, None, snapshot}
        /\ discarded' = IF "live" \in {job.held, practice.held} THEN mem ELSE discarded
        /\ job' = Discard(job) /\ practice' = Discard(practice)
    BY <1>4 DEF Reset, Serving
  <2>2. \A s \in Copies' : s \in Copies \/ s = FreshSession
    BY <2>1 DEF Copies
  <2>3. CopiesAreSound'
    BY <1>0, <1>1, <2>1, <2>2, SoundnessIsTimeless
  <2>4. ThreadTypes' /\ job'.held # "live" /\ practice'.held # "live"
    BY <1>0, <2>1, ThreadShapes DEF ThreadTypes
  <2>5. "discarded" \in {job'.held, practice'.held} => "live" \in {job.held, practice.held}
    BY <1>0, <2>1, ThreadShapes DEF ThreadTypes
  <2>6. HeldObjectsExist'
    BY <1>1, <2>1, <2>4, <2>5 DEF HeldObjectsExist
  <2>7. QED
    BY <1>0, <2>1, <2>3, <2>4, <2>6 DEF LearnerInv
<1>5. QED
  BY <1>2, <1>3, <1>4

LEMMA LearnerInvariant == Spec => []LearnerInv
<1>1. Init => LearnerInv
  <2> SUFFICES ASSUME Init PROVE LearnerInv
    OBVIOUS
  <2>1. Copies = {}
    BY DEF Init, Copies
  <2>2. budget \in BudgetType
    BY LearnerAssumption DEF Init
  <2>3. ThreadTypes /\ HeldObjectsExist
    BY ThreadShapes DEF Init, ThreadTypes, HeldObjectsExist
  <2>4. QED
    BY <2>1, <2>2, <2>3 DEF LearnerInv, CopiesAreSound
<1>2. LearnerInv /\ [Next]_learnerVars => LearnerInv'
  <2> SUFFICES ASSUME LearnerInv, [Next]_learnerVars PROVE LearnerInv'
    OBVIOUS
  <2>1. CASE Next
    BY <2>1, ThreadStepsKeep, LearnerStepsKeep, RestartsKeep DEF Next
  <2>2. CASE UNCHANGED learnerVars
    <3>1. Kept /\ UNCHANGED <<handler, job, practice>>
      BY <2>2, StandingStillKeeps DEF learnerVars, threads
    <3>2. QED
      BY <3>1, KeptWithThreads DEF LearnerInv, ThreadTypes, HeldObjectsExist
  <2>3. QED
    BY <2>1, <2>2
<1>3. QED
  BY <1>1, <1>2, PTL DEF Spec

-----------------------------------------------------------------------------
(* Theorems *)

\* The object a request, a job or a submission works on is there, and every
\* copy of the session, also one that a failed save or a restart left behind,
\* is well formed, its levels between nothing and the top.
THEOREM SessionTypes == Spec => []LearnerTypeOK
<1>1. LearnerInv => LearnerTypeOK
  BY DEF LearnerInv, HeldObjectsExist, CopiesAreSound, Sound, Shaped, LearnerTypeOK
<1>2. QED
  BY <1>1, LearnerInvariant, PTL

\* mastery_attributions explains every copy's mastery: quiz completions and
\* accepted code are the only writers, and each appends what it changed
\* before persist_session, a reset or a crash can part the two.
THEOREM EveryLevelIsAttributed == Spec => []MasteryIsAttributed
<1>1. LearnerInv => MasteryIsAttributed
  BY DEF LearnerInv, CopiesAreSound, Sound, MasteryIsAttributed
<1>2. QED
  BY <1>1, LearnerInvariant, PTL

\* No quiz revision, receipt or code exercise of a node moves mastery twice
\* in any copy: consumed_quiz_ids and the credited resources are written by
\* the change that uses them.
THEOREM EvidenceIsCountedOnce == Spec => []EvidenceCountsOnce
<1>1. LearnerInv => EvidenceCountsOnce
  BY DEF LearnerInv, CopiesAreSound, Sound, CountsOnce, EvidenceCountsOnce
<1>2. QED
  BY <1>1, LearnerInvariant, PTL

\* review_service.py never leaves an item completed whose last verdict, of a
\* quiz or of the code runner, is not a right one.
THEOREM CompletionIsProven == Spec => []CompletedWasProven
<1>1. LearnerInv => CompletedWasProven
  BY DEF LearnerInv, CopiesAreSound, Sound, WasProven, CompletedWasProven
<1>2. QED
  BY <1>1, LearnerInvariant, PTL

-----------------------------------------------------------------------------
(* The journey through a course *)

\* A set of positions that is not empty has a smallest member: of the sets of
\* smaller members, ordered by inclusion, one is minimal.
LEMMA SmallestPosition ==
    ASSUME NEW n \in Nat, NEW S \in SUBSET (1..n), S # {}
    PROVE  \E m \in S : \A j \in S : m <= j
<1> DEFINE Below(i) == {j \in S : j < i}
           All == {Below(i) : i \in S}
<1>1. IsFiniteSet(S)
  <2>1. IsFiniteSet(1..n)  BY FS_Interval
  <2> QED  BY <2>1, FS_Subset
<1>2. All \subseteq FiniteSubsetsOf(S)
  <2> SUFFICES ASSUME NEW i \in S PROVE Below(i) \in FiniteSubsetsOf(S)
      OBVIOUS
  <2>1. Below(i) \subseteq S  OBVIOUS
  <2>2. IsFiniteSet(Below(i))  BY <1>1, <2>1, FS_Subset
  <2> QED  BY <2>1, <2>2 DEF FiniteSubsetsOf
<1>3. All # {}
  OBVIOUS
<1>4. IsWellFoundedOn(StrictSubsetOrdering(S), FiniteSubsetsOf(S))
  BY FS_StrictSubsetOrderingWellFounded
<1>5. PICK T \in All : \A U \in All : <<U, T>> \notin StrictSubsetOrdering(S)
  <2> HIDE DEF All
  <2> QED  BY <1>2, <1>3, <1>4, WFMin
<1>6. PICK m \in S : T = Below(m)
  OBVIOUS
<1>7. \A j \in S : m <= j
  <2> SUFFICES ASSUME NEW j \in S, j < m PROVE FALSE
      OBVIOUS
  <2>1. (\A i \in S : i < j => i < m) /\ ~ (j < j)  OBVIOUS
  <2>2. Below(j) \subseteq Below(m)  BY <2>1
  <2>3. j \in Below(m) /\ j \notin Below(j)  BY <2>1
  <2>4. <<Below(j), Below(m)>> \in StrictSubsetOrdering(S)
    <3>1. Below(j) \in SUBSET S /\ Below(m) \in SUBSET S  OBVIOUS
    <3>2. Below(j) # Below(m)  BY <2>3
    <3> HIDE DEF Below
    <3> QED  BY <3>1, <3>2, <2>2 DEF StrictSubsetOrdering
  <2> QED  BY <2>4, <1>5, <1>6
<1> QED  BY <1>7

-----------------------------------------------------------------------------
(* The cold start of a profile *)

ColdType ==
    [phase : 0..8, value : [1..6 -> 0..7], collected : Nat, epoch : Nat,
     fused : BOOLEAN, probe : BOOLEAN]

Filled(c) == {d \in 1..6 : c.value[d] # 0}

\* The count is that of the values; whoever is asked a question has answered
\* the ones before it; a cold start that is complete lacks only what is never
\* inferred, and nothing unless it was inferred.
ColdSound(c) ==
    /\ c \in ColdType
    /\ c.collected = Cardinality(Filled(c))
    /\ c.phase \in 1..6 => \A d \in 1..6 : d < c.phase => c.value[d] # 0
    /\ c.phase = 7 => \A d \in 1..6 : c.value[d] # 0 \/ (c.fused /\ d \notin C!Inferable)
    /\ c.fused => c.phase \in {7, 8}
    /\ c.phase = 8 => c.fused

ColdInv ==
    /\ \A c \in {cold, stored} :
          /\ c # NoValue => ColdSound(c) /\ c.phase # 8
          /\ plan.cold = "service" => ColdSound(c) /\ c.phase # 8 /\ c.epoch = 0 /\ ~c.fused
    /\ profile \in [1..6 -> 0..7]
    /\ profile # C!NoProfile => \A d \in C!Inferable : profile[d] # 0
    /\ page \in 0..6

LEMMA SixDimensions == IsFiniteSet(1..6) /\ Cardinality(1..6) = 6
<1>1. 1 \in Int /\ 6 \in Int /\ ~ (1 > 6) /\ 6 - 1 + 1 = 6
  OBVIOUS
<1> QED  BY <1>1, FS_Interval

LEMMA AllCollectedIsWhole ==
    ASSUME NEW c, ColdSound(c)
    PROVE  C!AllCollected(c) <=> \A d \in 1..6 : c.value[d] # 0
<1>1. IsFiniteSet(1..6) /\ Cardinality(1..6) = 6
  BY SixDimensions
<1>2. Filled(c) \in SUBSET (1..6)
  BY DEF Filled
<1>3. Cardinality(Filled(c)) \in Nat /\ Cardinality(Filled(c)) <= 6
  BY <1>1, <1>2, FS_Subset, FS_CardinalityType
<1>4. c.collected = Cardinality(Filled(c))
  BY DEF ColdSound
<1>5. Cardinality(Filled(c)) = 6 => Filled(c) = 1..6
  BY <1>1, <1>2, FS_Subset
<1>6. (Filled(c) = 1..6) <=> \A d \in 1..6 : c.value[d] # 0
  BY DEF Filled
<1> QED  BY <1>1, <1>3, <1>4, <1>5, <1>6 DEF C!AllCollected

LEMMA FreshIsSound == ColdSound(C!Fresh)
<1>1. Filled(C!Fresh) = {}
  BY DEF Filled, C!Fresh, C!Dimensions, C!Missing
<1>2. C!Fresh \in ColdType
  BY DEF ColdType, C!Fresh, C!Welcome, C!Dimensions, C!Missing
<1>3. C!Fresh.phase = 0 /\ C!Fresh.collected = 0 /\ C!Fresh.fused = FALSE
  BY DEF C!Fresh, C!Welcome
<1> QED  BY <1>1, <1>2, <1>3, FS_EmptySet DEF ColdSound

\* An answer fills the dimension that was asked, once.
LEMMA MarkedIsCounted ==
    ASSUME NEW c, ColdSound(c), NEW d \in 1..6, NEW v \in 1..7
    PROVE  LET m == C!MarkCollected(c, d, v)
           IN  /\ m \in ColdType /\ m.collected = Cardinality(Filled(m)) /\ m.value[d] # 0
               /\ \A e \in 1..6 : c.value[e] # 0 => m.value[e] # 0
               /\ m.phase = c.phase /\ m.fused = c.fused /\ m.epoch = c.epoch /\ m.probe = c.probe
<1> DEFINE m == C!MarkCollected(c, d, v)
<1>1. c \in ColdType /\ c.collected = Cardinality(Filled(c))
  BY DEF ColdSound
<1>2. CASE c.value[d] # 0
  <2>1. m = c  BY <1>2 DEF C!MarkCollected, C!Missing
  <2> QED  BY <2>1, <1>1, <1>2
<1>3. CASE c.value[d] = 0
  <2>1. m = [c EXCEPT !.value[d] = v, !.collected = @ + 1]
    BY <1>3 DEF C!MarkCollected, C!Missing
  <2>2. /\ m \in ColdType /\ m.collected = c.collected + 1 /\ m.value = [c.value EXCEPT ![d] = v]
        /\ m.phase = c.phase /\ m.fused = c.fused /\ m.epoch = c.epoch /\ m.probe = c.probe
    <3>1. /\ c.value \in [1..6 -> 0..7] /\ c.phase \in 0..8 /\ c.collected \in Nat /\ c.epoch \in Nat
          /\ c.fused \in BOOLEAN /\ c.probe \in BOOLEAN
      BY <1>1 DEF ColdType
    <3>2. [c.value EXCEPT ![d] = v] \in [1..6 -> 0..7] /\ c.collected + 1 \in Nat
      BY <3>1
    <3>3. m = [c EXCEPT !.value = [c.value EXCEPT ![d] = v], !.collected = c.collected + 1]
      BY <2>1
    <3> HIDE DEF m
    <3> QED  BY <3>1, <3>2, <3>3, <1>1 DEF ColdType
  <2>3. c.value \in [1..6 -> 0..7]
    BY <1>1 DEF ColdType
  <2> HIDE DEF m
  <2>4. Filled(m) = Filled(c) \cup {d} /\ d \notin Filled(c)
    BY <2>2, <2>3, <1>3 DEF Filled
  <2>5. IsFiniteSet(Filled(c))
    <3>1. Filled(c) \in SUBSET (1..6)  BY DEF Filled
    <3> QED  BY <3>1, SixDimensions, FS_Subset
  <2>6. Cardinality(Filled(m)) = Cardinality(Filled(c)) + 1
    BY <2>4, <2>5, FS_AddElement
  <2>7. m.value[d] # 0 /\ \A e \in 1..6 : c.value[e] # 0 => m.value[e] # 0
    BY <2>2, <2>3
  <2> QED  BY <2>2, <2>6, <2>7, <1>1 DEF m
<1> QED  BY <1>2, <1>3
\* Another phase of the same values.
LEMMA PhaseChanged ==
    ASSUME NEW c \in ColdType, c.collected = Cardinality(Filled(c)),
           NEW g \in ColdType, g.value = c.value, g.collected = c.collected,
           g.phase \in 1..6 => \A d \in 1..6 : d < g.phase => c.value[d] # 0,
           g.phase = 7 => \A d \in 1..6 : c.value[d] # 0 \/ (g.fused /\ d \notin C!Inferable),
           g.fused => g.phase \in {7, 8}, g.phase = 8 => g.fused
    PROVE  ColdSound(g)
<1>1. Filled(g) = Filled(c)
  BY DEF Filled
<1> QED  BY <1>1 DEF ColdSound

LEMMA ColdFields ==
    ASSUME NEW c \in ColdType
    PROVE  /\ c.value \in [1..6 -> 0..7] /\ c.phase \in 0..8 /\ c.collected \in Nat /\ c.epoch \in Nat
           /\ c.fused \in BOOLEAN /\ c.probe \in BOOLEAN
           /\ c = [phase |-> c.phase, value |-> c.value, collected |-> c.collected,
                   epoch |-> c.epoch, fused |-> c.fused, probe |-> c.probe]
BY DEF ColdType

LEMMA ResponseIsSound ==
    ASSUME NEW c, ColdSound(c), c.phase # 8, NEW v \in 1..7
    PROVE  LET p == C!ProcessResponse(c, v)
           IN  /\ ColdSound(p) /\ p.epoch = c.epoch
               /\ c.epoch = 0 /\ ~c.fused => p.phase # 8 /\ ~p.fused
<1> DEFINE d == c.phase
           m == IF d \in 1..6 THEN C!MarkCollected(c, d, v) ELSE c
           p == C!ProcessResponse(c, v)
<1>1. /\ c \in ColdType /\ d \in 0..7 /\ c.fused \in BOOLEAN
      /\ c.phase \in 1..6 => \A e \in 1..6 : e < c.phase => c.value[e] # 0
      /\ c.phase = 7 => \A e \in 1..6 : c.value[e] # 0 \/ (c.fused /\ e \notin C!Inferable)
      /\ c.fused => c.phase = 7
  BY DEF ColdSound, ColdType
<1>2. /\ m \in ColdType /\ m.collected = Cardinality(Filled(m))
      /\ \A e \in 1..6 : c.value[e] # 0 => m.value[e] # 0
      /\ d \in 1..6 => m.value[d] # 0
      /\ m.phase = d /\ m.fused = c.fused /\ m.epoch = c.epoch
  <2>1. CASE d \in 1..6
    <3>1. m = C!MarkCollected(c, d, v)  BY <2>1
    <3> HIDE DEF m, d
    <3> QED  BY <2>1, <3>1, MarkedIsCounted DEF d
  <2>2. CASE d \notin 1..6
    BY <2>2 DEF ColdSound
  <2> QED  BY <2>1, <2>2
<1>p. p = CASE C!AllCollected(m) -> [m EXCEPT !.phase = 7]
            [] C!ShouldFuse(m) -> [m EXCEPT !.phase = 8, !.fused = TRUE]
            [] OTHER -> [m EXCEPT !.phase = C!NextPhase(@)]
  BY DEF C!ProcessResponse, C!Dimensions, C!Complete, C!Fallback
<1> HIDE DEF m, p
<1>q. C!ShouldFuse(m) => ~C!AllCollected(m)
  BY DEF C!ShouldFuse
<1>3. /\ C!AllCollected(m) => p = [m EXCEPT !.phase = 7]
      /\ ~C!AllCollected(m) /\ C!ShouldFuse(m) => p = [m EXCEPT !.phase = 8, !.fused = TRUE]
      /\ ~C!AllCollected(m) /\ ~C!ShouldFuse(m) => p = [m EXCEPT !.phase = C!NextPhase(@)]
  BY <1>p, <1>q
<1>4. ColdSound(m)
  BY <1>1, <1>2 DEF ColdSound
<1>5. C!AllCollected(m) <=> \A e \in 1..6 : m.value[e] # 0
  BY <1>4, AllCollectedIsWhole
<1>s. m.fused \in BOOLEAN /\ m.probe \in BOOLEAN
  BY <1>2 DEF ColdType
<1>6. CASE C!AllCollected(m)
  <2>1. /\ p \in ColdType /\ p.phase = 7 /\ p.value = m.value /\ p.collected = m.collected
        /\ p.fused = m.fused /\ p.epoch = m.epoch
    BY <1>2, <1>3, <1>6 DEF ColdType
  <2>2. ColdSound(p)
    BY <2>1, <1>2, <1>5, <1>6, PhaseChanged
  <2> QED  BY <2>1, <2>2, <1>2 DEF p
<1>7. CASE ~C!AllCollected(m) /\ C!ShouldFuse(m)
  <2>1. /\ p \in ColdType /\ p.phase = 8 /\ p.value = m.value /\ p.collected = m.collected
        /\ p.fused = TRUE /\ p.epoch = m.epoch
    <3>2. PICK yes \in BOOLEAN : yes = TRUE  OBVIOUS
    <3>1. p = [m EXCEPT !.phase = 8, !.fused = yes]  BY <1>3, <1>7, <3>2
    <3>3. /\ p \in ColdType /\ p.phase = 8 /\ p.value = m.value /\ p.collected = m.collected
          /\ p.fused = yes /\ p.epoch = m.epoch
      <4>0. m = [phase |-> m.phase, value |-> m.value, collected |-> m.collected,
                 epoch |-> m.epoch, fused |-> m.fused, probe |-> m.probe]
        BY <1>2, ColdFields
      <4>1. p = [phase |-> 8, value |-> m.value, collected |-> m.collected,
                 epoch |-> m.epoch, fused |-> yes, probe |-> m.probe]
        BY <3>1, <4>0
      <4>2. m.value \in [1..6 -> 0..7] /\ m.collected \in Nat /\ m.epoch \in Nat /\ m.probe \in BOOLEAN
        BY <1>2, ColdFields
      <4> QED  BY <4>1, <4>2, <3>2 DEF ColdType
    <3> QED  BY <3>2, <3>3
  <2>2. ColdSound(p)
    BY <2>1, <1>2, PhaseChanged
  <2>3. m.epoch # 0
    BY <1>7 DEF C!ShouldFuse, C!HardEpochLimit
  <2> QED  BY <2>1, <2>2, <2>3, <1>2 DEF p
<1>8. CASE ~C!AllCollected(m) /\ ~C!ShouldFuse(m)
  <2> DEFINE next == C!NextPhase(d)
  <2>1. next = IF d < 6 THEN d + 1 ELSE 7
    BY DEF C!NextPhase, C!Complete
  <2>2. d # 6
    <3> SUFFICES ASSUME d = 6 PROVE FALSE
        OBVIOUS
    <3>1. \A e \in 1..6 : e = 6 \/ e < 6  OBVIOUS
    <3> QED  BY <3>1, <1>1, <1>2, <1>5, <1>8
  <2>3. next \in 1..7 /\ next \in 0..8
    BY <2>1, <1>1
  <2>4. /\ p \in ColdType /\ p.phase = next /\ p.value = m.value /\ p.collected = m.collected
        /\ p.fused = m.fused /\ p.epoch = m.epoch
    <3> HIDE DEF next, d
    <3> QED  BY <2>3, <1>2, <1>3, <1>8 DEF ColdType, next
  <2>5. next = 7 => \A e \in 1..6 : m.value[e] # 0 \/ (m.fused /\ e \notin C!Inferable)
    BY <2>1, <2>2, <1>1, <1>2
  <2>6. m.fused => next = 7
    BY <2>1, <1>1, <1>2
  <2>7. next \in 1..6 => \A e \in 1..6 : e < next => m.value[e] # 0
    <3> SUFFICES ASSUME next \in 1..6, NEW e \in 1..6, e < next PROVE m.value[e] # 0
        OBVIOUS
    <3>1. d \in 0..5 /\ next = d + 1  BY <2>1, <2>2, <1>1
    <3>2. (e < d \/ e = d) /\ d \in 1..6  BY <3>1
    <3> QED  BY <3>2, <1>1, <1>2
  <2> HIDE DEF next, d
  <2>8. ColdSound(p)
    BY <2>3, <2>4, <2>5, <2>6, <2>7, <1>2, PhaseChanged
  <2> QED  BY <2>3, <2>4, <2>8, <1>2 DEF p
<1> QED  BY <1>6, <1>7, <1>8 DEF p

\* ColdStart sees the standard operator by way of its own instance.
LEMMA SameCardinality == \A S : C!Cardinality(S) = Cardinality(S)
BY DEF C!Cardinality, Cardinality

LEMMA FusionIsSound ==
    ASSUME NEW c, ColdSound(c)
    PROVE  LET f == C!ExecuteFusion(c)
           IN  /\ ColdSound(f) /\ f.phase = 7 /\ f.epoch = c.epoch
               /\ \A d \in C!Inferable : f.value[d] # 0
<1> DEFINE f == C!ExecuteFusion(c)
           fill == {d \in C!Inferable : c.value[d] = 0}
           value == [d \in 1..6 |-> IF d \in fill THEN 7 ELSE c.value[d]]
<1>1. c \in ColdType /\ c.collected = Cardinality(Filled(c)) /\ c.value \in [1..6 -> 0..7]
      /\ c.collected \in Nat
  BY DEF ColdSound, ColdType
<1>2. C!Inferable \subseteq 1..6 /\ fill \in SUBSET (1..6)
  BY DEF C!Inferable
<1>3. f = [c EXCEPT !.value = value, !.collected = c.collected + Cardinality(fill),
                    !.phase = 7, !.fused = TRUE]
  <2> DEFINE gaps == {d \in C!Inferable : c.value[d] = C!Missing}
  <2>1. C!ExecuteFusion(c) =
          [c EXCEPT !.value = [d \in C!Dimensions |-> IF d \in gaps THEN C!Inferred ELSE @[d]],
                    !.collected = @ + Cardinality(gaps), !.phase = C!Complete, !.fused = TRUE]
    <3>1. C!Cardinality(gaps) = Cardinality(gaps)  BY SameCardinality
    <3> QED  BY <3>1 DEF C!ExecuteFusion
  <2>2. gaps = fill  BY DEF C!Missing
  <2> HIDE DEF gaps, fill
  <2>3. C!Dimensions = 1..6 /\ C!Inferred = 7 /\ C!Complete = 7
    BY DEF C!Dimensions, C!Inferred, C!Complete
  <2> QED  BY <2>1, <2>2, <2>3
<1>4. IsFiniteSet(fill) /\ Cardinality(fill) \in Nat /\ IsFiniteSet(Filled(c))
  <2>1. Filled(c) \in SUBSET (1..6)  BY DEF Filled
  <2> QED  BY <1>2, <2>1, SixDimensions, FS_Subset, FS_CardinalityType
<1>5. value \in [1..6 -> 0..7] /\ \A d \in 1..6 : value[d] = IF d \in fill THEN 7 ELSE c.value[d]
  BY <1>1
<1> HIDE DEF value
<1>6. /\ f \in ColdType /\ f.value = value /\ f.collected = c.collected + Cardinality(fill)
      /\ f.phase = 7 /\ f.fused = TRUE /\ f.epoch = c.epoch
  <2> DEFINE k == Cardinality(fill)
             n == c.collected + k
  <2>1. n \in Nat  BY <1>1, <1>4
  <2>y. PICK yes \in BOOLEAN : yes = TRUE  OBVIOUS
  <2>2. f = [c EXCEPT !.value = value, !.collected = n, !.phase = 7, !.fused = yes]
    BY <1>3, <2>y
  <2>3. value \in [1..6 -> 0..7]  BY <1>5
  <2> HIDE DEF n, fill, f
  <2>4. /\ f \in ColdType /\ f.value = value /\ f.collected = n
        /\ f.phase = 7 /\ f.fused = yes /\ f.epoch = c.epoch
    <3>1. c = [phase |-> c.phase, value |-> c.value, collected |-> c.collected,
               epoch |-> c.epoch, fused |-> c.fused, probe |-> c.probe]
      BY <1>1, ColdFields
    <3>2. f = [phase |-> 7, value |-> value, collected |-> n,
               epoch |-> c.epoch, fused |-> yes, probe |-> c.probe]
      BY <2>2, <3>1
    <3>3. c.epoch \in Nat /\ c.probe \in BOOLEAN  BY <1>1, ColdFields
    <3> QED  BY <2>1, <2>3, <3>2, <3>3 DEF ColdType
  <2> QED  BY <2>4, <2>y DEF n
<1> HIDE DEF f
<1>7. Filled(f) = Filled(c) \cup fill /\ Filled(c) \cap fill = {}
  BY <1>2, <1>5, <1>6 DEF Filled
<1>8. f.collected = Cardinality(Filled(f))
  <2> DEFINE old == Filled(c)
  <2> HIDE DEF fill, old
  <2>1. Cardinality(old \cup fill) = Cardinality(old) + Cardinality(fill) - Cardinality(old \cap fill)
    BY <1>4, FS_Union DEF old
  <2>2. Cardinality(old \cap fill) = 0  BY <1>7, FS_EmptySet DEF old
  <2>3. Cardinality(old) = c.collected /\ c.collected \in Nat  BY <1>1 DEF old
  <2>4. Cardinality(old \cup fill) = c.collected + Cardinality(fill)
    BY <2>1, <2>2, <2>3, <1>4
  <2>5. Filled(f) = old \cup fill  BY <1>7 DEF old
  <2> QED  BY <2>4, <2>5, <1>6
<1>9. \A d \in C!Inferable : f.value[d] # 0
  <2> TAKE d \in C!Inferable
  <2>1. d \in 1..6 /\ f.value[d] = IF d \in fill THEN 7 ELSE c.value[d]  BY <1>2, <1>5, <1>6
  <2>2. d \notin fill => c.value[d] # 0  OBVIOUS
  <2> HIDE DEF fill
  <2> QED  BY <2>1, <2>2
<1> QED
  <2>1. \A d \in 1..6 : f.value[d] # 0 \/ d \notin C!Inferable  BY <1>9
  <2> QED  BY <2>1, <1>6, <1>8, <1>9 DEF ColdSound, f

LEMMA ProbeIsSound ==
    ASSUME NEW c, ColdSound(c), c.phase # 8, ~C!ShouldFuse(c)
    PROVE  LET g == C!GetNextProbe(c)
           IN  /\ ColdSound(g) /\ g.phase \in 1..7 /\ g.epoch = c.epoch /\ g.fused = c.fused
<1> DEFINE g == C!GetNextProbe(c)
           ahead == {d \in 1..6 : d >= c.phase /\ c.value[d] = 0}
<1>1. /\ c \in ColdType /\ c.phase \in 0..7 /\ c.fused \in BOOLEAN /\ c.collected = Cardinality(Filled(c))
      /\ c.phase \in 1..6 => \A e \in 1..6 : e < c.phase => c.value[e] # 0
      /\ c.fused => c.phase = 7
  BY DEF ColdSound, ColdType
<1>f. c.fused \in BOOLEAN /\ c.probe \in BOOLEAN /\ ColdSound(c)
  BY <1>1 DEF ColdType
<1>2. CASE c.phase = 7
  <2>1. g = c
    BY <1>2 DEF C!GetNextProbe, C!Complete, C!Fallback, C!Welcome
  <2> HIDE DEF g
  <2> QED  BY <2>1, <1>2, <1>f DEF g
<1>3. CASE c.phase = 0
  <2>1. g = [c EXCEPT !.phase = 1, !.probe = TRUE]
    BY <1>3 DEF C!GetNextProbe, C!Complete, C!Fallback, C!Welcome
  <2> HIDE DEF g
  <2>x. PICK yes \in BOOLEAN : yes = TRUE  OBVIOUS
  <2>y. g = [c EXCEPT !.phase = 1, !.probe = yes]  BY <2>1, <2>x
  <2>2. /\ g \in ColdType /\ g.phase = 1 /\ g.value = c.value /\ g.collected = c.collected
        /\ g.fused = c.fused /\ g.epoch = c.epoch
    <3>1. c = [phase |-> c.phase, value |-> c.value, collected |-> c.collected,
               epoch |-> c.epoch, fused |-> c.fused, probe |-> c.probe]
      BY <1>1, ColdFields
    <3>2. g = [phase |-> 1, value |-> c.value, collected |-> c.collected,
               epoch |-> c.epoch, fused |-> c.fused, probe |-> yes]
      BY <2>y, <3>1
    <3>3. c.value \in [1..6 -> 0..7] /\ c.collected \in Nat /\ c.epoch \in Nat /\ c.fused \in BOOLEAN
      BY <1>1, ColdFields
    <3> QED  BY <3>2, <3>3 DEF ColdType
  <2>3. ~c.fused /\ \A e \in 1..6 : ~ (e < 1)  BY <1>1, <1>3
  <2>4. ColdSound(g)
    BY <2>2, <2>3, <1>1, PhaseChanged
  <2> QED  BY <2>2, <2>4 DEF g
<1>4. CASE c.phase \in 1..6 /\ ahead = {}
  <2>1. g = [c EXCEPT !.phase = 7]
    BY <1>4 DEF C!GetNextProbe, C!Complete, C!Fallback, C!Welcome, C!Dimensions, C!Missing
  <2>2. \A e \in 1..6 : c.value[e] # 0
    <3>1. \A e \in 1..6 : e < c.phase \/ e >= c.phase  BY <1>4
    <3> QED  BY <3>1, <1>1, <1>4
  <2> HIDE DEF g
  <2>3. /\ g \in ColdType /\ g.phase = 7 /\ g.value = c.value /\ g.collected = c.collected
        /\ g.fused = c.fused /\ g.epoch = c.epoch
    BY <2>1, <1>1 DEF ColdType
  <2>4. ColdSound(g)
    BY <2>2, <2>3, <1>1, PhaseChanged
  <2> QED  BY <2>3, <2>4 DEF g
<1>5. CASE c.phase \in 1..6 /\ ahead # {}
  <2> DEFINE n == C!Min(ahead)
  <2>1. n \in ahead /\ \A j \in ahead : n <= j
    <3>1. ahead \in SUBSET (1..6)  OBVIOUS
    <3>2. 6 \in Nat  OBVIOUS
    <3> HIDE DEF ahead
    <3>3. \E m \in ahead : \A j \in ahead : m <= j
      BY <3>1, <3>2, <1>5, SmallestPosition
    <3> QED  BY <3>3 DEF C!Min
  <2>2. n \in 1..6 /\ n >= c.phase
    BY <2>1
  <2>3. \A e \in 1..6 : e < n => c.value[e] # 0
    <3> TAKE e \in 1..6
    <3>1. e < n => ~ (n <= e)  BY <2>2
    <3>2. e < n => e \notin ahead  BY <3>1, <2>1
    <3>3. e < c.phase \/ e >= c.phase  BY <1>1
    <3> QED  BY <3>2, <3>3, <1>1, <1>5
  <2>4. g = [c EXCEPT !.phase = n, !.probe = TRUE]
    BY <1>5 DEF C!GetNextProbe, C!Complete, C!Fallback, C!Welcome, C!Dimensions, C!Missing
  <2>5. n \in 0..8 /\ n \in 1..7 /\ n # 7 /\ n # 8 /\ ~c.fused
    BY <2>2, <1>1, <1>5
  <2> HIDE DEF n, g
  <2>6. /\ g \in ColdType /\ g.phase = n /\ g.value = c.value /\ g.collected = c.collected
        /\ g.fused = c.fused /\ g.epoch = c.epoch
    BY <2>4, <2>5, <1>1 DEF ColdType
  <2>7. ColdSound(g)
    BY <2>3, <2>5, <2>6, <1>1, PhaseChanged
  <2> QED  BY <2>5, <2>6, <2>7 DEF g
<1> QED  BY <1>1, <1>2, <1>3, <1>4, <1>5

LEMMA AppliedIsWhole ==
    ASSUME NEW c, ColdSound(c), NEW q \in [1..6 -> 0..7], \A d \in C!Inferable : c.value[d] # 0
    PROVE  C!Applied(c, q) \in [1..6 -> 0..7] /\ \A d \in C!Inferable : C!Applied(c, q)[d] # 0
<1>1. c.value \in [1..6 -> 0..7] /\ C!Inferable \subseteq 1..6
  BY ColdFields DEF ColdSound, C!Inferable
<1>2. C!Applied(c, q) = [d \in 1..6 |-> IF d \in C!Inferable THEN c.value[d] ELSE q[d]]
  BY DEF C!Applied, C!Dimensions, C!Missing
<1> QED  BY <1>1, <1>2

LEMMA CompletedIsInferable ==
    ASSUME NEW c, ColdSound(c), c.phase = 7
    PROVE  \A d \in C!Inferable : c.value[d] # 0
<1>1. C!Inferable \subseteq 1..6
  BY DEF C!Inferable
<1> QED  BY <1>1 DEF ColdSound

\* A round that is only counted.
LEMMA RoundIsSound ==
    ASSUME NEW c, ColdSound(c)
    PROVE  LET g == [c EXCEPT !.epoch = @ + 1]
           IN  ColdSound(g) /\ g.phase = c.phase
<1> DEFINE g == [c EXCEPT !.epoch = @ + 1]
<1>1. c \in ColdType /\ c.epoch + 1 \in Nat
  BY ColdFields DEF ColdSound
<1>2. /\ g \in ColdType /\ g.phase = c.phase /\ g.value = c.value /\ g.collected = c.collected
      /\ g.fused = c.fused
  BY <1>1 DEF ColdType
<1> HIDE DEF g
<1>3. ColdSound(g)
  BY <1>1, <1>2, PhaseChanged DEF ColdSound
<1> QED  BY <1>2, <1>3 DEF g

LEMMA SpendingKeepsPlan ==
    ASSUME plan \in PlanType,
           NEW what \in {"answers", "visits", "resets", "restarts", "rounds", "skips"}, Spend(what)
    PROVE  plan' \in PlanType /\ plan'.cold = plan.cold
<1>1. /\ plan.answers \in Nat /\ plan.visits \in Nat /\ plan.resets \in Nat
      /\ plan.restarts \in Nat /\ plan.rounds \in Nat /\ plan.skips \in Nat
  BY DEF PlanType
<1>2. plan[what] - 1 \in Nat
  BY <1>1 DEF Spend
<1> QED  BY <1>2 DEF Spend, PlanType

LEMMA StepsKeepPlan ==
    ASSUME plan \in PlanType, [JourneyNext]_journeyVars
    PROVE  plan' \in PlanType /\ plan'.cold = plan.cold
<1>1. \/ plan' = plan
      \/ \E what \in {"answers", "visits", "resets", "restarts", "rounds", "skips"} : Spend(what)
  BY DEF JourneyNext, AnswerNode, Visit, RequestReplan, InitPath, ResetLearner, Restart, GetProbe,
         SubmitProbeAnswer, HandleColdStartInteraction, SkipRound, journeyVars
<1> QED  BY <1>1, SpendingKeepsPlan

LEMMA ColdInit == JourneyInit => ColdInv /\ plan \in PlanType
<1> SUFFICES ASSUME JourneyInit PROVE ColdInv /\ plan \in PlanType
    OBVIOUS
<1>1. plan \in PlanType
  BY JourneyAssumption DEF JourneyInit
<1>2. C!NoProfile \in [1..6 -> 0..7]
  BY DEF C!NoProfile, C!Dimensions, C!Missing
<1>3. ColdSound(C!Fresh) /\ C!Fresh.phase # 8 /\ C!Fresh.epoch = 0 /\ ~C!Fresh.fused
  BY FreshIsSound DEF C!Fresh, C!Welcome
<1> QED  BY <1>1, <1>2, <1>3 DEF ColdInv, JourneyInit

LEMMA GetProbeKeepsCold ==
    ASSUME ColdInv, plan'.cold = plan.cold, GetProbe
    PROVE  ColdInv'
<1> DEFINE c == C!GetNextProbe(cold)
<1>1. ColdSound(cold) /\ cold.phase # 8 /\ cold.epoch = 0 /\ ~cold.fused /\ cold' = c /\ page' = Shown(c)
      /\ stored' = stored /\ profile' = profile
  BY DEF ColdInv, GetProbe
<1>2. ~C!ShouldFuse(cold)
  BY <1>1 DEF C!ShouldFuse, C!HardEpochLimit
<1>3. ColdSound(c) /\ c.phase \in 1..7 /\ c.epoch = 0 /\ ~c.fused
  BY <1>1, <1>2, ProbeIsSound
<1> HIDE DEF c
<1>4. page' \in 0..6 /\ c.phase # 8
  BY <1>1, <1>3 DEF Shown, C!Asks, C!Dimensions
<1> QED  BY <1>1, <1>3, <1>4 DEF ColdInv

LEMMA SubmissionKeepsCold ==
    ASSUME ColdInv, plan'.cold = plan.cold, SubmitProbeAnswer
    PROVE  ColdInv'
<1> DEFINE c == C!ProcessResponse(cold, page)
           after == IF C!AllCollected(c) THEN c ELSE C!GetNextProbe(c)
<1>1. /\ ColdSound(cold) /\ cold.phase # 8 /\ cold.epoch = 0 /\ ~cold.fused
      /\ page \in 1..6 /\ profile \in [1..6 -> 0..7]
  BY DEF ColdInv, SubmitProbeAnswer
<1>2. ColdSound(c) /\ c.epoch = 0 /\ c.phase # 8 /\ ~c.fused
  <2>1. page \in 1..7  BY <1>1
  <2> QED  BY <2>1, <1>1, ResponseIsSound
<1>3. ~C!ShouldFuse(c)
  BY <1>2 DEF C!ShouldFuse, C!HardEpochLimit
<1>4. /\ cold' = after /\ stored' = after
      /\ profile' = IF C!AllCollected(c) THEN C!Applied(after, profile) ELSE profile
      /\ page' \in {page, IF C!AllCollected(c) THEN 0 ELSE Shown(after)}
  BY <1>3 DEF SubmitProbeAnswer
<1> HIDE DEF c
<1>5. ColdSound(after) /\ after.epoch = 0 /\ after.phase # 8 /\ ~after.fused /\ Shown(after) \in 0..6
  <2>1. CASE C!AllCollected(c)
    <3>1. c.phase \in 0..8  BY <1>2, ColdFields DEF ColdSound
    <3> QED  BY <2>1, <3>1, <1>2 DEF Shown, C!Asks, C!Dimensions
  <2>2. CASE ~C!AllCollected(c)
    <3> DEFINE g == C!GetNextProbe(c)
    <3>1. ColdSound(g) /\ g.phase \in 1..7 /\ g.epoch = 0 /\ ~g.fused
      BY <1>2, <1>3, ProbeIsSound
    <3>2. after = g  BY <2>2
    <3> HIDE DEF g, after
    <3> QED  BY <3>1, <3>2 DEF Shown, C!Asks, C!Dimensions
  <2> QED  BY <2>1, <2>2
<1>6. /\ profile' \in [1..6 -> 0..7]
      /\ profile' # C!NoProfile => \A d \in C!Inferable : profile'[d] # 0
  <2>1. CASE C!AllCollected(c)
    <3>1. \A d \in 1..6 : after.value[d] # 0  BY <2>1, <1>2, AllCollectedIsWhole
    <3>2. C!Inferable \subseteq 1..6  BY DEF C!Inferable
    <3>3. profile' = C!Applied(after, profile)  BY <2>1, <1>4
    <3> HIDE DEF after
    <3> QED  BY <3>1, <3>2, <3>3, <1>1, <1>5, AppliedIsWhole
  <2>2. CASE ~C!AllCollected(c)
    BY <2>2, <1>4 DEF ColdInv
  <2> QED  BY <2>1, <2>2
<1> HIDE DEF after
<1>7. page' \in 0..6
  BY <1>1, <1>4, <1>5
<1> QED  BY <1>4, <1>5, <1>6, <1>7 DEF ColdInv

LEMMA HandlerKeepsCold ==
    ASSUME ColdInv, plan'.cold = plan.cold, HandleColdStartInteraction
    PROVE  ColdInv'
<1> DEFINE base == IF cold = NoValue THEN C!Fresh ELSE cold
<1>1. ColdSound(base) /\ base.phase # 8
  BY FreshIsSound DEF ColdInv, C!Fresh, C!Welcome
<1>2. PICK response \in {0, page} :
         LET c == Received(base, response)
             asked == C!GetNextProbe(c)
             fused == C!ExecuteFusion(asked)
         IN  \/ /\ C!ShouldFuse(c)
                /\ cold' = C!ExecuteFusion(c) /\ page' = 0
                /\ profile' = C!Applied(C!ExecuteFusion(c), profile)
             \/ /\ ~C!ShouldFuse(c) /\ c.phase = C!Complete
                /\ cold' = NoValue /\ page' = 0 /\ profile' = C!Applied(c, profile)
             \/ /\ ~C!ShouldFuse(c) /\ c.phase # C!Complete /\ C!Asks(asked)
                /\ cold' = asked /\ page' = asked.phase /\ UNCHANGED profile
             \/ /\ ~C!ShouldFuse(c) /\ c.phase # C!Complete /\ ~C!Asks(asked)
                /\ cold' = NoValue /\ page' = 0
                /\ profile' = C!Applied(IF asked.fused THEN fused ELSE asked, profile)
  BY DEF HandleColdStartInteraction
<1> HIDE DEF base
<1> DEFINE c == Received(base, response)
           asked == C!GetNextProbe(c)
           fused == C!ExecuteFusion(asked)
<1>3. stored' = cold' /\ plan'.cold # "service" /\ profile \in [1..6 -> 0..7] /\ page \in 0..6
  BY DEF HandleColdStartInteraction, ColdInv
<1>4. ColdSound(c)
  <2>1. CASE response = 0
    BY <2>1, <1>1 DEF Received
  <2>2. CASE response # 0 /\ base.probe
    <3>1. response \in 1..7  BY <2>2, <1>3
    <3> QED  BY <2>2, <3>1, <1>1, ResponseIsSound DEF Received
  <2>3. CASE response # 0 /\ ~base.probe
    BY <2>3, <1>1, RoundIsSound DEF Received
  <2> QED  BY <2>1, <2>2, <2>3
<1>5. c.phase = 8 => c.fused
  BY <1>4 DEF ColdSound
<1>c. C!Complete = 7 /\ C!Fallback = 8 /\ C!Welcome = 0
  BY DEF C!Complete, C!Fallback, C!Welcome
<1> HIDE DEF c
\* What becomes of the cold state, the page and the profile.
<1> DEFINE StaysSound == cold' # NoValue => ColdSound(cold') /\ cold'.phase # 8
           Whole == /\ profile' \in [1..6 -> 0..7]
                    /\ profile' # C!NoProfile => \A d \in C!Inferable : profile'[d] # 0
<1>6. CASE /\ C!ShouldFuse(c)
           /\ cold' = C!ExecuteFusion(c) /\ page' = 0
           /\ profile' = C!Applied(C!ExecuteFusion(c), profile)
  <2>1. /\ ColdSound(C!ExecuteFusion(c)) /\ C!ExecuteFusion(c).phase = 7
        /\ \A d \in C!Inferable : C!ExecuteFusion(c).value[d] # 0
    BY <1>4, FusionIsSound
  <2>2. Whole  BY <2>1, <1>3, <1>6, AppliedIsWhole
  <2>3. page' \in 0..6 /\ StaysSound  BY <2>1, <1>6
  <2> QED  BY <2>2, <2>3, <1>3 DEF ColdInv
<1>7. CASE /\ ~C!ShouldFuse(c) /\ c.phase = C!Complete
           /\ cold' = NoValue /\ page' = 0 /\ profile' = C!Applied(c, profile)
  <2>1. \A d \in C!Inferable : c.value[d] # 0  BY <1>4, <1>7, <1>c, CompletedIsInferable
  <2>2. Whole  BY <2>1, <1>3, <1>4, <1>7, AppliedIsWhole
  <2> QED  BY <2>2, <1>3, <1>7 DEF ColdInv
<1>8. CASE /\ ~C!ShouldFuse(c) /\ c.phase # C!Complete /\ C!Asks(asked)
           /\ cold' = asked /\ page' = asked.phase /\ UNCHANGED profile
  <2>1. c.phase # 8
    <3> SUFFICES ASSUME c.phase = 8 PROVE FALSE
        OBVIOUS
    <3>1. asked = c  BY <1>8, <1>c DEF C!GetNextProbe
    <3> QED  BY <3>1, <1>8 DEF C!Asks, C!Dimensions
  <2>2. ColdSound(asked) /\ asked.phase \in 1..7  BY <2>1, <1>4, <1>8, ProbeIsSound
  <2>3. asked.phase \in 1..6  BY <1>8 DEF C!Asks, C!Dimensions
  <2> HIDE DEF asked
  <2>4. page' \in 0..6 /\ StaysSound  BY <2>2, <2>3, <1>8
  <2>5. Whole  BY <1>8 DEF ColdInv
  <2> QED  BY <2>4, <2>5, <1>3 DEF ColdInv
<1>9. CASE /\ ~C!ShouldFuse(c) /\ c.phase # C!Complete /\ ~C!Asks(asked)
           /\ cold' = NoValue /\ page' = 0
           /\ profile' = C!Applied(IF asked.fused THEN fused ELSE asked, profile)
  <2>1. ColdSound(asked) /\ (asked.fused \/ asked.phase = 7)
    <3>1. CASE c.phase = 8
      <4>1. asked = c  BY <3>1, <1>9, <1>c DEF C!GetNextProbe
      <4> HIDE DEF asked
      <4> QED  BY <4>1, <3>1, <1>4, <1>5
    <3>2. CASE c.phase # 8
      <4>1. ColdSound(asked) /\ asked.phase \in 1..7  BY <3>2, <1>4, <1>9, ProbeIsSound
      <4>2. asked.phase \notin 1..6  BY <1>9 DEF C!Asks, C!Dimensions
      <4> HIDE DEF asked
      <4> QED  BY <4>1, <4>2
    <3> QED  BY <3>1, <3>2
  <2> HIDE DEF asked
  <2> DEFINE end == IF asked.fused THEN fused ELSE asked
  <2>2. ColdSound(end) /\ \A d \in C!Inferable : end.value[d] # 0
    <3>1. CASE asked.fused
      <4>1. ColdSound(fused) /\ \A d \in C!Inferable : fused.value[d] # 0
        BY <2>1, FusionIsSound
      <4> HIDE DEF fused
      <4> QED  BY <4>1, <3>1
    <3>2. CASE ~asked.fused
      BY <3>2, <2>1, CompletedIsInferable
    <3> QED  BY <3>1, <3>2
  <2> HIDE DEF end
  <2>3. profile' = C!Applied(end, profile)  BY <1>9 DEF end
  <2>4. Whole  BY <2>2, <2>3, <1>3, AppliedIsWhole
  <2> QED  BY <2>4, <1>3, <1>9 DEF ColdInv
<1> QED  BY <1>2, <1>6, <1>7, <1>8, <1>9 DEF c

LEMMA ColdStep ==
    ASSUME ColdInv, plan \in PlanType, [JourneyNext]_journeyVars
    PROVE  ColdInv'
<1>1. plan'.cold = plan.cold
  BY StepsKeepPlan
<1>2. CASE GetProbe  BY <1>1, <1>2, GetProbeKeepsCold
<1>3. CASE SubmitProbeAnswer  BY <1>1, <1>3, SubmissionKeepsCold
<1>4. CASE HandleColdStartInteraction  BY <1>1, <1>4, HandlerKeepsCold
<1>5. CASE SkipRound
  <2>1. ColdSound(cold') /\ cold'.phase # 8 /\ stored' = cold' /\ plan.cold # "service"
        /\ profile' = profile /\ page' = page
    BY <1>5, RoundIsSound DEF SkipRound, ColdInv
  <2> QED  BY <2>1, <1>1 DEF ColdInv
<1>6. CASE Restart
  BY <1>1, <1>6 DEF Restart, ColdInv
<1>7. CASE UNCHANGED coldVars
  BY <1>1, <1>7 DEF ColdInv, coldVars
<1>8. CASE AnswerNode \/ Visit \/ RequestReplan \/ InitPath \/ ResetLearner
  <2>1. UNCHANGED coldVars
    BY <1>8 DEF AnswerNode, Visit, RequestReplan, InitPath, ResetLearner, coldVars
  <2> QED  BY <2>1, <1>7
<1>9. CASE UNCHANGED journeyVars
  BY <1>7, <1>9 DEF journeyVars
<1> QED  BY <1>2, <1>3, <1>4, <1>5, <1>6, <1>8, <1>9 DEF JourneyNext

\* A cold start that says it is complete has a value for every dimension, and
\* whatever a profile takes over has no gap in what is inferred.
THEOREM ProfilesAreWhole == JourneySpec => []CompleteProfileIsWhole
<1>1. ColdInv => CompleteProfileIsWhole
  <2> SUFFICES ASSUME ColdInv PROVE CompleteProfileIsWhole
      OBVIOUS
  <2>1. cold # NoValue => ColdSound(cold)
    BY DEF ColdInv
  <2>2. profile # C!NoProfile => \A d \in C!Inferable : profile[d] # C!Missing
    BY DEF ColdInv, C!Missing
  <2> QED  BY <2>1, <2>2 DEF CompleteProfileIsWhole, ColdSound, C!Complete, C!Dimensions, C!Missing
<1>2. ColdInv /\ plan \in PlanType /\ [JourneyNext]_journeyVars => ColdInv' /\ (plan \in PlanType)'
  BY ColdStep, StepsKeepPlan
<1> QED  BY <1>1, <1>2, ColdInit, PTL DEF JourneySpec

-----------------------------------------------------------------------------
(* The numbers of an answer *)

\* A part of a number lies between it and zero.
LEMMA TimesIsBetween ==
    ASSUME NEW a \in Int, NEW b \in 0..Scale
    PROVE  /\ Times(a, b) \in Int
           /\ a >= 0 => 0 <= Times(a, b) /\ Times(a, b) <= a
           /\ a <= 0 => a <= Times(a, b) /\ Times(a, b) <= 0
           /\ b = Scale => Times(a, b) = a
<1> DEFINE p == a * b
<1>1. b \in Int /\ 0 <= b /\ b <= 10000
  BY DEF Scale
<1>2. p \in Int
  BY <1>1
<1>3. Times(a, b) = IF p >= 0 THEN p \div 10000 ELSE -((-p) \div 10000)
  BY DEF Times, Cut, Scale
<1>4. a >= 0 => 0 <= p /\ p <= a * 10000
  BY <1>1
<1>5. a <= 0 => p <= 0 /\ a * 10000 <= p
  BY <1>1
<1>6. b = Scale => p = a * 10000
  BY DEF Scale
<1> HIDE DEF p
<1>7. Times(a, b) \in Int
  BY <1>2, <1>3
<1>8. a >= 0 => 0 <= Times(a, b) /\ Times(a, b) <= a
  BY <1>2, <1>3, <1>4
<1>9. a <= 0 => a <= Times(a, b) /\ Times(a, b) <= 0
  BY <1>2, <1>3, <1>5
<1>10. b = Scale => Times(a, b) = a
  BY <1>2, <1>3, <1>6
<1> QED  BY <1>7, <1>8, <1>9, <1>10

LEMMA CutIsInt ==
    ASSUME NEW a \in Int, NEW b \in Nat, b > 0
    PROVE  Cut(a, b) \in Int
<1>1. b \in Int /\ 0 < b  OBVIOUS
<1>2. a \div b \in Int /\ (-a) \div b \in Int  BY <1>1
<1>3. CASE a >= 0  BY <1>2, <1>3 DEF Cut
<1>4. CASE ~(a >= 0)
  <2>1. -((-a) \div b) \in Int  BY <1>2
  <2> QED  BY <2>1, <1>4 DEF Cut
<1> QED  BY <1>3, <1>4

PIDType == [sum : Int, last : Int, slope : Int]

LEMMA GainsAreNumbers ==
    ASSUME NEW fails \in Nat
    PROVE  GainP(fails) \in Nat /\ GainI(fails) \in Nat /\ GainI(fails) > 0
<1>1. Boost(fails) \in Nat
  <2>1. CASE fails < 3
    BY <2>1 DEF Boost
  <2>2. CASE ~(fails < 3)
    <3>1. Clamp(fails, 3, 15) \in 3..15
      BY <2>2 DEF Clamp
    <3>2. Clamp(fails, 3, 15) - 2 \in 1..13
      BY <3>1
    <3>3. \A i \in 1..13 : SqrtOfThirds[i] \in Nat
      BY DEF SqrtOfThirds
    <3>4. SqrtOfThirds[Clamp(fails, 3, 15) - 2] \in Nat
      BY <3>2, <3>3
    <3> QED  BY <2>2, <3>4 DEF Boost
  <2> QED  BY <2>1, <2>2
<1>2. GainP(fails) \in Nat
  BY <1>1 DEF GainP
<1>3. GainI(fails) \in Nat /\ GainI(fails) > 0
  BY <1>1 DEF GainI
<1> QED  BY <1>2, <1>3

LEMMA ControllerIsTyped ==
    ASSUME NEW pid \in PIDType, NEW gap \in Int, NEW fails \in Nat
    PROVE  /\ Output(pid, gap, fails) \in 1000..10000
           /\ NextPID(pid, gap, fails) \in PIDType
<1>1. pid.sum \in Int /\ pid.last \in Int /\ pid.slope \in Int
  BY DEF PIDType
<1>2. /\ GainP(fails) \in Int /\ GainI(fails) \in Int /\ GainI(fails) \in Nat /\ GainI(fails) > 0
  BY GainsAreNumbers
<1>3. Slope(pid, gap) \in Int
  <2>1. 10 * ((pid.last - gap) - pid.slope) \in Int
    BY <1>1
  <2>2. Cut(10 * ((pid.last - gap) - pid.slope), 11) \in Int
    BY <2>1, CutIsInt
  <2> QED  BY <2>2, <1>1 DEF Slope
<1>4. Integral(pid, -gap) \in Int
  <2>1. -gap \in Int /\ pid.sum + (-gap) \in Int
    BY <1>1
  <2> DEFINE error == IF Abs(-gap) <= 3000 THEN pid.sum + (-gap) ELSE pid.sum
  <2>3. error \in Int
    BY <1>1, <2>1
  <2>4. Integral(pid, -gap) = Clamp(error, -20000, 20000)
    BY DEF Integral, Scale
  <2> HIDE DEF error
  <2>5. Clamp(error, -20000, 20000) \in Int
    BY <2>3 DEF Clamp
  <2> QED  BY <2>4, <2>5
<1>5. RawOutput(pid, gap, fails) \in Int
  <2> DEFINE i == Integral(pid, -gap)
             s == Slope(pid, gap)
             p == GainP(fails)
             q == GainI(fails)
             r == p * (-gap) + q * i + GainD * s
  <2>1. r \in Int
    <3>1. i \in Int /\ s \in Int /\ p \in Int /\ q \in Int
      BY <1>2, <1>3, <1>4
    <3> HIDE DEF i, s, p, q
    <3> QED  BY <3>1 DEF GainD
  <2>2. RawOutput(pid, gap, fails) = Cut(r, 1000)
    BY DEF RawOutput
  <2> HIDE DEF r
  <2> QED  BY <2>1, <2>2, CutIsInt
<1>6. Output(pid, gap, fails) \in 1000..10000
  <2>1. Scale = 10000 /\ Scale \div 10 = 1000
    BY DEF Scale
  <2> DEFINE raw == RawOutput(pid, gap, fails)
  <2>2. Output(pid, gap, fails) = Clamp(raw, 1000, 10000) /\ raw \in Int
    BY <2>1, <1>5 DEF Output
  <2> HIDE DEF raw
  <2>3. Clamp(raw, 1000, 10000) \in 1000..10000
    BY <2>2 DEF Clamp
  <2> QED  BY <2>2, <2>3
<1>7. Unwound(pid, gap, fails) \in Int
  <2> DEFINE excess == RawOutput(pid, gap, fails) - Output(pid, gap, fails)
  <2>1. excess \in Int
    <3> DEFINE out == Output(pid, gap, fails)
               raw == RawOutput(pid, gap, fails)
    <3>1. out \in 1000..10000 /\ raw \in Int /\ excess = raw - out
      BY <1>5, <1>6
    <3> HIDE DEF out, raw, excess
    <3> QED  BY <3>1
  <2>2. Unwound(pid, gap, fails)
            = Clamp(Integral(pid, -gap) - Cut(excess * 1000, GainI(fails)), -2 * Scale, 2 * Scale)
    BY DEF Unwound
  <2> HIDE DEF excess
  <2>3. excess * 1000 \in Int
    BY <2>1
  <2>4. Cut(excess * 1000, GainI(fails)) \in Int
    BY <2>3, <1>2, CutIsInt
  <2>5. Integral(pid, -gap) - Cut(excess * 1000, GainI(fails)) \in Int
    BY <2>4, <1>4
  <2> DEFINE left == Integral(pid, -gap) - Cut(excess * 1000, GainI(fails))
  <2>6. Unwound(pid, gap, fails) = Clamp(left, -20000, 20000) /\ left \in Int
    BY <2>2, <2>5 DEF Scale
  <2> HIDE DEF left
  <2>7. Clamp(left, -20000, 20000) \in Int
    BY <2>6 DEF Clamp
  <2> QED  BY <2>6, <2>7
<1> QED  BY <1>3, <1>6, <1>7 DEF NextPID, PIDType

\* An answer moves a mastery towards its score and never past it.
LEMMA UpdateIsBetween ==
    ASSUME NEW pid \in PIDType, NEW mastery \in 0..Scale, NEW score \in 0..Scale, NEW fails \in Nat
    PROVE  /\ Updated(pid, mastery, score, fails) \in 0..Scale
           /\ Between(mastery, Updated(pid, mastery, score, fails), score)
<1> DEFINE gap == score - mastery
           out == Output(pid, gap, fails)
           first == Times(gap, LearningRate)
           second == Times(first, Abs(out))
           delta == Delta(gap, out)
<1>1. Scale = 10000 /\ mastery \in 0..10000 /\ score \in 0..10000 /\ gap \in Int
  BY DEF Scale
<1>2. out \in 1000..10000
  <2>1. out = Output(pid, gap, fails) /\ gap \in Int
    BY <1>1
  <2> HIDE DEF out, gap
  <2>2. Output(pid, gap, fails) \in 1000..10000
    BY <2>1, ControllerIsTyped, SMTT(60)
  <2> QED  BY <2>1, <2>2
<1>3. /\ first \in Int
      /\ gap >= 0 => 0 <= first /\ first <= gap
      /\ gap <= 0 => gap <= first /\ first <= 0
  <2>1. LearningRate \in 0..Scale  BY DEF LearningRate, Scale
  <2> DEFINE rate == LearningRate
  <2>2. first = Times(gap, rate) /\ rate \in 0..Scale /\ gap \in Int  BY <1>1, <2>1
  <2> HIDE DEF gap, first, rate
  <2> QED  BY <2>2, TimesIsBetween
<1>4. /\ second \in Int
      /\ first >= 0 => 0 <= second /\ second <= first
      /\ first <= 0 => first <= second /\ second <= 0
  <2> HIDE DEF first, out
  <2>1. Abs(out) \in 0..Scale  BY <1>1, <1>2 DEF Abs
  <2> QED  BY <1>3, <2>1, TimesIsBetween
<1>5. delta = Clamp(second, -2500, 2500)
  BY DEF Delta
<1>6. Updated(pid, mastery, score, fails) = Clamp(mastery + delta, 0, Scale)
  BY DEF Updated
<1> DEFINE u == Updated(pid, mastery, score, fails)
<1> HIDE DEF out, first, second, delta, u
<1>7. /\ delta \in Int
      /\ gap >= 0 => 0 <= delta /\ delta <= gap
      /\ gap <= 0 => gap <= delta /\ delta <= 0
  <2> HIDE DEF gap
  <2>1. gap >= 0 => 0 <= second /\ second <= gap
    BY <1>1, <1>3, <1>4
  <2>2. gap <= 0 => gap <= second /\ second <= 0
    BY <1>1, <1>3, <1>4
  <2>3. CASE gap >= 0
    <3>1. delta = IF second > 2500 THEN 2500 ELSE second
      BY <1>4, <1>5, <2>1, <2>3 DEF Clamp
    <3> QED  BY <1>1, <1>4, <2>1, <2>3, <3>1
  <2>4. CASE ~(gap >= 0)
    <3>1. delta = IF second < -2500 THEN -2500 ELSE second
      BY <1>1, <1>4, <1>5, <2>2, <2>4 DEF Clamp
    <3> QED  BY <1>1, <1>4, <2>2, <2>4, <3>1
  <2> QED  BY <2>3, <2>4
<1>8. u = mastery + delta
  <2>1. mastery + delta \in Int /\ 0 <= mastery + delta /\ mastery + delta <= 10000
    <3>1. mastery \in Int /\ score \in Int /\ 0 <= mastery /\ mastery <= 10000 /\ 0 <= score /\ score <= 10000
      BY <1>1
    <3>2. CASE gap >= 0
      BY <1>7, <3>1, <3>2
    <3>3. CASE ~(gap >= 0)
      BY <1>7, <3>1, <3>3
    <3> QED  BY <3>2, <3>3
  <2>2. u = Clamp(mastery + delta, 0, 10000)
    BY <1>1, <1>6 DEF u
  <2> QED  BY <2>1, <2>2 DEF Clamp
<1>9. u \in 0..10000 /\ Between(mastery, u, score)
  <2>1. mastery \in Int /\ score \in Int /\ 0 <= mastery /\ mastery <= 10000 /\ 0 <= score /\ score <= 10000
    BY <1>1
  <2>2. CASE gap >= 0
    <3>1. mastery <= u /\ u <= score  BY <1>7, <1>8, <2>1, <2>2
    <3> QED  BY <1>7, <1>8, <2>1, <3>1 DEF Between
  <2>3. CASE ~(gap >= 0)
    <3>1. score <= u /\ u <= mastery  BY <1>7, <1>8, <2>1, <2>3
    <3> QED  BY <1>7, <1>8, <2>1, <3>1 DEF Between
  <2> QED  BY <2>2, <2>3
<1>10. u \in 0..Scale
  BY <1>1, <1>9
<1> QED  BY <1>9, <1>10 DEF u

-----------------------------------------------------------------------------
(* A path *)

\* The node of the step comes first; no other node is lost or doubled.
LEMMA MoveToFrontPermutes ==
    ASSUME NEW path, Permutes(path), NEW n \in Course
    PROVE  LET q == MoveToFront(path, n)
           IN  Permutes(q) /\ Len(q) \in Nat \ {0} /\ DOMAIN q = 1..Len(q) /\ q[1] = n
<1> DEFINE k == CHOOSE k \in DOMAIN path : path[k] = n
           m == Len(path)
           q == MoveToFront(path, n)
<1>1. /\ path \in Seq(Course) /\ m \in Nat /\ DOMAIN path = 1..m
      /\ \A i \in 1..m : path[i] \in Course
      /\ \A x \in Course : \E i \in 1..m : path[i] = x
      /\ \A i, j \in 1..m : path[i] = path[j] => i = j
  BY DEF Permutes
<1>2. k \in 1..m /\ path[k] = n
  BY <1>1
<1>3. q = [i \in 1..m |-> IF i = 1 THEN n ELSE IF i <= k THEN path[i - 1] ELSE path[i]]
  BY <1>1 DEF MoveToFront
<1> HIDE DEF k, m, q
<1>4. \A i \in 1..m : q[i] = IF i = 1 THEN n ELSE IF i <= k THEN path[i - 1] ELSE path[i]
  BY <1>3
<1>5. \A i \in 1..m : q[i] \in Course
  BY <1>1, <1>2, <1>4
<1>6. q \in [1..m -> Course]
  BY <1>3, <1>5
<1>7. q \in Seq(Course) /\ Len(q) = m /\ DOMAIN q = 1..m
  BY <1>1, <1>6, SeqDef
<1>8. \A x \in Course : \E i \in 1..m : q[i] = x
  <2> SUFFICES ASSUME NEW x \in Course PROVE \E i \in 1..m : q[i] = x
      OBVIOUS
  <2>1. PICK j \in 1..m : path[j] = x
    BY <1>1
  <2>2. CASE j = k
    <3>1. 1 \in 1..m /\ q[1] = n  BY <1>1, <1>2, <1>4
    <3> QED  BY <3>1, <2>1, <2>2, <1>2
  <2>3. CASE j < k
    <3>1. j + 1 \in 1..m /\ j + 1 # 1 /\ j + 1 <= k /\ (j + 1) - 1 = j
      BY <1>1, <1>2, <2>3
    <3>2. q[j + 1] = path[j]
      BY <3>1, <1>4
    <3> QED  BY <3>1, <3>2, <2>1
  <2>4. CASE j > k
    <3>1. j # 1 /\ ~(j <= k)
      BY <1>1, <1>2, <2>4
    <3> QED  BY <3>1, <2>1, <1>4
  <2> QED  BY <2>2, <2>3, <2>4, <1>1, <1>2
<1>9. \A i, j \in 1..m : q[i] = q[j] => i = j
  <2> DEFINE from(i) == IF i = 1 THEN k ELSE IF i <= k THEN i - 1 ELSE i
  <2>1. \A i \in 1..m : from(i) \in 1..m /\ q[i] = path[from(i)]
    BY <1>1, <1>2, <1>4
  <2>2. \A i, j \in 1..m : from(i) = from(j) => i = j
    BY <1>1, <1>2
  <2> HIDE DEF from
  <2> QED  BY <2>1, <2>2, <1>1
<1>10. Permutes(q)
  BY <1>7, <1>8, <1>9 DEF Permutes
<1>11. m # 0 /\ q[1] = n
  BY <1>1, <1>2, <1>4
<1> QED  BY <1>1, <1>7, <1>10, <1>11 DEF q

-----------------------------------------------------------------------------
(* The state of a learner *)

ControlType == [pid : PIDType, gate : [count : 0..2, before : Int]]

Record(a) ==
    [mastery |-> a.mastery, seen |-> a.seen, path |-> a.path, current |-> a.current,
     replan |-> a.replan, fails |-> a.fails, radar |-> a.radar, misses |-> a.misses,
     strategy |-> a.strategy, switched |-> a.switched]

\* Between two steps nobody asks for another path: the step that was asked
\* has made one.
AgentSound(a) ==
    /\ a = Record(a)
    /\ a.mastery \in [Course -> 0..Scale]
    /\ a.path = << >> \/ Permutes(a.path)
    /\ a.current \in Course \cup {NoValue}
    /\ a.replan = FALSE
    /\ a.fails \in Nat
    /\ a.strategy \in Strategies

JourneyInv ==
    /\ agent = [l \in Learners |-> agent[l]]
    /\ \A l \in Learners : AgentSound(agent[l])
    /\ control \in [Course -> ControlType]
    /\ plan \in PlanType

LEMMA TopoPermutes == Permutes(Topo) /\ Topo[1] \in Course
<1>1. Topo \in Seq(Course) /\ Topo # << >>
  BY JourneyAssumption
<1>2. Permutes(Topo)
  BY <1>1, JourneyAssumption DEF Permutes, Course
<1>3. 1 \in DOMAIN Topo
  BY <1>1
<1> QED  BY <1>2, <1>3 DEF Course

LEMMA FreshIsAgentSound ==
    ASSUME NEW mastery \in [Course -> 0..Scale]
    PROVE  AgentSound(FreshAgent(mastery))
<1> DEFINE a == FreshAgent(mastery)
<1>1. /\ a = Record(a) /\ a.mastery = mastery /\ a.path = << >> /\ a.current = NoValue
      /\ a.replan = FALSE /\ a.fails = 0 /\ a.strategy = "STANDARD_PATH"
  BY DEF FreshAgent, Record
<1> HIDE DEF a
<1>2. AgentSound(a)
  BY <1>1 DEF AgentSound, Strategies
<1> QED  BY <1>2 DEF a

LEMMA FreshIsControl == FreshControl \in [Course -> ControlType]
BY DEF FreshControl, ControlType, FreshPID, FreshGate, PIDType, NoError

LEMMA JourneyStarts == JourneyInit => JourneyInv
<1> SUFFICES ASSUME JourneyInit PROVE JourneyInv
    OBVIOUS
<1>1. plan \in PlanType
  BY JourneyAssumption DEF JourneyInit
<1>2. PICK mastery \in [Course -> plan.marks] : agent = [l \in Learners |-> FreshAgent(mastery)]
  BY DEF JourneyInit
<1>3. mastery \in [Course -> 0..Scale]
  BY <1>1, <1>2 DEF PlanType
<1>4. AgentSound(FreshAgent(mastery))
  BY <1>3, FreshIsAgentSound
<1>5. control \in [Course -> ControlType]
  BY FreshIsControl DEF JourneyInit
<1> QED  BY <1>1, <1>2, <1>4, <1>5 DEF JourneyInv

\* What an answer leaves of the mastery of its node.
MasteryAfter(a, c, n, score, kept) ==
    LET mastery == Updated(c.pid, a.mastery[n], score, a.fails)
    IN  IF n \in a.seen THEN Times(mastery, kept) ELSE mastery

LEMMA MasteryIsBounded ==
    ASSUME NEW a, AgentSound(a), NEW c \in ControlType, NEW n \in Course,
           NEW score \in 0..Scale, NEW kept \in 1..Scale
    PROVE  LET u == Updated(c.pid, a.mastery[n], score, a.fails)
               after == MasteryAfter(a, c, n, score, kept)
           IN  /\ u \in 0..Scale /\ Between(a.mastery[n], u, score)
               /\ after \in 0..Scale /\ after <= u
               /\ kept = Scale => after = u
<1> DEFINE u == Updated(c.pid, a.mastery[n], score, a.fails)
           after == MasteryAfter(a, c, n, score, kept)
<1>1. /\ c.pid \in PIDType /\ a.mastery[n] \in 0..Scale /\ a.fails \in Nat
  BY DEF AgentSound, ControlType
<1>2. u \in 0..Scale /\ Between(a.mastery[n], u, score)
  BY <1>1, UpdateIsBetween
<1>3. after = IF n \in a.seen THEN Times(u, kept) ELSE u
  BY DEF MasteryAfter
<1> HIDE DEF u, after
<1>4. Scale = 10000
  BY DEF Scale
<1>5. u \in Int /\ u >= 0 /\ u <= Scale /\ kept \in 0..Scale
  BY <1>2, <1>4
<1>6. Times(u, kept) \in Int /\ 0 <= Times(u, kept) /\ Times(u, kept) <= u
      /\ (kept = Scale => Times(u, kept) = u)
  <2>1. u \in Int /\ kept \in 0..Scale
    BY <1>5
  <2>2. /\ Times(u, kept) \in Int
        /\ u >= 0 => 0 <= Times(u, kept) /\ Times(u, kept) <= u
        /\ kept = Scale => Times(u, kept) = u
    BY <2>1, TimesIsBetween
  <2> QED  BY <2>2, <1>5
<1>7. after \in 0..Scale /\ after <= u /\ (kept = Scale => after = u)
  <2>1. CASE n \in a.seen
    <3> DEFINE part == Times(u, kept)
    <3>1. after = part  BY <1>3, <2>1
    <3>2. part \in Int /\ 0 <= part /\ part <= u /\ (kept = Scale => part = u)
      BY <1>6
    <3> HIDE DEF part
    <3> QED  BY <3>1, <3>2, <1>4, <1>5
  <2>2. CASE n \notin a.seen
    <3>1. after = u  BY <1>3, <2>2
    <3> QED  BY <3>1, <1>4, <1>5
  <2> QED  BY <2>1, <2>2
<1> QED  BY <1>2, <1>7 DEF u, after

LEMMA DecisionIsStrategy ==
    ASSUME NEW strategy \in Strategies, NEW mix, NEW fails, NEW misses
    PROVE  Decide(strategy, mix, fails, misses) \in Strategies
<1> DEFINE failing == mix < 4000 /\ fails >= 2
           careless == Len(misses) = Window /\ \A i \in 1..Window : misses[i] > 5000
           calm == mix > 7500
<1>1. Decide(strategy, mix, fails, misses)
        = CASE strategy # "SCAFFOLD_HELP" /\ failing -> "SCAFFOLD_HELP"
            [] strategy # "STANDARD_PATH" /\ calm -> "STANDARD_PATH"
            [] strategy = "STANDARD_PATH" /\ ~failing /\ careless -> "EDGE_CASE_DRILL"
            [] OTHER -> strategy
  BY DEF Decide
<1> HIDE DEF failing, careless, calm
<1> QED  BY <1>1 DEF Strategies

LEMMA FailuresAreCounted ==
    ASSUME NEW fails \in Nat, NEW score
    PROVE  FailuresInARow(fails, score) \in Nat
<1> DEFINE low == score < Scale \div 2
<1>1. FailuresInARow(fails, score) = IF low THEN fails + 1 ELSE IF fails = 0 THEN 0 ELSE fails - 1
  BY DEF FailuresInARow
<1> HIDE DEF low
<1> QED  BY <1>1

\* The agents of a step, one after the other.
LEMMA StepOfLearner ==
    ASSUME NEW a, AgentSound(a), NEW c \in ControlType, NEW n \in Course,
           NEW score \in 0..Scale, NEW kept \in 1..Scale
    PROVE  LET b == Assessed(Planned(Profiled(Scored(a, c, n, score), n, kept), n), score)
           IN  /\ b = Record(b) /\ AgentSound(b)
               /\ b.mastery = [a.mastery EXCEPT ![n] = MasteryAfter(a, c, n, score, kept)]
               /\ n \in b.seen
               /\ \E path : Permutes(path) /\ b.path = MoveToFront(path, n)
<1> DEFINE s == Scored(a, c, n, score)
           p == Profiled(s, n, kept)
           q == Planned(p, n)
           b == Assessed(q, score)
           u == Updated(c.pid, a.mastery[n], score, a.fails)
           after == MasteryAfter(a, c, n, score, kept)
<1>1. /\ a = Record(a) /\ a.mastery \in [Course -> 0..Scale] /\ a.fails \in Nat
      /\ a.path = << >> \/ Permutes(a.path)
      /\ a.current \in Course \cup {NoValue} /\ a.strategy \in Strategies
  BY DEF AgentSound
<1>2. after \in 0..Scale /\ after = IF n \in a.seen THEN Times(u, kept) ELSE u
  BY MasteryIsBounded DEF MasteryAfter
<1>3. /\ s = Record(s) /\ s.mastery = [a.mastery EXCEPT ![n] = u]
      /\ s.fails = FailuresInARow(a.fails, score) /\ s.seen = a.seen /\ s.path = a.path
      /\ s.current = a.current /\ s.strategy = a.strategy
  <2> DEFINE f == FailuresInARow(a.fails, score)
             decision == Decision(Recorded(c.gate, Scale - u))
             r == decision = "trigger" \/ (decision = "pending" /\ a.replan)
  <2>1. s = [a EXCEPT !.mastery = [a.mastery EXCEPT ![n] = u], !.fails = f, !.replan = r]
    BY <1>1 DEF Scored
  <2> HIDE DEF s, u, r
  <2> QED  BY <2>1, <1>1 DEF Record
<1> HIDE DEF s, u, after
<1>4. /\ p = Record(p) /\ p.mastery = [a.mastery EXCEPT ![n] = after]
      /\ p.fails = s.fails /\ p.seen = a.seen \cup {n} /\ p.path = a.path
      /\ p.current = a.current /\ p.strategy = a.strategy
  <2>1. p = [s EXCEPT !.mastery = [s.mastery EXCEPT ![n] = IF n \in s.seen THEN Times(s.mastery[n], kept)
                                                          ELSE s.mastery[n]],
                      !.seen = s.seen \cup {n}]
    BY DEF Profiled
  <2>2. s.mastery[n] = u
    BY <1>1, <1>3
  <2>3. [s.mastery EXCEPT ![n] = after] = [a.mastery EXCEPT ![n] = after]
    BY <1>1, <1>3
  <2>4. p = [s EXCEPT !.mastery = [a.mastery EXCEPT ![n] = after], !.seen = a.seen \cup {n}]
    BY <2>1, <2>2, <2>3, <1>2, <1>3
  <2> HIDE DEF p
  <2> QED  BY <2>4, <1>3 DEF Record
<1> HIDE DEF p
<1>5. PICK path : Permutes(path) /\ q = [p EXCEPT !.replan = FALSE, !.path = MoveToFront(path, n)]
  BY <1>1, <1>4, TopoPermutes DEF Planned
<1> HIDE DEF q
<1>6. /\ q = Record(q) /\ q.mastery = p.mastery /\ q.fails = s.fails /\ q.seen = p.seen
      /\ q.path = MoveToFront(path, n) /\ q.current = a.current /\ q.strategy = a.strategy
      /\ q.replan = FALSE
  BY <1>4, <1>5 DEF Record
<1>7. /\ b = Record(b) /\ b.mastery = q.mastery /\ b.fails = q.fails /\ b.seen = q.seen
      /\ b.path = q.path /\ b.current = q.current /\ b.replan = FALSE
      /\ \E mix, misses : b.strategy = Decide(q.strategy, mix, q.fails, misses)
  <2> DEFINE radar == NextRadar(q.radar, score)
             mixed == Mix(radar)
             missed == NextMisses(q.misses, Errors(score))
             strategy == Decide(q.strategy, mixed, q.fails, missed)
             switched == strategy # q.strategy
  <2>1. b = [q EXCEPT !.radar = radar, !.misses = missed, !.strategy = strategy,
                      !.switched = switched]
    BY DEF Assessed
  <2>2. \E mix, misses : strategy = Decide(q.strategy, mix, q.fails, misses)
    OBVIOUS
  <2> HIDE DEF b, radar, mixed, missed, strategy, switched
  <2>3. b = [mastery |-> q.mastery, seen |-> q.seen, path |-> q.path, current |-> q.current,
             replan |-> q.replan, fails |-> q.fails, radar |-> radar, misses |-> missed,
             strategy |-> strategy, switched |-> switched]
    BY <2>1, <1>6 DEF Record
  <2>4. /\ b = Record(b) /\ b.mastery = q.mastery /\ b.fails = q.fails /\ b.seen = q.seen
        /\ b.path = q.path /\ b.current = q.current /\ b.replan = q.replan /\ b.strategy = strategy
    BY <2>3 DEF Record
  <2> QED  BY <2>2, <2>4, <1>6
<1> HIDE DEF b
<1>8. b.strategy \in Strategies
  BY <1>1, <1>6, <1>7, DecisionIsStrategy
<1>9. b.fails \in Nat
  BY <1>1, <1>3, <1>6, <1>7, FailuresAreCounted
<1>10. b.mastery = [a.mastery EXCEPT ![n] = after] /\ b.mastery \in [Course -> 0..Scale]
  BY <1>1, <1>2, <1>4, <1>6, <1>7
<1>11. Permutes(b.path)
  BY <1>5, <1>6, <1>7, MoveToFrontPermutes
<1>12. AgentSound(b)
  BY <1>1, <1>6, <1>7, <1>8, <1>9, <1>10, <1>11 DEF AgentSound
<1> QED  BY <1>4, <1>5, <1>6, <1>7, <1>10, <1>12 DEF b, q, p, s, after

LEMMA LevelIsNumber == \A v \in 0..Scale : v \in Int
BY DEF Scale

\* Then the learner moves on: to the next node that is not mastered.
LEMMA MoveOfLearner ==
    ASSUME NEW b, AgentSound(b), NEW n \in Course,
           NEW path, Permutes(path), b.path = MoveToFront(path, n)
    PROVE  LET d == Advanced(b, n)
           IN  /\ AgentSound(d) /\ d.mastery = b.mastery /\ d.seen = b.seen
               /\ d.current = n /\ d.mastery[n] >= MasteryThreshold
                  => \A x \in Course : d.mastery[x] >= MasteryThreshold
<1> DEFINE d == Advanced(b, n)
           m == Len(b.path)
           k == CHOOSE k \in DOMAIN b.path : b.path[k] = n
           least == CHOOSE i \in Behind(b, n) : \A j \in Behind(b, n) : i <= j
<1>1. /\ Permutes(b.path) /\ m \in Nat \ {0} /\ DOMAIN b.path = 1..m /\ b.path[1] = n
  BY MoveToFrontPermutes
<1>2. /\ \A i \in 1..m : b.path[i] \in Course
      /\ \A x \in Course : \E i \in 1..m : b.path[i] = x
      /\ \A i, j \in 1..m : b.path[i] = b.path[j] => i = j
  <2> DEFINE p == b.path
  <2>1. Permutes(p) /\ m = Len(p) /\ DOMAIN p = 1..m
    BY <1>1
  <2> HIDE DEF p
  <2>2. /\ \A i \in 1..m : p[i] \in Course
        /\ \A x \in Course : \E i \in 1..m : p[i] = x
        /\ \A i, j \in 1..m : p[i] = p[j] => i = j
    <3>1. p \in Seq(Course) /\ DOMAIN p = 1..m  BY <2>1 DEF Permutes
    <3>2. \A i \in 1..m : p[i] \in Course  BY <3>1
    <3>3. /\ \A x \in Course : \E i \in 1..m : p[i] = x
          /\ \A i, j \in 1..m : p[i] = p[j] => i = j
      BY <2>1 DEF Permutes
    <3> QED  BY <3>2, <3>3
  <2> QED  BY <2>2 DEF p
<1>3. b = Record(b) /\ b.mastery \in [Course -> 0..Scale]
  BY DEF AgentSound
<1>4. k = 1
  BY <1>1, <1>2
<1>5. Behind(b, n) = {i \in 1..m : i > 1 /\ b.mastery[b.path[i]] < MasteryThreshold}
  BY <1>1, <1>4 DEF Behind
<1>6. Behind(b, n) # {} => least \in 1..m /\ least > 1
  <2> SUFFICES ASSUME Behind(b, n) # {} PROVE least \in 1..m /\ least > 1
      OBVIOUS
  <2>1. Behind(b, n) \in SUBSET (1..m)
    BY <1>5
  <2>2. \E i \in Behind(b, n) : \A j \in Behind(b, n) : i <= j
    BY <1>1, <2>1, SmallestPosition
  <2>3. least \in Behind(b, n)
    BY <2>2
  <2> QED  BY <2>3, <1>5
<1>7. d = [b EXCEPT !.current = IF b.mastery[n] < MasteryThreshold \/ Behind(b, n) = {} THEN n
                                ELSE b.path[least]]
  BY DEF Advanced
<1> HIDE DEF d, m, k, least
<1>8. /\ d = Record(d) /\ d.mastery = b.mastery /\ d.seen = b.seen /\ d.path = b.path
      /\ d.replan = b.replan /\ d.fails = b.fails /\ d.strategy = b.strategy
      /\ d.current = IF b.mastery[n] < MasteryThreshold \/ Behind(b, n) = {} THEN n
                     ELSE b.path[least]
  BY <1>3, <1>7 DEF Record
<1>9. d.current \in Course
  BY <1>2, <1>6, <1>8
<1>10. AgentSound(d)
  BY <1>8, <1>9 DEF AgentSound
<1>11. ASSUME d.current = n, d.mastery[n] >= MasteryThreshold, NEW x \in Course
       PROVE  d.mastery[x] >= MasteryThreshold
  <2>1. MasteryThreshold = 6500 /\ \A y \in Course : b.mastery[y] \in Int
    <3>1. ASSUME NEW y \in Course PROVE b.mastery[y] \in Int
      <4>1. PICK v \in 0..Scale : v = b.mastery[y]
        BY <1>3
      <4> QED  BY <4>1, LevelIsNumber
    <3> QED  BY <3>1 DEF MasteryThreshold
  <2>2. ~(b.mastery[n] < MasteryThreshold)
    BY <2>1, <1>8, <1>11
  <2>3. Behind(b, n) = {}
    <3> SUFFICES ASSUME Behind(b, n) # {} PROVE FALSE
        OBVIOUS
    <3>1. b.path[least] = n  BY <2>2, <1>8, <1>11
    <3> QED  BY <3>1, <1>1, <1>2, <1>6
  <2>4. PICK i \in 1..m : b.path[i] = x
    BY <1>2
  <2>5. CASE i = 1
    BY <2>4, <2>5, <1>1, <1>8, <1>11
  <2>6. CASE i # 1
    <3>1. i > 1  BY <1>1, <2>6
    <3>2. ~(b.mastery[x] < MasteryThreshold)  BY <3>1, <2>3, <2>4, <1>5
    <3> QED  BY <3>2, <2>1, <1>8
  <2> QED  BY <2>5, <2>6
<1> QED  BY <1>8, <1>10, <1>11 DEF d

-----------------------------------------------------------------------------
(* The steps of the journey *)

\* A gate that has counted to its threshold starts anew.
LEMMA ControlledIsTyped ==
    ASSUME NEW a, AgentSound(a), NEW c \in ControlType, NEW n \in Course, NEW score \in 0..Scale
    PROVE  Controlled(a, c, n, score) \in ControlType
<1> DEFINE u == Updated(c.pid, a.mastery[n], score, a.fails)
           error == Scale - u
           gate == Recorded(c.gate, error)
           gap == score - a.mastery[n]
           kept == IF Decision(gate) = "trigger" THEN FreshGate ELSE gate
           pid == NextPID(c.pid, gap, a.fails)
           Gates == [count : 0..2, before : Int]
<1>1. /\ c.pid \in PIDType /\ a.mastery[n] \in 0..Scale /\ a.fails \in Nat
      /\ c.gate.count \in 0..2
  BY DEF AgentSound, ControlType
<1>2. gap \in Int
  <2>1. a.mastery[n] \in Int /\ score \in Int  BY <1>1, LevelIsNumber
  <2> QED  BY <2>1
<1>3. pid \in PIDType
  <2> HIDE DEF gap
  <2> QED  BY <1>1, <1>2, ControllerIsTyped
<1>4. error \in Int
  <2>1. u \in 0..Scale
    BY <1>1, UpdateIsBetween
  <2>2. u \in Int
    <3> HIDE DEF u
    <3> QED  BY <2>1, LevelIsNumber
  <2> HIDE DEF u
  <2> QED  BY <2>2 DEF Scale
<1>5. Controlled(a, c, n, score) = [pid |-> pid, gate |-> kept]
  BY DEF Controlled
<1> HIDE DEF error, pid
<1>6. gate.count \in 0..3 /\ gate.before = error /\ gate = [count |-> gate.count, before |-> gate.before]
  BY <1>1 DEF Recorded
<1> HIDE DEF gate
<1>7. kept \in Gates
  <2>1. FreshGate \in Gates
    BY DEF FreshGate, NoError
  <2>2. CASE gate.count >= 3
    <3>1. Decision(gate) = "trigger"  BY <2>2 DEF Decision, TriggerThreshold
    <3> QED  BY <2>1, <3>1
  <2>3. CASE ~(gate.count >= 3)
    <3>1. gate.count \in 0..2  BY <1>6, <2>3
    <3>2. gate \in Gates  BY <3>1, <1>4, <1>6
    <3> QED  BY <2>1, <3>2
  <2> QED  BY <2>2, <2>3
<1> HIDE DEF kept
<1> QED  BY <1>3, <1>5, <1>7 DEF ControlType

LEMMA AnswerResult ==
    ASSUME JourneyInv, NEW l \in Learners, NEW n \in Course, NEW score \in 0..Scale,
           NEW kept \in 1..Scale, CompleteLearning(l, n, score, kept)
    PROVE  /\ agent' = [agent EXCEPT ![l] = agent'[l]] /\ AgentSound(agent'[l])
           /\ agent'[l].mastery =
                [agent[l].mastery EXCEPT ![n] = MasteryAfter(agent[l], control[n], n, score, kept)]
           /\ agent'[l].current = n /\ agent'[l].mastery[n] >= MasteryThreshold
              => \A x \in Course : agent'[l].mastery[x] >= MasteryThreshold
           /\ control' \in [Course -> ControlType]
<1> DEFINE a == agent[l]
           c == control[n]
           b == Assessed(Planned(Profiled(Scored(a, c, n, score), n, kept), n), score)
           d == Advanced(b, n)
<1>1. /\ agent = [x \in Learners |-> agent[x]] /\ AgentSound(a)
      /\ control \in [Course -> ControlType] /\ c \in ControlType
  BY DEF JourneyInv
<1>2. /\ agent' = [agent EXCEPT ![l] = d]
      /\ control' = [control EXCEPT ![n] = Controlled(a, c, n, score)]
  BY DEF CompleteLearning
<1>3. agent'[l] = d
  <2> HIDE DEF d
  <2> QED  BY <1>1, <1>2
<1>4. /\ AgentSound(b) /\ b.mastery = [a.mastery EXCEPT ![n] = MasteryAfter(a, c, n, score, kept)]
      /\ \E path : Permutes(path) /\ b.path = MoveToFront(path, n)
  <2> HIDE DEF a, c
  <2> QED  BY <1>1, StepOfLearner
<1> HIDE DEF a, b, c
<1>5. /\ AgentSound(d) /\ d.mastery = b.mastery
      /\ d.current = n /\ d.mastery[n] >= MasteryThreshold
         => \A x \in Course : d.mastery[x] >= MasteryThreshold
  BY <1>4, MoveOfLearner
<1>6. Controlled(a, c, n, score) \in ControlType
  BY <1>1, ControlledIsTyped
<1> HIDE DEF d
<1>7. control' \in [Course -> ControlType]
  BY <1>1, <1>2, <1>6
<1> QED  BY <1>2, <1>3, <1>4, <1>5, <1>7 DEF a, c

\* A request touches the flag alone.
LEMMA FieldAsked ==
    ASSUME NEW a, a = Record(a), NEW b, b = [a EXCEPT !.replan = TRUE]
    PROVE  /\ b = Record(b) /\ b.mastery = a.mastery /\ b.path = a.path
           /\ b.fails = a.fails /\ b.strategy = a.strategy
BY DEF Record

\* A step without evidence answers a request for another path.
LEMMA BrowsingIsSound ==
    ASSUME NEW a, a = Record(a), a.mastery \in [Course -> 0..Scale],
           a.path = << >> \/ Permutes(a.path), a.fails \in Nat, a.strategy \in Strategies,
           NEW n \in Course
    PROVE  AgentSound([Planned(a, n) EXCEPT !.current = n])
<1> DEFINE p == Planned(a, n)
           b == [p EXCEPT !.current = n]
<1>1. PICK path : Permutes(path) /\ p = [a EXCEPT !.replan = FALSE, !.path = MoveToFront(path, n)]
  BY TopoPermutes DEF Planned
<1> DEFINE q == MoveToFront(path, n)
<1>2. Permutes(q)
  BY <1>1, MoveToFrontPermutes
<1> HIDE DEF p, q
<1>3. /\ p = Record(p) /\ p.mastery = a.mastery /\ p.path = q
      /\ p.replan = FALSE /\ p.fails = a.fails /\ p.strategy = a.strategy
  BY <1>1 DEF Record, q
<1>4. /\ b = Record(b) /\ b.mastery = p.mastery /\ b.path = p.path /\ b.current = n
      /\ b.replan = p.replan /\ b.fails = p.fails /\ b.strategy = p.strategy
  <2>1. b = [p EXCEPT !.current = n]  OBVIOUS
  <2> HIDE DEF b
  <2> QED  BY <2>1, <1>3 DEF Record
<1> HIDE DEF b
<1>5. /\ b = Record(b) /\ b.mastery = a.mastery /\ b.path = q /\ b.current = n
      /\ b.replan = FALSE /\ b.fails = a.fails /\ b.strategy = a.strategy
  BY <1>3, <1>4
<1>6. AgentSound(b)
  BY <1>2, <1>5 DEF AgentSound
<1> QED  BY <1>6 DEF b, p

LEMMA CurrentNodeIsInCourse ==
    ASSUME NEW a, AgentSound(a)
    PROVE  CurrentNode(a) \in Course
<1>1. CASE a.current # NoValue
  BY <1>1 DEF CurrentNode, AgentSound
<1>2. CASE a.current = NoValue /\ a.path # << >>
  <2> DEFINE p == a.path
  <2>1. Permutes(p) /\ p # << >>
    BY <1>2 DEF AgentSound
  <2> HIDE DEF p
  <2>2. p[1] \in Course
    BY <2>1 DEF Permutes
  <2> QED  BY <1>2, <2>2 DEF CurrentNode, p
<1>3. CASE a.current = NoValue /\ a.path = << >>
  BY <1>3, TopoPermutes DEF CurrentNode
<1> QED  BY <1>1, <1>2, <1>3

\* The learner of a step is the only one it changes.
LEMMA OneLearnerChanges ==
    ASSUME agent = [l \in Learners |-> agent[l]], \A l \in Learners : AgentSound(agent[l]),
           NEW l \in Learners, NEW b, AgentSound(b), agent' = [agent EXCEPT ![l] = b]
    PROVE  agent' = [x \in Learners |-> agent'[x]] /\ \A x \in Learners : AgentSound(agent'[x])
<1>1. agent' = [x \in Learners |-> IF x = l THEN b ELSE agent[x]]
  OBVIOUS
<1>2. \A x \in Learners : agent'[x] = IF x = l THEN b ELSE agent[x]
  BY <1>1
<1>3. \A x \in Learners : AgentSound(agent'[x])
  BY <1>2
<1>4. agent' = [x \in Learners |-> agent'[x]]
  BY <1>1
<1> QED  BY <1>3, <1>4

LEMMA JourneyStep ==
    ASSUME JourneyInv, [JourneyNext]_journeyVars
    PROVE  JourneyInv'
<1> USE DEF JourneyInv
<1>1. /\ agent = [l \in Learners |-> agent[l]] /\ \A l \in Learners : AgentSound(agent[l])
      /\ control \in [Course -> ControlType] /\ plan \in PlanType /\ plan' \in PlanType
  BY StepsKeepPlan
<1>2. plan.who \subseteq Learners /\ plan.scores \subseteq 0..Scale /\ plan.kept \subseteq 1..Scale
  BY <1>1 DEF PlanType
<1>3. CASE AnswerNode
  <2>1. PICK l \in plan.who, n \in Course, score \in plan.scores, kept \in plan.kept :
             CompleteLearning(l, n, score, kept)
    BY <1>3 DEF AnswerNode
  <2>2. l \in Learners /\ score \in 0..Scale /\ kept \in 1..Scale
    BY <1>2, <2>1
  <2>3. /\ agent' = [agent EXCEPT ![l] = agent'[l]] /\ AgentSound(agent'[l])
        /\ control' \in [Course -> ControlType]
    BY <2>1, <2>2, AnswerResult
  <2> QED  BY <1>1, <2>2, <2>3, OneLearnerChanges
<1>4. CASE Visit
  <2>1. PICK l \in plan.who, n \in Course : Browse(l, n)
    BY <1>4 DEF Visit
  <2> DEFINE b == [Planned(agent[l], n) EXCEPT !.current = n]
  <2>2. l \in Learners /\ agent' = [agent EXCEPT ![l] = b] /\ control' = control
    BY <1>2, <2>1 DEF Browse
  <2>3. AgentSound(b)
    BY <1>1, <2>2, BrowsingIsSound DEF AgentSound
  <2> HIDE DEF b
  <2> QED  BY <1>1, <2>2, <2>3, OneLearnerChanges
<1>5. CASE RequestReplan
  <2>1. PICK l \in plan.who : agent' = [agent EXCEPT ![l] =
            [Planned([agent[l] EXCEPT !.replan = TRUE], CurrentNode(agent[l]))
                 EXCEPT !.current = CurrentNode(agent[l])]]
    BY <1>5 DEF RequestReplan
  <2> DEFINE n == CurrentNode(agent[l])
             a == [agent[l] EXCEPT !.replan = TRUE]
             b == [Planned(a, n) EXCEPT !.current = n]
  <2>2. l \in Learners /\ agent' = [agent EXCEPT ![l] = b] /\ control' = control
    BY <1>2, <1>5, <2>1 DEF RequestReplan
  <2>3. n \in Course
    BY <1>1, <2>2, CurrentNodeIsInCourse
  <2>4. /\ a = Record(a) /\ a.mastery = agent[l].mastery /\ a.path = agent[l].path
        /\ a.fails = agent[l].fails /\ a.strategy = agent[l].strategy
    <3>1. agent[l] = Record(agent[l])
      BY <1>1, <2>2 DEF AgentSound
    <3> QED  BY <3>1, FieldAsked
  <2> HIDE DEF a, n
  <2>5. AgentSound(b)
    BY <1>1, <2>2, <2>3, <2>4, BrowsingIsSound DEF AgentSound
  <2> HIDE DEF b
  <2> QED  BY <1>1, <2>2, <2>5, OneLearnerChanges
<1>6. CASE InitPath
  <2>1. PICK l \in plan.who : agent' = [agent EXCEPT ![l].path = Topo, ![l].current = Topo[1]]
    BY <1>6 DEF InitPath
  <2> DEFINE b == [agent[l] EXCEPT !.path = Topo, !.current = Topo[1]]
  <2>2. l \in Learners /\ control' = control
    BY <1>2, <1>6, <2>1 DEF InitPath
  <2>3. agent' = [agent EXCEPT ![l] = b]
    BY <1>1, <2>1, <2>2
  <2>4. AgentSound(b)
    <3>1. AgentSound(agent[l]) /\ agent[l] = Record(agent[l])
      BY <1>1, <2>2 DEF AgentSound
    <3>2. /\ b = Record(b) /\ b.mastery = agent[l].mastery /\ b.path = Topo
          /\ b.current = Topo[1] /\ b.replan = agent[l].replan /\ b.fails = agent[l].fails
          /\ b.strategy = agent[l].strategy
      <4>1. b = [agent[l] EXCEPT !.path = Topo, !.current = Topo[1]]  OBVIOUS
      <4> HIDE DEF b
      <4> QED  BY <3>1, <4>1 DEF Record
    <3> HIDE DEF b
    <3> QED  BY <3>1, <3>2, TopoPermutes DEF AgentSound
  <2> HIDE DEF b
  <2> QED  BY <1>1, <2>2, <2>3, <2>4, OneLearnerChanges
<1>7. CASE ResetLearner
  <2>1. PICK l \in plan.who : agent' = [agent EXCEPT ![l] = FreshAgent(NoMastery)]
    BY <1>7 DEF ResetLearner
  <2>2. NoMastery \in [Course -> 0..Scale]
    BY DEF NoMastery, Scale
  <2>3. AgentSound(FreshAgent(NoMastery))
    BY <2>2, FreshIsAgentSound
  <2>4. l \in Learners /\ control' = control
    BY <1>2, <1>7, <2>1 DEF ResetLearner
  <2> QED  BY <1>1, <2>1, <2>3, <2>4, OneLearnerChanges
<1>8. CASE Restart
  BY <1>1, <1>8, FreshIsControl DEF Restart
<1>9. CASE GetProbe \/ SubmitProbeAnswer \/ HandleColdStartInteraction \/ SkipRound
  <2>1. agent' = agent /\ control' = control
    BY <1>9 DEF GetProbe, SubmitProbeAnswer, HandleColdStartInteraction, SkipRound
  <2> QED  BY <1>1, <2>1
<1>10. CASE UNCHANGED journeyVars
  BY <1>1, <1>10 DEF journeyVars
<1> QED  BY <1>3, <1>4, <1>5, <1>6, <1>7, <1>8, <1>9, <1>10 DEF JourneyNext

LEMMA JourneyAlways == JourneySpec => [](JourneyInv /\ ColdInv)
<1>1. JourneyInit => JourneyInv /\ ColdInv
  BY JourneyStarts, ColdInit
<1>2. JourneyInv /\ ColdInv /\ [JourneyNext]_journeyVars => (JourneyInv /\ ColdInv)'
  <2> SUFFICES ASSUME JourneyInv, ColdInv, [JourneyNext]_journeyVars
               PROVE  JourneyInv' /\ ColdInv'
      OBVIOUS
  <2>1. plan \in PlanType  BY DEF JourneyInv
  <2> QED  BY <2>1, JourneyStep, ColdStep
<1> QED  BY <1>1, <1>2, PTL DEF JourneySpec

\* The types of the journey: masteries between 0 and Scale, a path that is
\* empty or holds every node of the course once, and no request for another
\* path that outlives its step.
THEOREM JourneysAreTyped == JourneySpec => []JourneyTypeOK
<1>1. JourneyInv /\ ColdInv => JourneyTypeOK
  <2> SUFFICES ASSUME JourneyInv, ColdInv PROVE JourneyTypeOK
      OBVIOUS
  <2>1. \A n \in Course : control[n].gate.count \in 0..2
    BY DEF JourneyInv, ControlType
  <2>2. TriggerThreshold - 1 = 2
    BY DEF TriggerThreshold
  <2> QED  BY <2>1, <2>2 DEF JourneyTypeOK, JourneyInv, AgentSound, ColdInv
<1> QED  BY <1>1, JourneyAlways, PTL

\* An answer moves the mastery of its node towards the score and never past
\* it, a break before it only lowers what it leaves, and no other node moves.
THEOREM MasteryFollows == JourneySpec => MasteryFollowsEvidence
<1> DEFINE Follows ==
        \A l \in plan.who, n \in Course, score \in plan.scores, kept \in plan.kept :
           agent' # agent /\ n \in agent'[l].seen /\ CompleteLearning(l, n, score, kept) =>
              LET before == agent[l].mastery  after == agent'[l].mastery IN
              /\ kept = Scale => Between(before[n], after[n], score)
              /\ after[n] <= (IF before[n] > score THEN before[n] ELSE score)
              /\ \A x \in Course \ {n} : after[x] = before[x]
<1>1. JourneyInv => Follows
  <2> SUFFICES ASSUME JourneyInv, NEW l \in plan.who, NEW n \in Course,
                      NEW score \in plan.scores, NEW kept \in plan.kept,
                      CompleteLearning(l, n, score, kept)
               PROVE  LET before == agent[l].mastery  after == agent'[l].mastery IN
                      /\ kept = Scale => Between(before[n], after[n], score)
                      /\ after[n] <= (IF before[n] > score THEN before[n] ELSE score)
                      /\ \A x \in Course \ {n} : after[x] = before[x]
      OBVIOUS
  <2> DEFINE before == agent[l].mastery
             after == agent'[l].mastery
             new == MasteryAfter(agent[l], control[n], n, score, kept)
             u == Updated(control[n].pid, before[n], score, agent[l].fails)
             old == before[n]
  <2>1. l \in Learners /\ score \in 0..Scale /\ kept \in 1..Scale
    BY DEF JourneyInv, PlanType
  <2>2. AgentSound(agent[l]) /\ control[n] \in ControlType /\ before \in [Course -> 0..Scale]
    BY <2>1 DEF JourneyInv, AgentSound
  <2>3. after = [before EXCEPT ![n] = new]
    BY <2>1, AnswerResult
  <2>4. after[n] = new /\ \A x \in Course \ {n} : after[x] = before[x]
    <3> HIDE DEF after, before, new
    <3> QED  BY <2>2, <2>3
  <2>5. u \in 0..Scale /\ Between(old, u, score) /\ new \in 0..Scale /\ new <= u
        /\ (kept = Scale => new = u)
    BY <2>1, <2>2, MasteryIsBounded
  <2>6. old \in 0..Scale
    BY <2>2
  <2> HIDE DEF after, before, new, u, old
  <2>7. old \in Int /\ u \in Int /\ new \in Int /\ score \in Int
    BY <2>1, <2>5, <2>6, LevelIsNumber
  <2>8. new <= (IF old > score THEN old ELSE score)
    BY <2>5, <2>7 DEF Between
  <2>9. kept = Scale => Between(old, new, score)
    BY <2>5
  <2> QED  BY <2>4, <2>8, <2>9 DEF before, after, old
<1>2. JourneyInv => [Follows]_journeyVars
  BY <1>1
<1> QED  BY <1>2, JourneyAlways, PTL DEF MasteryFollowsEvidence

\* A learner who has mastered a node and is kept at it has mastered them all.
THEOREM NothingIsLeftBehind == JourneySpec => NothingLeftBehind
<1> DEFINE Whole ==
        \A l \in plan.who, n \in Course, score \in plan.scores, kept \in plan.kept :
           /\ agent'[l].current = n /\ agent'[l].mastery[n] >= MasteryThreshold
           /\ CompleteLearning(l, n, score, kept)
           => \A x \in Course : agent'[l].mastery[x] >= MasteryThreshold
<1>1. JourneyInv => Whole
  <2> SUFFICES ASSUME JourneyInv, NEW l \in plan.who, NEW n \in Course,
                      NEW score \in plan.scores, NEW kept \in plan.kept,
                      agent'[l].current = n, agent'[l].mastery[n] >= MasteryThreshold,
                      CompleteLearning(l, n, score, kept)
               PROVE  \A x \in Course : agent'[l].mastery[x] >= MasteryThreshold
      OBVIOUS
  <2>1. l \in Learners /\ score \in 0..Scale /\ kept \in 1..Scale
    BY DEF JourneyInv, PlanType
  <2> QED  BY <2>1, AnswerResult
<1>2. JourneyInv => [Whole]_journeyVars
  BY <1>1
<1> QED  BY <1>2, JourneyAlways, PTL DEF NothingLeftBehind
=============================================================================
