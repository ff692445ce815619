--------------------------- MODULE JobStreamProofs ---------------------------
(***************************************************************************)
(* Proofs about JobStream: what reaches the page of a learner through      *)
(* broken and reopened streams, for every number of writers and cards,     *)
(* every replay limit and every number of reconnects.                      *)
(*                                                                         *)
(* Ids are taken in one order and become visible in another, so a cursor   *)
(* may pass an id that is still open.  The argument is that it never does  *)
(* so for a card: an open card holds the row, the row holds up every other *)
(* commit, so an open card's id is above everything a reader can have seen *)
(* (OpenCardIsAhead).  For the end it is that a terminal event is owed     *)
(* only by a job that can publish no card any more (EndsAreFinal).         *)
(***************************************************************************)
EXTENDS JobStream, FiniteSetTheorems, SequenceTheorems, TLAPS

-----------------------------------------------------------------------------
(* The inductive invariant *)

WriterType == [owed: Seq({"note"} \cup StreamEnds), open: Event \cup {None}]
JobType == [status: {"queued", "running"} \cup Ended, owner: Writers \cup {None},
            claims: Nat, cards: SUBSET Cards]
ReaderType == [pc: {"off", "read", "look"}, cursor: Nat, final: BOOLEAN]
PageType == [state: {"stream", "poll", "ended", "polled"}, last: Nat, tries: Nat,
             polls: Nat, shown: SUBSET Cards]

Shapes ==
    /\ job \in JobType
    /\ writer \in [Writers -> WriterType]
    /\ lock \in Writers \cup {None}
    /\ nextId \in Nat \ {0}
    /\ events \in SUBSET Event
    /\ IsFiniteSet(events)
    /\ reader \in ReaderType
    /\ page \in PageType

\* What retries are left: a queued job may be claimed, a page that polls may poll.
Budgets ==
    /\ job.claims =< MaxClaims
    /\ job.status = "queued" => job.claims < MaxClaims
    /\ page.tries =< MaxReconnects
    /\ page.polls =< MaxPolls
    /\ page.state \in {"stream", "poll"} => page.polls < MaxPolls

\* Every id that an event carries was drawn from the sequence.
IdsAreDrawn ==
    /\ \A e \in events: e.id < nextId
    /\ \A w \in Writers: writer[w].open # None => writer[w].open.id < nextId
    /\ page.last < nextId

\* A connected generator serves a page that streams, from where the page stands.
CursorIsPagesOwn ==
    reader.pc # "off" => page.state = "stream" /\ reader.cursor = page.last

\* Only the writer that holds the row has an uncommitted card.
CardsAreLocked ==
    /\ lock # None => /\ writer[lock].open # None
                      /\ writer[lock].open.type = "card_ready"
                      /\ writer[lock].open.card \in Cards
    /\ \A w \in Writers:
          writer[w].open # None /\ writer[w].open.type = "card_ready" => lock = w

\* Nothing visible, and nothing the page has passed, lies above an open card.
OpenCardIsAhead ==
    lock # None => /\ \A e \in events: e.id < writer[lock].open.id
                   /\ page.last < writer[lock].open.id

\* The card of a ready event is a card; every card of the row has its event.
CardEventsNameCards ==
    \A e \in events: e.type = "card_ready" => e.card \in Cards
CardsHaveEvents ==
    \A c \in job.cards: \E e \in events: e.type = "card_ready" /\ e.card = c

\* A terminal event, whether owed, open or visible, belongs to an ended job,
\* whose row nobody holds.
EndsAreFinal ==
    /\ job.status \in Ended => lock = None
    /\ job.status \notin Ended =>
          /\ \A e \in events: e.type \notin StreamEnds
          /\ \A w \in Writers:
                /\ writer[w].owed \in Seq({"note"})
                /\ writer[w].open # None => writer[w].open.type \notin StreamEnds

\* No card has an id above a terminal event.
EndsComeLast ==
    \A e \in events: e.type = "card_ready" =>
        /\ \A t \in events: t.type \in StreamEnds => e.id < t.id
        /\ \A w \in Writers:
              writer[w].open # None /\ writer[w].open.type \in StreamEnds
                => e.id < writer[w].open.id

\* A page that ended has received a terminal event.
EndedPageSawTheEnd ==
    page.state = "ended" =>
        \E t \in events: t.type \in StreamEnds /\ t.id =< page.last

LedgerInv ==
    /\ Shapes
    /\ IdsAreDrawn
    /\ CardsAreLocked
    /\ CardEventsNameCards
    /\ EndsAreFinal

StreamInv ==
    /\ LedgerInv
    /\ Budgets
    /\ CursorIsPagesOwn
    /\ OpenCardIsAhead
    /\ CardsHaveEvents
    /\ EndsComeLast
    /\ CardsAreNeverSkipped
    /\ EndedPageSawTheEnd

-----------------------------------------------------------------------------
(* The row *)

\* What every operation on the row has in common.
RowMoves(w) ==
    /\ Free(w) /\ lock = None
    /\ job.status \notin Ended
    /\ job' \in JobType /\ job'.cards = job.cards
    /\ \E types \in Seq({"note"} \cup StreamEnds):
          /\ Owes(w, types)
          /\ job'.status \notin Ended => types \in Seq({"note"})
    /\ UNCHANGED <<lock, nextId, events, pageVars>>

LEMMA OneEvent == ASSUME NEW S, NEW t \in S PROVE <<t>> \in Seq(S)
  OBVIOUS

LEMMA OperationsMoveTheRow ==
    ASSUME LedgerInv, NEW w \in Writers,
           Claim(w) \/ Report(w) \/ Close(w) \/ Requeue(w) \/ Expire(w)
    PROVE  RowMoves(w)
<1> USE DEF LedgerInv, Shapes, JobType, pageVars, Ended, StreamEnds
<1>n. <<"note">> \in Seq({"note"}) /\ <<"note">> \in Seq({"note"} \cup StreamEnds)
  BY OneEvent
<1>f. <<"failed">> \in Seq({"note"} \cup StreamEnds)
      /\ <<"completed">> \in Seq({"note"} \cup StreamEnds)
  BY OneEvent
<1>p. <<"note", "completed">> \in Seq({"note"} \cup StreamEnds)
  OBVIOUS
<1>1. CASE Claim(w)
  <2>1. job' = [status |-> "running", owner |-> w, claims |-> job.claims + 1,
                cards |-> job.cards]
    BY <1>1 DEF Claim
  <2>2. job.claims + 1 \in Nat
    OBVIOUS
  <2>3. job' \in JobType /\ job'.cards = job.cards /\ job'.status = "running"
    BY <2>1, <2>2
  <2>4. QED
    BY <1>1, <1>n, <2>3 DEF Claim, RowMoves
<1>2. CASE Report(w)
  BY <1>2, <1>n DEF Report, Move, Owns, RowMoves
<1>3. CASE Close(w)
  <2>1. CASE Move(w, "completed", None, <<"completed">>)
    BY <1>3, <2>1, <1>f DEF Close, Move, Owns, RowMoves
  <2>2. CASE Move(w, "partial", None, <<"note", "completed">>)
    BY <1>3, <2>2, <1>p DEF Close, Move, Owns, RowMoves
  <2>3. CASE Move(w, "failed", None, <<"failed">>)
    BY <1>3, <2>3, <1>f DEF Close, Move, Owns, RowMoves
  <2>4. QED
    BY <1>3, <2>1, <2>2, <2>3 DEF Close
<1>4. CASE Requeue(w)
  BY <1>4, <1>n DEF Requeue, Move, RowMoves
<1>5. CASE Expire(w)
  BY <1>5, <1>f DEF Expire, Move, RowMoves
<1>6. QED
  BY <1>1, <1>2, <1>3, <1>4, <1>5

LEMMA RowMovesKeepTheLedger ==
    ASSUME LedgerInv, NEW w \in Writers, RowMoves(w)
    PROVE  LedgerInv'
<1> USE DEF LedgerInv, RowMoves, pageVars
<1>1. PICK types \in Seq({"note"} \cup StreamEnds):
        /\ Owes(w, types)
        /\ job'.status \notin Ended => types \in Seq({"note"})
  OBVIOUS
<1>2. writer' \in [Writers -> WriterType]
  BY <1>1 DEF Shapes, Owes, WriterType
<1>3. \A u \in Writers: /\ writer'[u].open = writer[u].open
                        /\ u # w => writer'[u] = writer[u]
                        /\ u = w => writer'[u].owed = types
  BY <1>1 DEF Shapes, Owes, WriterType
<1>4. Shapes'
  BY <1>2 DEF Shapes
<1>5. IdsAreDrawn'
  BY <1>3 DEF IdsAreDrawn
<1>6. CardsAreLocked'
  BY <1>3 DEF CardsAreLocked, Shapes
<1>7. CardEventsNameCards'
  BY DEF CardEventsNameCards
<1>8. EndsAreFinal'
  BY <1>1, <1>3 DEF EndsAreFinal
<1>9. QED
  BY <1>4, <1>5, <1>6, <1>7, <1>8

-----------------------------------------------------------------------------
(* The ledger *)

LEMMA CommitsAreFinite ==
    ASSUME Shapes, NEW w \in Writers, writer[w].open # None,
           events' = events \cup {writer[w].open}
    PROVE  /\ events' \in SUBSET Event
           /\ IsFiniteSet(events')
<1>1. writer[w].open \in Event
  BY DEF Shapes, WriterType
<1>2. IsFiniteSet(events \cup {writer[w].open})
  BY FS_AddElement DEF Shapes
<1>3. QED
  BY <1>1, <1>2 DEF Shapes

LEMMA PublishKeepsTheLedger ==
    ASSUME LedgerInv, NEW w \in Writers, NEW c \in Cards, Publish(w, c)
    PROVE  LedgerInv'
<1> DEFINE o == [id |-> nextId, type |-> "card_ready", card |-> c]
<1> USE DEF LedgerInv, Publish, pageVars
<1>1. o \in Event /\ o # None
  BY NullIsNoRow DEF Event, Shapes
<1>2. writer' \in [Writers -> WriterType]
  BY <1>1 DEF Shapes, WriterType
<1>3. \A u \in Writers: /\ writer'[u].owed = writer[u].owed
                        /\ u # w => writer'[u] = writer[u]
                        /\ u = w => writer'[u].open = o
  BY DEF Shapes, WriterType
<1>4. w # None
  BY StreamAssumption
<1>5. Shapes'
  BY <1>2 DEF Shapes
<1>6. IdsAreDrawn'
  BY <1>3 DEF IdsAreDrawn, Shapes, Event, WriterType, PageType
<1>7. CardsAreLocked'
  <2>1. writer'[w].open = o /\ lock' = w
    BY <1>3
  <2>2. o.type = "card_ready" /\ o.card \in Cards
    OBVIOUS
  <2>3. \A u \in Writers:
          writer'[u].open # None /\ writer'[u].open.type = "card_ready" => u = w
    BY <1>3, StreamAssumption DEF CardsAreLocked
  <2>4. QED
    BY <1>1, <2>1, <2>2, <2>3 DEF CardsAreLocked
<1>8. CardEventsNameCards'
  BY DEF CardEventsNameCards
<1>9. EndsAreFinal'
  BY <1>3 DEF EndsAreFinal, Owns, Ended, StreamEnds
<1>10. QED
  BY <1>5, <1>6, <1>7, <1>8, <1>9

LEMMA CommitCardKeepsTheLedger ==
    ASSUME LedgerInv, NEW w \in Writers, CommitCard(w)
    PROVE  LedgerInv'
<1> USE DEF LedgerInv, CommitCard, pageVars
<1>1. w # None
  BY StreamAssumption
<1>2. /\ writer[w].open # None /\ writer[w].open.type = "card_ready"
      /\ writer[w].open.card \in Cards /\ writer[w].open.id < nextId
  BY <1>1 DEF CardsAreLocked, IdsAreDrawn
<1>3. writer' \in [Writers -> WriterType]
  BY DEF Shapes, WriterType
<1>4. \A u \in Writers: /\ writer'[u].owed = writer[u].owed
                        /\ u # w => writer'[u] = writer[u]
                        /\ u = w => writer'[u].open = None
  BY DEF Shapes, WriterType
<1>5. job' \in JobType /\ job'.status = job.status
  BY <1>2 DEF Shapes, JobType
<1>6. Shapes'
  BY <1>2, <1>3, <1>5, CommitsAreFinite DEF Shapes
<1>7. IdsAreDrawn'
  BY <1>2, <1>4 DEF IdsAreDrawn
<1>8. CardsAreLocked'
  BY <1>4 DEF CardsAreLocked, Shapes
<1>9. CardEventsNameCards'
  BY <1>2 DEF CardEventsNameCards
<1>10. EndsAreFinal'
  BY <1>1, <1>2, <1>4, <1>5 DEF EndsAreFinal, StreamEnds
<1>11. QED
  BY <1>6, <1>7, <1>8, <1>9, <1>10

LEMMA InsertKeepsTheLedger ==
    ASSUME LedgerInv, NEW w \in Writers, Insert(w)
    PROVE  LedgerInv'
<1> DEFINE o == [id |-> nextId, type |-> Head(writer[w].owed), card |-> None]
<1> USE DEF LedgerInv, Insert, pageVars, rowVars
<1>1. /\ Head(writer[w].owed) \in {"note"} \cup StreamEnds
      /\ Tail(writer[w].owed) \in Seq({"note"} \cup StreamEnds)
  BY HeadTailProperties DEF Shapes, WriterType
<1>2. o \in Event /\ o # None
  BY <1>1, NullIsNoRow DEF Event, Shapes
<1>3. writer' \in [Writers -> WriterType]
  BY <1>1, <1>2 DEF Shapes, WriterType
<1>4. \A u \in Writers: /\ u # w => writer'[u] = writer[u]
                        /\ u = w => /\ writer'[u].open = o
                                    /\ writer'[u].owed = Tail(writer[w].owed)
  BY DEF Shapes, WriterType
<1>5. Shapes'
  BY <1>3 DEF Shapes
<1>6. IdsAreDrawn'
  BY <1>4 DEF IdsAreDrawn, Shapes, Event, WriterType, PageType
<1>7. CardsAreLocked'
  <2>1. o.type # "card_ready"
    BY <1>1 DEF StreamEnds
  <2>2. QED
    BY <1>4, <2>1 DEF CardsAreLocked, Shapes
<1>8. CardEventsNameCards'
  BY DEF CardEventsNameCards
<1>9. EndsAreFinal'
  <2>1. ASSUME job.status \notin Ended
        PROVE  /\ Tail(writer[w].owed) \in Seq({"note"})
               /\ Head(writer[w].owed) = "note"
    BY <2>1, HeadTailProperties DEF EndsAreFinal
  <2>2. QED
    BY <1>4, <2>1 DEF EndsAreFinal, StreamEnds
<1>10. QED
  BY <1>5, <1>6, <1>7, <1>8, <1>9

LEMMA CommitEventKeepsTheLedger ==
    ASSUME LedgerInv, NEW w \in Writers, CommitEvent(w)
    PROVE  LedgerInv'
<1> USE DEF LedgerInv, CommitEvent, pageVars, rowVars
<1>1. writer' \in [Writers -> WriterType]
  BY DEF Shapes, WriterType
<1>2. \A u \in Writers: /\ writer'[u].owed = writer[u].owed
                        /\ u # w => writer'[u] = writer[u]
                        /\ u = w => writer'[u].open = None
  BY DEF Shapes, WriterType
<1>3. writer[w].open.type # "card_ready"
  BY StreamAssumption DEF CardsAreLocked
<1>4. Shapes'
  BY <1>1, CommitsAreFinite DEF Shapes
<1>5. IdsAreDrawn'
  BY <1>2 DEF IdsAreDrawn
<1>6. CardsAreLocked'
  BY <1>2 DEF CardsAreLocked, Shapes
<1>7. CardEventsNameCards'
  BY <1>3 DEF CardEventsNameCards
<1>8. EndsAreFinal'
  BY <1>2 DEF EndsAreFinal
<1>9. QED
  BY <1>4, <1>5, <1>6, <1>7, <1>8

LEMMA DeathKeepsTheLedger ==
    ASSUME LedgerInv, NEW w \in Writers, Die(w)
    PROVE  LedgerInv'
<1> USE DEF LedgerInv, Die, pageVars
<1>1. Idle \in WriterType
  BY DEF Idle, WriterType
<1>2. writer' \in [Writers -> WriterType]
  BY <1>1 DEF Shapes
<1>3. \A u \in Writers: /\ u # w => writer'[u] = writer[u]
                        /\ u = w => writer'[u].open = None /\ writer'[u].owed = <<>>
  BY DEF Shapes, Idle
<1>4. job' \in JobType /\ job'.status = job.status /\ job'.cards = job.cards
  BY DEF Shapes, JobType
<1>5. Shapes'
  BY <1>2, <1>4 DEF Shapes
<1>6. IdsAreDrawn'
  BY <1>3 DEF IdsAreDrawn
<1>7. CardsAreLocked'
  BY <1>3 DEF CardsAreLocked, Shapes
<1>8. CardEventsNameCards'
  BY DEF CardEventsNameCards
<1>9. EndsAreFinal'
  <2>1. <<>> \in Seq({"note"})
    OBVIOUS
  <2>2. QED
    BY <1>3, <1>4, <2>1 DEF EndsAreFinal
<1>10. QED
  BY <1>5, <1>6, <1>7, <1>8, <1>9

-----------------------------------------------------------------------------
(* The stream *)

LEMMA SmallerNumbersFewer ==
    ASSUME NEW S, IsFiniteSet(S), NEW T \in SUBSET S
    PROVE  IsFiniteSet(T) /\ Cardinality(T) \in Nat /\ Cardinality(T) =< Cardinality(S)
  BY FS_Subset, FS_CardinalityType

\* A replay leaves no event out below one that it brings.
LEMMA ReplaysHaveNoGaps ==
    ASSUME Shapes, NEW cursor \in Nat, NEW d \in Dispatched(cursor),
           NEW e \in After(cursor), e.id =< d.id
    PROVE  e \in Dispatched(cursor)
<1> DEFINE Below(x) == {f \in After(cursor): f.id < x.id}
<1>1. d \in Replay(cursor) /\ d \in After(cursor)
  BY DEF Dispatched, Replay
<1>2. \A f \in After(cursor): f \in events /\ f.id \in Nat
  BY DEF After, Shapes, Event
<1>3. IsFiniteSet(Below(d)) /\ Cardinality(Below(d)) \in Nat
  <2>1. Below(d) \in SUBSET events
    BY <1>2
  <2>2. QED
    BY <2>1, SmallerNumbersFewer DEF Shapes
<1>4. Below(e) \in SUBSET Below(d)
  BY <1>1, <1>2
<1>5. Cardinality(Below(e)) \in Nat /\ Cardinality(Below(e)) =< Cardinality(Below(d))
  BY <1>3, <1>4, SmallerNumbersFewer
<1>6. Cardinality(Below(d)) < Limit
  BY <1>1 DEF Replay
<1>7. e \in Replay(cursor)
  <2>1. Cardinality(Below(e)) < Limit
    BY <1>3, <1>5, <1>6, StreamAssumption
  <2>2. QED
    BY <2>1 DEF Replay
<1>8. \A f \in Replay(cursor): f.type \in StreamEnds => e.id =< f.id
  <2>1. TAKE f \in Replay(cursor)
  <2>2. HAVE f.type \in StreamEnds
  <2>3. d.id =< f.id
    BY <2>2 DEF Dispatched
  <2>4. f \in After(cursor)
    BY DEF Replay
  <2>5. QED
    BY <1>1, <1>2, <2>3, <2>4
<1>9. QED
  BY <1>7, <1>8 DEF Dispatched

\* What a step of the generator or the page does: the page moves on to an
\* event of the replay, if it moves, and shows every card it passes.
PageMoves ==
    /\ UNCHANGED <<job, writer, lock, nextId, events>>
    /\ reader' \in ReaderType /\ page' \in PageType
    /\ page'.last = page.last \/ \E d \in events: page'.last = d.id /\ page.last < d.id
    /\ \A e \in events:
          /\ e.type = "card_ready" /\ page.last < e.id /\ e.id =< page'.last
          => e.card \in page'.shown
    /\ page.shown \subseteq page'.shown
    /\ page'.state = "ended" =>
          \/ page.state = "ended"
          \/ \E t \in events: t.type \in StreamEnds /\ t.id =< page'.last

LEMMA LostPages ==
    ASSUME Shapes, Budgets, NEW p \in PageType, p.tries = page.tries,
           p.polls = page.polls, page.state = "stream"
    PROVE  /\ Lost(p) \in PageType
           /\ Lost(p).last = p.last /\ Lost(p).shown = p.shown
           /\ Lost(p).state \in {p.state, "poll"}
           /\ Lost(p).tries =< MaxReconnects /\ Lost(p).polls = p.polls
  BY StreamAssumption DEF Lost, PageType, Budgets, Shapes

LEMMA ReadsMoveThePage ==
    ASSUME LedgerInv, Budgets, CursorIsPagesOwn, Read
    PROVE  PageMoves /\ Budgets' /\ CursorIsPagesOwn'
<1> USE DEF LedgerInv
<1> DEFINE All == Dispatched(reader.cursor)
           Sent(n) == {e \in All: e.id =< n}
           Fresh(n) == {e \in Sent(n): e.type = "card_ready"}
           End(n) == \E e \in Sent(n): e.type \in StreamEnds
           Held(n) == [page EXCEPT !.last = n, !.shown = @ \cup {e.card: e \in Fresh(n)}]
<1>0. reader.pc = "read" /\ reader.cursor = page.last /\ page.state = "stream"
      /\ reader.cursor \in Nat /\ reader \in ReaderType /\ page \in PageType
  BY DEF Read, CursorIsPagesOwn, Shapes, ReaderType
<1>1. PICK n \in {page.last} \cup {e.id: e \in All}:
        \/ /\ End(n)
           /\ reader' = Closed /\ page' = [Held(n) EXCEPT !.state = "ended"]
        \/ /\ ~End(n) /\ Sent(n) = All
           /\ reader' = [reader EXCEPT !.pc = "look", !.cursor = n] /\ page' = Held(n)
        \/ reader' = Closed /\ page' = Lost(Held(n))
  BY DEF Read
<1>2. UNCHANGED <<job, writer, lock, nextId, events>>
  BY DEF Read, rowVars
<1>3. \A e \in All: e \in events /\ e \in After(page.last) /\ e.id \in Nat /\ e.id > page.last
  BY <1>0 DEF Dispatched, Replay, After, Shapes, Event
<1>4. n \in Nat /\ (n = page.last \/ \E d \in All: n = d.id)
  BY <1>0, <1>3 DEF PageType
<1>5. {e.card: e \in Fresh(n)} \in SUBSET Cards
  BY <1>3 DEF CardEventsNameCards
<1>6. /\ Held(n) \in PageType /\ Held(n).last = n /\ Held(n).state = "stream"
      /\ Held(n).shown = page.shown \cup {e.card: e \in Fresh(n)}
      /\ Held(n).tries = page.tries /\ Held(n).polls = page.polls
  BY <1>0, <1>4, <1>5 DEF PageType
<1>7. \A e \in events: e.type = "card_ready" /\ page.last < e.id /\ e.id =< n
                         => e.card \in Held(n).shown
  <2>1. TAKE e \in events
  <2>2. HAVE e.type = "card_ready" /\ page.last < e.id /\ e.id =< n
  <2>3. e.id \in Nat /\ page.last \in Nat
    BY <1>0 DEF Shapes, Event, PageType
  <2>4. PICK d \in All: n = d.id
    BY <1>4, <2>2, <2>3
  <2>5. e \in After(reader.cursor)
    BY <1>0, <2>2, <2>3 DEF After
  <2>6. e \in All
    BY <1>0, <2>2, <2>4, <2>5, ReplaysHaveNoGaps
  <2>7. e \in Fresh(n)
    BY <2>2, <2>6
  <2>8. QED
    BY <1>6, <2>7
<1>8. Closed \in ReaderType /\ Closed.pc = "off"
  BY DEF Closed, ReaderType
<1>9. \E h \in PageType:
        /\ page' = h
        /\ h.last = n /\ h.shown = Held(n).shown
        /\ h.tries =< MaxReconnects /\ h.polls = page.polls
        /\ h.state \in {"ended", "stream", "poll"}
        /\ h.state = "ended" => End(n)
        /\ \/ reader' = Closed
           \/ reader' = [reader EXCEPT !.pc = "look", !.cursor = n] /\ h.state = "stream"
  <2> HIDE DEF Held, End, Sent
  <2>1. CASE End(n) /\ reader' = Closed /\ page' = [Held(n) EXCEPT !.state = "ended"]
    BY <1>6, <2>1 DEF PageType, Budgets
  <2>2. CASE /\ reader' = [reader EXCEPT !.pc = "look", !.cursor = n]
             /\ page' = Held(n)
    BY <1>6, <2>2 DEF Budgets
  <2>3. CASE reader' = Closed /\ page' = Lost(Held(n))
    <3>1. /\ Lost(Held(n)) \in PageType
          /\ Lost(Held(n)).last = n /\ Lost(Held(n)).shown = Held(n).shown
          /\ Lost(Held(n)).state \in {"stream", "poll"}
          /\ Lost(Held(n)).tries =< MaxReconnects /\ Lost(Held(n)).polls = page.polls
      BY <1>0, <1>6, LostPages
    <3>2. QED
      BY <2>3, <3>1
  <2>4. QED
    BY <1>1, <2>1, <2>2, <2>3
<1>10. reader' \in ReaderType /\ (reader'.pc # "off" => reader'.cursor = page'.last)
  BY <1>0, <1>4, <1>8, <1>9 DEF ReaderType
<1>11. CursorIsPagesOwn'
  BY <1>8, <1>9, <1>10 DEF CursorIsPagesOwn
<1>12. Budgets'
  BY <1>0, <1>2, <1>9 DEF Budgets
<1>13. PageMoves
  <2>1. page'.last = page.last \/ \E d \in events: page'.last = d.id /\ page.last < d.id
    BY <1>3, <1>4, <1>9
  <2>2. page'.state = "ended" =>
          \E t \in events: t.type \in StreamEnds /\ t.id =< page'.last
    BY <1>3, <1>9
  <2>3. page.shown \subseteq page'.shown /\ page' \in PageType
    BY <1>6, <1>9
  <2>4. QED
    BY <1>2, <1>7, <1>9, <1>10, <2>1, <2>2, <2>3 DEF PageMoves
<1>14. QED
  BY <1>11, <1>12, <1>13

LEMMA OthersMoveThePage ==
    ASSUME LedgerInv, Budgets, CursorIsPagesOwn,
           Connect \/ Look \/ Finish \/ Disconnect \/ Poll
    PROVE  PageMoves /\ Budgets' /\ CursorIsPagesOwn'
<1> USE DEF LedgerInv, Shapes, rowVars
<1>1. Closed \in ReaderType /\ Closed.pc = "off"
  BY DEF Closed, ReaderType
<1>2. \A e \in events: e.id \in Nat
  <2>1. \A e \in Event: e.id \in Nat
    BY DEF Event
  <2>2. QED
    BY <2>1
<1>r. page \in PageType /\ reader \in ReaderType /\ page.last \in Nat
  BY DEF PageType
<1>p. ASSUME UNCHANGED <<job, writer, lock, nextId, events, page>>, reader' \in ReaderType
      PROVE  PageMoves /\ Budgets'
  <2>1. Budgets'
    BY <1>p DEF Budgets
  <2>2. \A e \in events: ~(page.last < e.id /\ e.id =< page.last)
    BY <1>2, <1>r
  <2>3. QED
    BY <1>p, <1>r, <2>1, <2>2 DEF PageMoves
<1>3. CASE Connect
  <2>1. UNCHANGED <<job, writer, lock, nextId, events, page>> /\ page.state = "stream"
        /\ reader' = [pc |-> "read", cursor |-> page.last, final |-> FALSE]
    BY <1>3 DEF Connect, Closed
  <2>2. reader' \in ReaderType /\ reader'.cursor = page.last
    BY <1>r, <2>1 DEF ReaderType
  <2>3. QED
    BY <1>p, <2>1, <2>2 DEF CursorIsPagesOwn
<1>4. CASE Look
  <2>1. UNCHANGED <<job, writer, lock, nextId, events, page>> /\ reader.pc # "off"
        /\ reader' = [pc |-> "read", cursor |-> reader.cursor,
                      final |-> job.status \in StreamEnds]
    BY <1>r, <1>4 DEF Look, ReaderType
  <2>2. reader' \in ReaderType /\ reader'.cursor = reader.cursor
    BY <1>r, <2>1 DEF ReaderType
  <2>3. QED
    BY <1>p, <2>1, <2>2 DEF CursorIsPagesOwn
<1>5. CASE Finish \/ Disconnect
  <2>1. reader' = Closed /\ page' = Lost(page) /\ page.state = "stream"
        /\ UNCHANGED <<job, writer, lock, nextId, events>>
    BY <1>5 DEF Finish, Disconnect, CursorIsPagesOwn
  <2>2. /\ Lost(page) \in PageType
        /\ Lost(page).last = page.last /\ Lost(page).shown = page.shown
        /\ Lost(page).state \in {"stream", "poll"}
        /\ Lost(page).tries =< MaxReconnects /\ Lost(page).polls = page.polls
    BY <2>1, LostPages
  <2>3. Budgets' /\ CursorIsPagesOwn'
    BY <1>1, <2>1, <2>2 DEF Budgets, CursorIsPagesOwn
  <2>4. PageMoves
    BY <1>1, <1>2, <2>1, <2>2 DEF PageMoves, PageType
  <2>5. QED
    BY <2>3, <2>4
<1>6. CASE Poll
  <2>1. PICK cs \in SUBSET job.cards:
          page' = [page EXCEPT !.shown = page.shown \cup cs, !.polls = @ + 1,
                     !.state = IF page.shown \cup cs = Cards \/ page.polls + 1 = MaxPolls
                               THEN "polled" ELSE @]
    BY <1>6 DEF Poll
  <2>2. /\ page.shown \cup cs \in SUBSET Cards /\ page.polls + 1 \in Nat
        /\ page.state = "poll" /\ page.polls < MaxPolls /\ page \in PageType
    <3>1. page.state = "poll" /\ page.polls < MaxPolls
      BY <1>6 DEF Poll, Budgets
    <3>2. job.cards \in SUBSET Cards /\ page.shown \in SUBSET Cards /\ page.polls \in Nat
      BY <1>r DEF JobType, PageType
    <3>3. QED
      BY <1>r, <3>1, <3>2
  <2>3. /\ page' \in PageType /\ page'.last = page.last
        /\ page'.shown = page.shown \cup cs /\ page'.tries = page.tries
        /\ page'.polls = page.polls + 1
        /\ page'.state \in {"poll", "polled"}
        /\ page.polls + 1 = MaxPolls => page'.state = "polled"
    BY <2>1, <2>2 DEF PageType
  <2>4. UNCHANGED <<job, writer, lock, nextId, events, reader>> /\ reader.pc = "off"
    BY <1>6, <2>2 DEF Poll, CursorIsPagesOwn, ReaderType
  <2>5. Budgets'
    BY <2>2, <2>3, <2>4, StreamAssumption DEF Budgets, PageType
  <2>6. QED
    BY <1>2, <2>2, <2>3, <2>4, <2>5 DEF PageMoves, CursorIsPagesOwn, PageType
<1>7. QED
  BY <1>3, <1>4, <1>5, <1>6

LEMMA PageMovesKeepTheLedger ==
    ASSUME LedgerInv, PageMoves
    PROVE  LedgerInv'
<1> USE DEF LedgerInv, PageMoves
<1>1. Shapes'
  BY DEF Shapes
<1>2. IdsAreDrawn'
  BY DEF IdsAreDrawn
<1>3. CardsAreLocked'
  BY DEF CardsAreLocked
<1>4. CardEventsNameCards'
  BY DEF CardEventsNameCards
<1>5. EndsAreFinal'
  BY DEF EndsAreFinal
<1>6. QED
  BY <1>1, <1>2, <1>3, <1>4, <1>5

-----------------------------------------------------------------------------
(* Every step *)

LEMMA WritesKeepBudgets ==
    ASSUME StreamInv, NEW w \in Writers, Write(w)
    PROVE  Budgets' /\ CursorIsPagesOwn'
<1>1. UNCHANGED pageVars
  BY DEF Write, Claim, Report, Close, Requeue, Expire, Move, Publish, CommitCard,
         Insert, CommitEvent, Die
<1>2. CursorIsPagesOwn'
  BY <1>1 DEF StreamInv, CursorIsPagesOwn, pageVars
<1>3. job \in JobType /\ job.claims \in Nat
  BY DEF StreamInv, LedgerInv, Shapes, JobType
<1>4. job'.claims =< MaxClaims /\ (job'.status = "queued" => job'.claims < MaxClaims)
  <2> USE DEF StreamInv, Budgets
  <2>1. CASE Claim(w)
    <3>1. job'.claims = job.claims + 1 /\ job'.status = "running"
      BY <1>3, <2>1 DEF Claim, JobType
    <3>2. QED
      BY <1>3, <2>1, <3>1, StreamAssumption DEF Claim
  <2>2. CASE Report(w) \/ Close(w) \/ Expire(w)
    <3>1. job'.claims = job.claims /\ job'.status # "queued"
      BY <1>3, <2>2 DEF Report, Close, Expire, Move, Owns, JobType
    <3>2. QED
      BY <1>3, <3>1
  <2>3. CASE Requeue(w)
    BY <1>3, <2>3 DEF Requeue, Move, JobType
  <2>4. CASE (\E c \in Cards: Publish(w, c)) \/ Insert(w) \/ CommitEvent(w)
    BY <2>4 DEF Publish, Insert, CommitEvent, rowVars
  <2>5. CASE CommitCard(w) \/ Die(w)
    <3>1. job'.claims = job.claims /\ job'.status = job.status
      BY <1>3, <2>5 DEF CommitCard, Die, JobType
    <3>2. QED
      BY <1>3, <3>1
  <2>6. QED
    BY <2>1, <2>2, <2>3, <2>4, <2>5 DEF Write
<1>5. Budgets'
  BY <1>1, <1>4 DEF StreamInv, Budgets, pageVars
<1>6. QED
  BY <1>2, <1>5

\* The parts that relate the ledger to the page, together.
Passage ==
    /\ OpenCardIsAhead
    /\ CardsHaveEvents
    /\ EndsComeLast
    /\ CardsAreNeverSkipped
    /\ EndedPageSawTheEnd

LEMMA EventIds == ASSUME StreamInv
                  PROVE  /\ \A e \in events: e.id \in Nat
                         /\ \A w \in Writers: writer[w].open # None =>
                               writer[w].open \in Event /\ writer[w].open.id \in Nat
                         /\ nextId \in Nat /\ page.last \in Nat
<1>1. \A e \in Event: e.id \in Nat
  BY DEF Event
<1>2. QED
  BY <1>1 DEF StreamInv, LedgerInv, Shapes, WriterType, PageType

LEMMA WritesKeepPassage ==
    ASSUME StreamInv, NEW w \in Writers, Write(w)
    PROVE  Passage'
<1> USE DEF StreamInv, pageVars, rowVars
<1>a. w # None
  BY StreamAssumption
<1>b. \A u \in Writers: writer[u] \in WriterType
  BY DEF LedgerInv, Shapes
<1>r. CASE RowMoves(w)
  <2>1. UNCHANGED <<lock, nextId, events, reader, page>> /\ job'.cards = job.cards
        /\ lock = None
    BY <1>r DEF RowMoves
  <2>2. \A u \in Writers: writer'[u].open = writer[u].open
    BY <1>b, <1>r DEF RowMoves, Owes, LedgerInv, Shapes, WriterType
  <2>3. QED
    BY <2>1, <2>2 DEF Passage, OpenCardIsAhead, CardsHaveEvents, EndsComeLast,
                      CardsAreNeverSkipped, EndedPageSawTheEnd
<1>p. ASSUME NEW c \in Cards, Publish(w, c)
      PROVE  Passage'
  <2>1. UNCHANGED <<job, events, reader, page>> /\ lock' = w /\ lock = None
        /\ job.status \notin Ended
    BY <1>p DEF Publish, Owns, Ended
  <2>2. \A u \in Writers: /\ u # w => writer'[u] = writer[u]
                          /\ u = w => writer'[u].open =
                                [id |-> nextId, type |-> "card_ready", card |-> c]
    BY <1>p, <1>b DEF Publish, LedgerInv, Shapes, WriterType
  <2>3. OpenCardIsAhead'
    BY <2>1, <2>2 DEF OpenCardIsAhead, LedgerInv, IdsAreDrawn
  <2>4. EndsComeLast'
    BY <2>1, <2>2 DEF EndsComeLast, StreamEnds
  <2>5. QED
    BY <2>1, <2>3, <2>4
       DEF Passage, CardsHaveEvents, CardsAreNeverSkipped, EndedPageSawTheEnd
<1>c. CASE CommitCard(w)
  <2> DEFINE o == writer[w].open
  <2>1. /\ lock = w /\ lock' = None /\ events' = events \cup {o}
        /\ o # None /\ o.type = "card_ready" /\ o.card \in Cards
        /\ UNCHANGED <<reader, page>> /\ job.status \notin Ended
    BY <1>a, <1>c DEF CommitCard, LedgerInv, CardsAreLocked, EndsAreFinal
  <2>2. /\ \A e \in events: e.id < o.id
        /\ page.last < o.id
    BY <1>a, <2>1 DEF OpenCardIsAhead
  <2>3. \A u \in Writers: /\ u # w => writer'[u] = writer[u]
                          /\ u = w => writer'[u].open = None
    BY <1>c, <1>b DEF CommitCard, LedgerInv, Shapes, WriterType
  <2>4. job'.cards = job.cards \cup {o.card}
    BY <1>c DEF CommitCard, LedgerInv, Shapes, JobType
  <2>5. OpenCardIsAhead'
    BY <2>1 DEF OpenCardIsAhead
  <2>6. CardsHaveEvents'
    BY <2>1, <2>4 DEF CardsHaveEvents
  <2>7. EndsComeLast'
    <3>1. /\ \A t \in events: t.type \notin StreamEnds
          /\ \A u \in Writers: writer[u].open # None => writer[u].open.type \notin StreamEnds
      BY <2>1 DEF LedgerInv, EndsAreFinal
    <3>2. \A t \in events': t.type \notin StreamEnds
      BY <2>1, <3>1 DEF StreamEnds
    <3>3. \A u \in Writers: writer'[u].open # None => writer'[u].open.type \notin StreamEnds
      BY <2>3, <3>1
    <3>4. QED
      BY <3>2, <3>3 DEF EndsComeLast
  <2>8. CardsAreNeverSkipped'
    BY <2>1, <2>2, EventIds DEF CardsAreNeverSkipped
  <2>9. EndedPageSawTheEnd'
    BY <2>1 DEF EndedPageSawTheEnd
  <2>10. QED
    BY <2>5, <2>6, <2>7, <2>8, <2>9 DEF Passage
<1>i. CASE Insert(w)
  <2>1. UNCHANGED <<job, lock, events, reader, page>> /\ writer[w].open = None
    BY <1>i DEF Insert
  <2>2. \A u \in Writers: /\ u # w => writer'[u] = writer[u]
                          /\ u = w => writer'[u].open.id = nextId
    BY <1>i, <1>b DEF Insert, LedgerInv, Shapes, WriterType
  <2>3. lock # w
    BY <1>a, <2>1 DEF LedgerInv, CardsAreLocked
  <2>4. OpenCardIsAhead'
    BY <2>1, <2>2, <2>3 DEF OpenCardIsAhead, LedgerInv, Shapes
  <2>5. EndsComeLast'
    BY <2>1, <2>2 DEF EndsComeLast, LedgerInv, IdsAreDrawn
  <2>6. QED
    BY <2>1, <2>4, <2>5
       DEF Passage, CardsHaveEvents, CardsAreNeverSkipped, EndedPageSawTheEnd
<1>e. CASE CommitEvent(w)
  <2> DEFINE o == writer[w].open
  <2>1. /\ lock = None /\ events' = events \cup {o}
        /\ o # None /\ o.type # "card_ready"
        /\ UNCHANGED <<job, lock, reader, page>>
    BY <1>a, <1>e DEF CommitEvent, LedgerInv, CardsAreLocked
  <2>2. \A u \in Writers: /\ u # w => writer'[u] = writer[u]
                          /\ u = w => writer'[u].open = None
    BY <1>e, <1>b DEF CommitEvent, LedgerInv, Shapes, WriterType
  <2>3. OpenCardIsAhead'
    BY <2>1 DEF OpenCardIsAhead
  <2>4. CardsHaveEvents'
    BY <2>1 DEF CardsHaveEvents
  <2>5. EndsComeLast'
    BY <2>1, <2>2 DEF EndsComeLast
  <2>6. CardsAreNeverSkipped'
    BY <2>1 DEF CardsAreNeverSkipped
  <2>7. EndedPageSawTheEnd'
    BY <2>1 DEF EndedPageSawTheEnd
  <2>8. QED
    BY <2>3, <2>4, <2>5, <2>6, <2>7 DEF Passage
<1>d. CASE Die(w)
  <2>1. UNCHANGED <<nextId, events, reader, page>> /\ lock' \in {lock, None}
        /\ (lock' # None => lock' # w)
    BY <1>a, <1>d DEF Die
  <2>2. \A u \in Writers: /\ u # w => writer'[u] = writer[u]
                          /\ u = w => writer'[u].open = None
    BY <1>d DEF Die, Idle, LedgerInv, Shapes
  <2>3. job'.cards = job.cards
    BY <1>d DEF Die, LedgerInv, Shapes, JobType
  <2>4. OpenCardIsAhead'
    BY <2>1, <2>2 DEF OpenCardIsAhead, LedgerInv, Shapes
  <2>5. EndsComeLast'
    BY <2>1, <2>2 DEF EndsComeLast
  <2>6. QED
    BY <2>1, <2>3, <2>4, <2>5
       DEF Passage, CardsHaveEvents, CardsAreNeverSkipped, EndedPageSawTheEnd
<1>q. QED
  BY <1>r, <1>p, <1>c, <1>i, <1>e, <1>d, OperationsMoveTheRow DEF Write

LEMMA PageMovesKeepPassage ==
    ASSUME StreamInv, PageMoves
    PROVE  Passage'
<1> USE DEF StreamInv, PageMoves
<1>1. page'.last \in Nat /\ page.last =< page'.last
  BY EventIds
<1>2. OpenCardIsAhead'
  <2>1. lock # None => lock \in Writers /\ writer[lock].open # None
    BY DEF LedgerInv, Shapes, CardsAreLocked
  <2>2. QED
    BY <2>1 DEF OpenCardIsAhead
<1>3. CardsHaveEvents' /\ EndsComeLast'
  BY DEF CardsHaveEvents, EndsComeLast
<1>4. CardsAreNeverSkipped'
  BY EventIds DEF CardsAreNeverSkipped
<1>5. EndedPageSawTheEnd'
  BY <1>1, EventIds DEF EndedPageSawTheEnd
<1>6. QED
  BY <1>2, <1>3, <1>4, <1>5 DEF Passage

LEMMA StreamInvariant == Spec => []StreamInv
<1>1. Init => StreamInv
  <2> SUFFICES ASSUME Init PROVE StreamInv
    OBVIOUS
  <2> USE DEF Init, Idle, Closed
  <2>1. Shapes
    <3>1. Idle \in WriterType
      BY DEF WriterType
    <3>2. IsFiniteSet(events)
      BY FS_EmptySet
    <3>3. QED
      BY <3>1, <3>2 DEF Shapes, JobType, ReaderType, PageType
  <2>2. Budgets
    BY StreamAssumption DEF Budgets
  <2>3. EndsAreFinal
    <3>1. <<>> \in Seq({"note"})
      OBVIOUS
    <3>2. \A w \in Writers: writer[w].owed = <<>> /\ writer[w].open = None
      OBVIOUS
    <3>3. QED
      BY <3>1, <3>2 DEF EndsAreFinal
  <2>4. QED
    BY <2>1, <2>2, <2>3 DEF StreamInv, LedgerInv, IdsAreDrawn, CursorIsPagesOwn,
       CardsAreLocked, OpenCardIsAhead, CardEventsNameCards, CardsHaveEvents,
       EndsComeLast, CardsAreNeverSkipped, EndedPageSawTheEnd
<1>2. StreamInv /\ [Next]_vars => StreamInv'
  <2> SUFFICES ASSUME StreamInv, [Next]_vars PROVE StreamInv'
    OBVIOUS
  <2>0. LedgerInv /\ Budgets /\ CursorIsPagesOwn
    BY DEF StreamInv
  <2>1. ASSUME NEW w \in Writers, Write(w)
        PROVE  StreamInv'
    <3>1. LedgerInv'
      BY <2>0, <2>1, OperationsMoveTheRow, RowMovesKeepTheLedger,
         PublishKeepsTheLedger, CommitCardKeepsTheLedger, InsertKeepsTheLedger,
         CommitEventKeepsTheLedger, DeathKeepsTheLedger DEF Write
    <3>2. QED
      BY <2>1, <3>1, WritesKeepBudgets, WritesKeepPassage DEF StreamInv, Passage
  <2>2. CASE Serve \/ Disconnect \/ Poll
    <3>1. PageMoves /\ Budgets' /\ CursorIsPagesOwn'
      BY <2>0, <2>2, ReadsMoveThePage, OthersMoveThePage DEF Serve
    <3>2. QED
      BY <2>0, <3>1, PageMovesKeepTheLedger, PageMovesKeepPassage DEF StreamInv, Passage
  <2>3. CASE UNCHANGED vars
    BY <2>3 DEF vars, StreamInv, LedgerInv, Shapes, IdsAreDrawn, CardsAreLocked,
       CardEventsNameCards, EndsAreFinal, Budgets, CursorIsPagesOwn, OpenCardIsAhead,
       CardsHaveEvents, EndsComeLast, CardsAreNeverSkipped, EndedPageSawTheEnd
  <2>4. QED
    BY <2>1, <2>2, <2>3 DEF Next
<1>3. QED
  BY <1>1, <1>2, PTL DEF Spec

-----------------------------------------------------------------------------
(* Theorems *)

\* The row, the ledger and the page keep their shapes, and the budgets hold:
\* the job is claimed at most MaxClaims times (max_retries + 1), the page
\* reopens its stream and polls no more often than its two limits allow.
THEOREM StreamTypes == Spec => []TypeOK
<1>1. StreamInv => TypeOK
  BY DEF StreamInv, LedgerInv, Shapes, Budgets, TypeOK, JobType, WriterType,
         ReaderType, PageType
<1>2. QED
  BY <1>1, StreamInvariant, PTL

\* list_events replays from the page's last id, and ids commit out of order:
\* still no card_ready event ever becomes visible below the cursor of a page
\* that does not show its card, because mark_card_ready holds the row that
\* every other event's foreign key has to read.
THEOREM NoCardIsSkipped == Spec => []CardsAreNeverSkipped
<1>1. StreamInv => CardsAreNeverSkipped
  BY DEF StreamInv
<1>2. QED
  BY <1>1, StreamInvariant, PTL

\* However often the stream broke and whichever execution published: when a
\* terminal event has ended the page, the page shows every card of the row.
THEOREM TheEndIsLast == Spec => []TheEndComesAfterTheCards
<1>1. StreamInv => TheEndComesAfterTheCards
  <2> SUFFICES ASSUME StreamInv, page.state = "ended", NEW c \in job.cards
               PROVE  c \in page.shown
    BY DEF TheEndComesAfterTheCards
  <2>1. PICK t \in events: t.type \in StreamEnds /\ t.id =< page.last
    BY DEF StreamInv, EndedPageSawTheEnd
  <2>2. PICK e \in events: e.type = "card_ready" /\ e.card = c
    BY DEF StreamInv, CardsHaveEvents
  <2>3. e.id < t.id
    BY <2>1, <2>2 DEF StreamInv, EndsComeLast
  <2>4. e.id =< page.last
    BY <2>1, <2>3, EventIds
  <2>5. QED
    BY <2>2, <2>4 DEF StreamInv, CardsAreNeverSkipped
<1>2. QED
  BY <1>1, StreamInvariant, PTL

\* A dispatch of event_generator brings the page only events above the last
\* one it received, across every reconnect: none arrives twice, and none
\* after a later one.
THEOREM EventsArriveOnce == Spec => EventsArriveOnceInOrder
<1>1. StreamInv /\ [Next]_vars =>
        [Read => \A e \in Dispatched(reader.cursor): e.id > page.last]_vars
  BY DEF StreamInv, CursorIsPagesOwn, Read, Dispatched, Replay, After
<1>2. QED
  BY <1>1, StreamInvariant, PTL DEF Spec, EventsArriveOnceInOrder
=============================================================================
