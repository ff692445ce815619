------------------------- MODULE TutorStreamProofs -------------------------
(***************************************************************************)
(* Proofs about TutorStream and the LearningAssets it extends: the last    *)
(* edit of a learner waits on the page until a server has accepted it, and *)
(* an answer of the tutor that the page calls complete is whole.           *)
(***************************************************************************)
EXTENDS TutorStream, TLAPS, FiniteSetTheorems, SequenceTheorems, WellFoundedInduction

(***************************************************************************)
(* Least members, and sequences with one element removed or replaced.      *)
(***************************************************************************)

\* A set of positions that is not empty has a least member, which is what Min
\* returns: of the sets of smaller members, ordered by inclusion, one is minimal.
LEMMA LeastPosition ==
    ASSUME NEW n \in Nat, NEW S \in SUBSET (1..n), S # {}
    PROVE  Min(S) \in S /\ \A j \in S : Min(S) <= j
<1> DEFINE Below(i) == {j \in S : j < i}
           All == {Below(i) : i \in S}
<1>1. IsFiniteSet(S)
  <2>1. IsFiniteSet(1..n)  BY FS_Interval
  <2> QED  BY <2>1, FS_Subset
<1>2. All \subseteq FiniteSubsetsOf(S)
  <2> SUFFICES ASSUME NEW i \in S PROVE Below(i) \in FiniteSubsetsOf(S)
      OBVIOUS
  <2>1. Below(i) \subseteq S  OBVIOUS
  <2>2. IsFiniteSet(Below(i))  BY <1>1, <2>1, FS_Subset
  <2> QED  BY <2>1, <2>2 DEF FiniteSubsetsOf
<1>3. All # {}
  OBVIOUS
<1>4. IsWellFoundedOn(StrictSubsetOrdering(S), FiniteSubsetsOf(S))
  BY FS_StrictSubsetOrderingWellFounded
<1>5. PICK T \in All : \A U \in All : <<U, T>> \notin StrictSubsetOrdering(S)
  <2> HIDE DEF All
  <2> QED  BY <1>2, <1>3, <1>4, WFMin
<1>6. PICK m \in S : T = Below(m)
  OBVIOUS
<1>7. \A j \in S : m <= j
  <2> SUFFICES ASSUME NEW j \in S, j < m PROVE FALSE
      OBVIOUS
  <2>1. (\A i \in S : i < j => i < m) /\ ~ (j < j)  OBVIOUS
  <2>2. Below(j) \subseteq Below(m)  BY <2>1
  <2>3. j \in Below(m) /\ j \notin Below(j)  BY <2>1
  <2>4. <<Below(j), Below(m)>> \in StrictSubsetOrdering(S)
    <3>1. Below(j) \in SUBSET S /\ Below(m) \in SUBSET S  OBVIOUS
    <3>2. Below(j) # Below(m)  BY <2>3
    <3> HIDE DEF Below
    <3> QED  BY <3>1, <3>2, <2>2 DEF StrictSubsetOrdering
  <2> QED  BY <2>4, <1>5, <1>6
<1> QED  BY <1>7 DEF Min

\* removePendingPatch removes nothing but the patch it is given.
LEMMA OthersStayPending ==
    ASSUME NEW T, NEW q \in Seq(T), NEW p
    PROVE  /\ RemovePending(q, p) \in Seq(T)
           /\ \A i \in 1..Len(q) : q[i] # p =>
                 \E j \in 1..Len(RemovePending(q, p)) : RemovePending(q, p)[j] = q[i]
<1> DEFINE at == {i \in 1..Len(q) : q[i] = p}
           m == Min(at)
<1>1. RemovePending(q, p) = IF at = {} THEN q ELSE RemoveAt(q, m)
  <2>1. DOMAIN q = 1..Len(q)  OBVIOUS
  <2> QED  BY <2>1 DEF RemovePending
<1>2. CASE at = {}
  BY <1>1, <1>2
<1>3. CASE at # {}
  <2>1. m \in at
    <3>1. Len(q) \in Nat /\ at \in SUBSET (1..Len(q))  OBVIOUS
    <3> HIDE DEF at
    <3> QED  BY <3>1, <1>3, LeastPosition
  <2> HIDE DEF m
  <2>a. m \in 1..Len(q) /\ q[m] = p  BY <2>1
  <2> DEFINE a == SubSeq(q, 1, m - 1)
             b == SubSeq(q, m + 1, Len(q))
  <2>2. RemovePending(q, p) = a \o b
    BY <1>1, <1>3 DEF RemoveAt
  <2>3. /\ a \in Seq(T) /\ Len(a) = m - 1 /\ \A i \in 1..(m - 1) : a[i] = q[i]
    BY <2>a, SubSeqProperties
  <2>4. /\ b \in Seq(T) /\ Len(b) = Len(q) - m /\ \A i \in 1..(Len(q) - m) : b[i] = q[m + i]
    BY <2>a, SubSeqProperties
  <2> HIDE DEF a, b
  <2>5. a \o b \in Seq(T) /\ Len(a \o b) = Len(q) - 1
    <3>1. a \o b \in Seq(T) /\ Len(a \o b) = Len(a) + Len(b)
      BY <2>3, <2>4, ConcatProperties
    <3> QED  BY <3>1, <2>3, <2>4, <2>a
  <2>6. ASSUME NEW i \in 1..Len(q), q[i] # p PROVE \E j \in 1..Len(a \o b) : (a \o b)[j] = q[i]
    <3>1. CASE i < m
      <4>1. i \in 1..Len(a) /\ i \in 1..Len(a \o b)
        BY <3>1, <2>a, <2>3, <2>5
      <4>2. (a \o b)[i] = a[i]
        BY <4>1, <2>3, <2>4, ConcatProperties
      <4> QED  BY <4>1, <4>2, <2>3
    <3>2. CASE i > m
      <4>1. /\ i - 1 \in 1..Len(a \o b) /\ ~ (i - 1 <= Len(a))
            /\ i - 1 - Len(a) = i - m /\ i - m \in 1..(Len(q) - m) /\ m + (i - m) = i
        BY <3>2, <2>a, <2>3, <2>4, <2>5
      <4>2. (a \o b)[i - 1] = b[i - m]
        BY <4>1, <2>3, <2>4, <2>5, ConcatProperties
      <4> QED  BY <4>1, <4>2, <2>4
    <3> QED  BY <3>1, <3>2, <2>a, <2>6
  <2> QED  BY <2>2, <2>5, <2>6
<1> QED  BY <1>2, <1>3

(***************************************************************************)
(* The edits of a page.                                                    *)
(***************************************************************************)
Patch == [edit : Nat, key : Keys, value : Nat, fit : BOOLEAN, made : Nat]
DeviceFields == {"open", "hydrated", "revision", "shown", "pending", "active",
                 "promised", "cache", "logins"}
PageShape(dv) ==
    /\ DOMAIN dv = DeviceFields
    /\ dv.open \in BOOLEAN /\ dv.logins \in Nat
    /\ dv.pending \in Seq(Patch) /\ dv.cache.pending \in Seq(Patch)

\* Edit n of the key k waits in the sequence q, or need not.
Waits(q, k, n) == \E i \in 1..Len(q) : q[i].key = k /\ q[i].edit = n
KeptIn(q, k, n, done) == n = 0 \/ n \in done \/ Waits(q, k, n)
\* ... in local storage, and in the memory of an open page.
PageKept(dv, last, done) ==
    \A k \in Keys :
        /\ KeptIn(dv.cache.pending, k, last[k].edit, done)
        /\ dv.open => KeptIn(dv.pending, k, last[k].edit, done)

\* An answer "ok" is never made up: the edit it is about was accepted.
Told(f, done) ==
    /\ "at" \in DOMAIN f
    /\ f.at = "answered" /\ f.answer.kind = "ok" => f.patch.edit \in done
FlowsTold(fl, done) ==
    /\ DOMAIN fl = Devices
    /\ \A d \in Devices : /\ DOMAIN fl[d] = 1..MaxFlows
                          /\ \A i \in 1..MaxFlows : Told(fl[d][i], done)

EditsInv ==
    /\ edits \in Nat
    /\ DOMAIN device = Devices /\ DOMAIN fetch = Devices
    /\ latest \in [Devices -> [Keys -> [edit : Nat, value : Nat]]]
    /\ \A d \in Devices : /\ PageShape(device[d])
                          /\ PageKept(device[d], latest[d], accepted)
                          /\ fetch[d] # None => device[d].open
    /\ FlowsTold(flow, accepted)

LEMMA EditsInit == Init => EditsInv
<1> SUFFICES ASSUME Init PROVE EditsInv
    OBVIOUS
<1> USE DEF Init, AssetsInit
<1>1. \A d \in Devices : PageShape(device[d])
  <2>1. << >> \in Seq(Patch)  OBVIOUS
  <2> QED  BY <2>1 DEF PageShape, Closed, EmptyCache, DeviceFields
<1>2. \A d \in Devices, k \in Keys : latest[d][k].edit = 0
  BY DEF NoEdit
<1>3. \A d \in Devices : PageKept(device[d], latest[d], accepted)
  BY <1>2 DEF PageKept, KeptIn
<1>4. FlowsTold(flow, accepted)
  BY DEF FlowsTold, Told, NoFlow
<1>5. latest \in [Devices -> [Keys -> [edit : Nat, value : Nat]]]
  BY DEF NoEdit, Absent
<1> QED  BY <1>1, <1>3, <1>4, <1>5 DEF EditsInv

\* A step of one page.
LEMMA OnePageMoves ==
    ASSUME EditsInv, NEW d \in Devices, NEW dv, PageShape(dv),
           NEW last \in [Keys -> [edit : Nat, value : Nat]], PageKept(dv, last, accepted),
           device' = [device EXCEPT ![d] = dv], latest' = [latest EXCEPT ![d] = last],
           DOMAIN fetch' = Devices, fetch'[d] # None => dv.open,
           \A e \in Devices \ {d} : fetch'[e] = fetch[e],
           accepted' = accepted, FlowsTold(flow', accepted), edits' \in Nat
    PROVE  EditsInv'
<1>1. \A e \in Devices : /\ PageShape(device'[e])
                         /\ PageKept(device'[e], latest'[e], accepted)
                         /\ fetch'[e] # None => device'[e].open
  <2> TAKE e \in Devices
  <2>1. CASE e = d  BY <2>1 DEF EditsInv
  <2>2. CASE e # d
    <3>1. device'[e] = device[e] /\ latest'[e] = latest[e] /\ fetch'[e] = fetch[e]
      BY <2>2 DEF EditsInv
    <3> QED  BY <3>1 DEF EditsInv
  <2> QED  BY <2>1, <2>2
<1>2. /\ DOMAIN device' = Devices /\ DOMAIN fetch' = Devices
      /\ latest' \in [Devices -> [Keys -> [edit : Nat, value : Nat]]]
  BY DEF EditsInv
<1> QED  BY <1>1, <1>2 DEF EditsInv

\* A step of the server: what it accepts stays accepted.
LEMMA ServerMoves ==
    ASSUME EditsInv, UNCHANGED <<device, written>>,
           DOMAIN fetch' = Devices, \A d \in Devices : fetch'[d] # None => fetch[d] # None,
           accepted \subseteq accepted', FlowsTold(flow', accepted')
    PROVE  EditsInv'
<1>1. \A d \in Devices : PageKept(device[d], latest[d], accepted')
  BY DEF EditsInv, PageKept, KeptIn
<1> QED  BY <1>1 DEF EditsInv, written

LEMMA OneFlowMoves ==
    ASSUME NEW done, FlowsTold(flow, accepted), accepted \subseteq done, NEW d \in Devices, NEW i, NEW f, Told(f, done)
    PROVE  FlowsTold([flow EXCEPT ![d][i] = f], done)
<1> DEFINE fl == [flow EXCEPT ![d][i] = f]
<1>1. DOMAIN fl = Devices /\ \A e \in Devices : DOMAIN fl[e] = 1..MaxFlows
  BY DEF FlowsTold
<1>2. \A e \in Devices, j \in 1..MaxFlows : fl[e][j] = flow[e][j] \/ fl[e][j] = f
  BY DEF FlowsTold
<1>3. \A e \in Devices, j \in 1..MaxFlows : Told(flow[e][j], done)
  BY DEF FlowsTold, Told
<1> QED  BY <1>1, <1>2, <1>3 DEF FlowsTold

\* persistLocal, applyRemote and flushPending.
LEMMA KeptLocally ==
    ASSUME NEW dv, PageShape(dv)
    PROVE  /\ PageShape(KeepLocal(dv))
           /\ KeepLocal(dv).pending = dv.pending /\ KeepLocal(dv).cache.pending = dv.pending
           /\ KeepLocal(dv).open = dv.open /\ KeepLocal(dv).logins = dv.logins
BY DEF PageShape, KeepLocal, DeviceFields

LEMMA RemoteApplied ==
    ASSUME NEW dv, PageShape(dv), NEW answer
    PROVE  LET new == ApplyRemote(dv, answer)
           IN  /\ PageShape(new) /\ new.pending = dv.pending /\ new.cache.pending = dv.pending
               /\ new.open = dv.open
<1> DEFINE shown == Overlay(answer.entries, dv.pending)
           revision == IF answer.revision = 0 THEN dv.revision ELSE answer.revision
           mid == [dv EXCEPT !.shown = shown, !.revision = revision]
<1>1. ApplyRemote(dv, answer) = KeepLocal(mid)
  BY DEF ApplyRemote, PageShape, DeviceFields
<1> HIDE DEF shown, revision
<1>2. PageShape(mid) /\ mid.pending = dv.pending /\ mid.open = dv.open
  BY DEF PageShape, DeviceFields
<1> HIDE DEF mid
<1> QED  BY <1>1, <1>2, KeptLocally

LEMMA FlushBegins ==
    ASSUME EditsInv, NEW d \in Devices, NEW dv, PageShape(dv), FlushPending(d, dv)
    PROVE  /\ \E new : /\ device' = [device EXCEPT ![d] = new] /\ PageShape(new)
                       /\ new.pending = dv.pending /\ new.cache = dv.cache /\ new.open = dv.open
           /\ FlowsTold(flow', accepted)
<1>1. CASE dv.hydrated /\ ~dv.promised /\ dv.pending # << >>
  <2> DEFINE new == [dv EXCEPT !.active = Head(dv.pending), !.promised = TRUE]
  <2>1. device' = [device EXCEPT ![d] = new]
    BY <1>1 DEF FlushPending
  <2>2. PageShape(new) /\ new.pending = dv.pending /\ new.cache = dv.cache /\ new.open = dv.open
    BY DEF PageShape, DeviceFields
  <2>3. flow' = [flow EXCEPT ![d][Min(FreeFlows(d))] = Sent(dv, Head(dv.pending), 0)]
    BY <1>1 DEF FlushPending
  <2>4. Told(Sent(dv, Head(dv.pending), 0), accepted)
    BY DEF Told, Sent
  <2>5. FlowsTold(flow', accepted)
    BY <2>3, <2>4, OneFlowMoves DEF EditsInv
  <2> HIDE DEF new
  <2> QED  BY <2>1, <2>2, <2>5
<1>2. CASE ~ (dv.hydrated /\ ~dv.promised /\ dv.pending # << >>)
  <2>1. device' = [device EXCEPT ![d] = dv] /\ flow' = flow
    BY <1>2 DEF FlushPending
  <2> QED  BY <2>1 DEF EditsInv
<1> QED  BY <1>1, <1>2

LEMMA LoginKeepsEdits ==
    ASSUME EditsInv, NEW d \in Devices, Login(d)
    PROVE  EditsInv'
<1> DEFINE dv == device[d]
           made == dv.logins + 1
           pending == [i \in DOMAIN dv.cache.pending |-> [dv.cache.pending[i] EXCEPT !.made = made]]
           new == [Closed EXCEPT !.open = TRUE, !.logins = made, !.cache = dv.cache,
                    !.pending = pending, !.revision = dv.cache.revision,
                    !.shown = Overlay(dv.cache.shown, pending)]
<1>1. /\ device' = [device EXCEPT ![d] = new] /\ fetch' = [fetch EXCEPT ![d] = [at |-> "sent"]]
      /\ UNCHANGED <<flow, accepted, edits, latest>>
  BY DEF Login, server, written
<1>2. PageShape(dv) /\ PageKept(dv, latest[d], accepted)
  BY DEF EditsInv
<1>3. /\ pending \in Seq(Patch) /\ Len(pending) = Len(dv.cache.pending)
      /\ \A i \in 1..Len(pending) : /\ pending[i].key = dv.cache.pending[i].key
                                    /\ pending[i].edit = dv.cache.pending[i].edit
  <2> DEFINE q == dv.cache.pending
  <2>1. q \in Seq(Patch) /\ made \in Nat
    BY <1>2 DEF PageShape
  <2> HIDE DEF q, made
  <2> DEFINE At(i) == [q[i] EXCEPT !.made = made]
  <2>2. \A i \in 1..Len(q) : At(i) \in Patch /\ At(i).key = q[i].key /\ At(i).edit = q[i].edit
    <3> TAKE i \in 1..Len(q)
    <3>1. q[i] \in Patch  BY <2>1
    <3> QED  BY <3>1, <2>1 DEF Patch
  <2>3. pending = [i \in 1..Len(q) |-> At(i)]
    BY <2>1 DEF q, made
  <2> HIDE DEF At, pending
  <2>4. pending \in Seq(Patch) /\ Len(pending) = Len(q)
    <3>1. Len(q) \in Nat  BY <2>1
    <3> QED  BY <2>3, <2>2, <3>1, IsASeq, LenProperties
  <2>5. \A i \in 1..Len(q) : pending[i] = At(i)
    BY <2>3
  <2> QED  BY <2>2, <2>4, <2>5 DEF q
<1>4. PageShape(new) /\ new.pending = pending /\ new.cache = dv.cache /\ new.open
  <2> HIDE DEF pending
  <2>1. made \in Nat  BY <1>2 DEF PageShape
  <2> HIDE DEF made
  <2> QED  BY <1>2, <1>3, <2>1 DEF PageShape, Closed, DeviceFields
<1>5. PageKept(new, latest[d], accepted)
  <2> HIDE DEF pending, new
  <2> SUFFICES ASSUME NEW k \in Keys, KeptIn(dv.cache.pending, k, latest[d][k].edit, accepted)
               PROVE  KeptIn(pending, k, latest[d][k].edit, accepted)
      BY <1>2, <1>4 DEF PageKept
  <2> QED  BY <1>3 DEF KeptIn, Waits
<1>6. /\ latest[d] \in [Keys -> [edit : Nat, value : Nat]] /\ latest' = [latest EXCEPT ![d] = latest[d]]
      /\ FlowsTold(flow', accepted) /\ edits' \in Nat
      /\ DOMAIN fetch' = Devices /\ \A e \in Devices \ {d} : fetch'[e] = fetch[e]
  BY <1>1 DEF EditsInv
<1> HIDE DEF new
<1> QED  BY <1>1, <1>4, <1>5, <1>6, OnePageMoves

\* An edit takes the place of an earlier one of the same key, or waits at the end.
LEMMA Enqueued ==
    ASSUME NEW dv, PageShape(dv), NEW p \in Patch
    PROVE  /\ Enqueue(dv, p) \in Seq(Patch) /\ Waits(Enqueue(dv, p), p.key, p.edit)
           /\ \A k \in Keys \ {p.key}, n \in Nat :
                 Waits(dv.pending, k, n) => Waits(Enqueue(dv, p), k, n)
<1> DEFINE q == dv.pending
           waiting == {i \in 1..Len(q) : q[i] # dv.active /\ q[i].key = p.key}
           m == Min(waiting)
<1>1. Enqueue(dv, p) = IF waiting = {} THEN Append(q, p) ELSE [q EXCEPT ![m] = p]
  <2>1. q \in Seq(Patch)  BY DEF PageShape
  <2>2. DOMAIN q = 1..Len(q)  BY <2>1
  <2> QED  BY <2>2 DEF Enqueue
<1>2. q \in Seq(Patch)
  BY DEF PageShape
<1> HIDE DEF q
<1>3. CASE waiting = {}
  <2> DEFINE new == Append(q, p)
  <2>1. /\ new \in Seq(Patch) /\ Len(new) = Len(q) + 1 /\ new[Len(q) + 1] = p
        /\ \A i \in 1..Len(q) : new[i] = q[i]
    BY <1>2, AppendProperties
  <2>2. \A i \in 1..Len(q) : i \in 1..Len(new)
    BY <1>2, <2>1
  <2>3. Len(q) + 1 \in 1..Len(new)
    BY <1>2, <2>1
  <2> HIDE DEF new
  <2>4. Waits(new, p.key, p.edit)
    BY <2>1, <2>3 DEF Waits
  <2>5. \A k \in Keys, n \in Nat : Waits(q, k, n) => Waits(new, k, n)
    BY <2>1, <2>2 DEF Waits
  <2> QED  BY <1>1, <1>3, <2>1, <2>4, <2>5 DEF new, q
<1>4. CASE waiting # {}
  <2> DEFINE new == [q EXCEPT ![m] = p]
  <2>1. m \in waiting
    <3>1. Len(q) \in Nat /\ waiting \in SUBSET (1..Len(q))  BY <1>2
    <3> HIDE DEF waiting
    <3> QED  BY <3>1, <1>4, LeastPosition
  <2> HIDE DEF m
  <2>2. /\ new \in Seq(Patch) /\ Len(new) = Len(q) /\ new[m] = p /\ m \in 1..Len(q)
        /\ \A i \in 1..Len(q) : i # m => new[i] = q[i]
    BY <1>2, <2>1, ExceptSeq
  <2>3. q[m].key = p.key
    BY <2>1
  <2> HIDE DEF new, waiting
  <2>4. Waits(new, p.key, p.edit)
    BY <2>2 DEF Waits
  <2>5. \A k \in Keys \ {p.key}, n \in Nat : Waits(q, k, n) => Waits(new, k, n)
    BY <2>2, <2>3 DEF Waits
  <2> QED  BY <1>1, <1>4, <2>2, <2>4, <2>5 DEF new, q, m
<1> QED  BY <1>3, <1>4

LEMMA EditKeepsEdits ==
    ASSUME EditsInv, NEW d \in Devices, NEW k \in Keys, NEW value \in Nat, NEW fit \in BOOLEAN,
           Edit(d, k, value, fit)
    PROVE  EditsInv'
<1> DEFINE n == edits + 1
           dv == device[d]
           p == [edit |-> n, key |-> k, value |-> value, fit |-> fit, made |-> dv.logins]
           shown == [dv EXCEPT !.shown[k] = value]
           queued == [shown EXCEPT !.pending = Enqueue(shown, p)]
           last == [latest[d] EXCEPT ![k] = [edit |-> n, value |-> value]]
<1>1. /\ dv.open /\ edits' = n /\ latest' = [latest EXCEPT ![d] = last]
      /\ FlushPending(d, KeepLocal(queued))
      /\ UNCHANGED <<fetch, accepted>>
  <2>1. latest' = [latest EXCEPT ![d][k] = [edit |-> n, value |-> value]]
    BY DEF Edit
  <2>2. latest' = [latest EXCEPT ![d] = last]
    BY <2>1 DEF EditsInv
  <2> HIDE DEF last
  <2> QED  BY <2>2 DEF Edit, server
<1>2. PageShape(dv) /\ PageKept(dv, latest[d], accepted) /\ n \in Nat
  BY DEF EditsInv
<1>3. p \in Patch /\ p.key = k /\ p.edit = n
  BY <1>2 DEF PageShape, Patch
<1>4. PageShape(shown) /\ shown.pending = dv.pending /\ shown.open = dv.open
  BY <1>2 DEF PageShape, DeviceFields
<1> HIDE DEF p, shown
<1>5. /\ Enqueue(shown, p) \in Seq(Patch) /\ Waits(Enqueue(shown, p), k, n)
      /\ \A j \in Keys \ {k}, e \in Nat : Waits(dv.pending, j, e) => Waits(Enqueue(shown, p), j, e)
  BY <1>3, <1>4, Enqueued
<1>6. PageShape(queued) /\ queued.pending = Enqueue(shown, p) /\ queued.open
  BY <1>1, <1>4, <1>5 DEF PageShape, DeviceFields
<1> HIDE DEF queued
<1>7. PageShape(KeepLocal(queued)) /\ KeepLocal(queued).open /\ KeepLocal(queued).cache.pending = Enqueue(shown, p)
      /\ KeepLocal(queued).pending = Enqueue(shown, p)
  BY <1>6, KeptLocally
<1>8. PICK new : /\ device' = [device EXCEPT ![d] = new] /\ PageShape(new)
                 /\ new.pending = Enqueue(shown, p) /\ new.cache.pending = Enqueue(shown, p)
                 /\ new.open
  BY <1>1, <1>7, FlushBegins
<1>9. FlowsTold(flow', accepted)
  BY <1>1, <1>7, FlushBegins
<1>10. last \in [Keys -> [edit : Nat, value : Nat]] /\ last[k].edit = n
       /\ \A j \in Keys \ {k} : last[j] = latest[d][j] /\ latest[d][j].edit \in Nat
  BY <1>2 DEF EditsInv
<1> HIDE DEF last, n
<1>11. PageKept(new, last, accepted)
  <2> SUFFICES ASSUME NEW j \in Keys
               PROVE  KeptIn(Enqueue(shown, p), j, last[j].edit, accepted)
      BY <1>8 DEF PageKept
  <2>1. CASE j = k
    BY <2>1, <1>5, <1>10 DEF KeptIn
  <2>2. CASE j # k
    <3>1. KeptIn(dv.pending, j, last[j].edit, accepted)
      BY <1>1, <1>2, <1>10, <2>2 DEF PageKept
    <3> QED  BY <3>1, <2>2, <1>5, <1>10 DEF KeptIn
  <2> QED  BY <2>1, <2>2
<1>12. DOMAIN fetch' = Devices /\ new.open /\ \A e \in Devices : fetch'[e] = fetch[e]
  BY <1>1, <1>8 DEF EditsInv
<1>13. edits' \in Nat
  BY <1>1, <1>2
<1> QED  BY <1>1, <1>8, <1>9, <1>10, <1>11, <1>12, <1>13, OnePageMoves

\* A page that flushes after a change that removed nothing from its queue.
LEMMA FlushKeepsEdits ==
    ASSUME EditsInv, NEW d \in Devices, NEW dv, PageShape(dv), PageKept(dv, latest[d], accepted),
           FlushPending(d, dv),
           DOMAIN fetch' = Devices, fetch'[d] # None => dv.open,
           \A e \in Devices \ {d} : fetch'[e] = fetch[e],
           accepted' = accepted, edits' = edits, latest' = latest
    PROVE  EditsInv'
<1>1. PICK new : /\ device' = [device EXCEPT ![d] = new] /\ PageShape(new)
                 /\ new.pending = dv.pending /\ new.cache = dv.cache /\ new.open = dv.open
  BY FlushBegins
<1>2. FlowsTold(flow', accepted)
  BY FlushBegins
<1>3. PageKept(new, latest[d], accepted)
  BY <1>1 DEF PageKept
<1>4. /\ latest[d] \in [Keys -> [edit : Nat, value : Nat]] /\ latest' = [latest EXCEPT ![d] = latest[d]]
      /\ edits' \in Nat
  BY DEF EditsInv
<1> QED  BY <1>1, <1>2, <1>3, <1>4, OnePageMoves

\* A page that answers nothing, or only loses what was not its own.
LEMMA PageKeepsEdits ==
    ASSUME EditsInv, NEW d \in Devices, NEW dv, PageShape(dv), PageKept(dv, latest[d], accepted),
           device' = [device EXCEPT ![d] = dv], FlowsTold(flow', accepted),
           DOMAIN fetch' = Devices, fetch'[d] # None => dv.open,
           \A e \in Devices \ {d} : fetch'[e] = fetch[e],
           accepted' = accepted, edits' = edits, latest' = latest
    PROVE  EditsInv'
<1>1. /\ latest[d] \in [Keys -> [edit : Nat, value : Nat]] /\ latest' = [latest EXCEPT ![d] = latest[d]]
      /\ edits' \in Nat
  BY DEF EditsInv
<1> QED  BY <1>1, OnePageMoves

\* What is in an open page's memory waits in local storage once it was kept.
LEMMA LocalCopyKeeps ==
    ASSUME NEW dv, PageShape(dv), NEW new, NEW last, NEW done, PageKept(dv, last, done), dv.open,
           new.cache.pending = dv.pending, new.pending = dv.pending
    PROVE  PageKept(new, last, done)
BY DEF PageKept

LEMMA HydrateKeepsEdits ==
    ASSUME EditsInv, NEW d \in Devices, Hydrate(d) \/ TakeFetch(d) \/ LoseFetch(d) \/ Flush(d)
    PROVE  EditsInv'
<1> DEFINE dv == device[d]
<1>1. PageShape(dv) /\ PageKept(dv, latest[d], accepted) /\ (fetch[d] # None => dv.open)
  BY DEF EditsInv
<1>2. CASE Hydrate(d)
  <2>1. /\ dv.open /\ fetch' = [fetch EXCEPT ![d] = [at |-> "sent"]]
        /\ UNCHANGED <<device, flow, accepted, edits, latest>>
    BY <1>2 DEF Hydrate, server, written
  <2>2. /\ DOMAIN fetch' = Devices /\ \A e \in Devices \ {d} : fetch'[e] = fetch[e]
    BY <2>1 DEF EditsInv
  <2>3. \A e \in Devices : fetch'[e] # None => device[e].open
    BY <2>1, <2>2 DEF EditsInv
  <2> QED  BY <2>1, <2>2, <2>3 DEF EditsInv
<1>3. CASE TakeFetch(d)
  <2> DEFINE mid == ApplyRemote(dv, fetch[d].answer)
             new == [mid EXCEPT !.hydrated = TRUE]
  <2>1. /\ fetch[d] # None /\ fetch' = [fetch EXCEPT ![d] = None]
        /\ FlushPending(d, new) /\ UNCHANGED <<accepted, edits, latest>>
    BY <1>3 DEF TakeFetch, server, written
  <2>2. PageShape(mid) /\ mid.pending = dv.pending /\ mid.cache.pending = dv.pending
    BY <1>1, RemoteApplied
  <2> HIDE DEF mid
  <2>3. PageShape(new) /\ new.pending = dv.pending /\ new.cache.pending = dv.pending
    BY <2>2 DEF PageShape, DeviceFields
  <2> HIDE DEF new
  <2>4. PageKept(new, latest[d], accepted)
    BY <1>1, <2>1, <2>3, LocalCopyKeeps
  <2>5. DOMAIN fetch' = Devices /\ fetch'[d] = None /\ \A e \in Devices \ {d} : fetch'[e] = fetch[e]
    BY <2>1 DEF EditsInv
  <2> QED  BY <2>1, <2>3, <2>4, <2>5, FlushKeepsEdits
<1>4. CASE LoseFetch(d)
  <2> DEFINE mid == [dv EXCEPT !.hydrated = TRUE]
             new == KeepLocal(mid)
  <2>1. /\ fetch[d] # None /\ fetch' = [fetch EXCEPT ![d] = None]
        /\ device' = [device EXCEPT ![d] = new] /\ UNCHANGED <<flow, accepted, edits, latest>>
    BY <1>4 DEF LoseFetch, server, written, EditsInv
  <2>2. PageShape(mid) /\ mid.pending = dv.pending
    BY <1>1 DEF PageShape, DeviceFields
  <2> HIDE DEF mid
  <2>3. PageShape(new) /\ new.pending = dv.pending /\ new.cache.pending = dv.pending
    BY <2>2, KeptLocally
  <2> HIDE DEF new
  <2>4. PageKept(new, latest[d], accepted)
    BY <1>1, <2>1, <2>3, LocalCopyKeeps
  <2>5. DOMAIN fetch' = Devices /\ fetch'[d] = None /\ \A e \in Devices \ {d} : fetch'[e] = fetch[e]
    BY <2>1 DEF EditsInv
  <2>6. FlowsTold(flow', accepted)
    BY <2>1 DEF EditsInv
  <2> QED  BY <2>1, <2>3, <2>4, <2>5, <2>6, PageKeepsEdits
<1>5. CASE Flush(d)
  <2>1. /\ dv.open /\ FlushPending(d, KeepLocal(dv)) /\ UNCHANGED <<fetch, accepted, edits, latest>>
    BY <1>5 DEF Flush, server, written
  <2>2. /\ PageShape(KeepLocal(dv)) /\ KeepLocal(dv).pending = dv.pending
        /\ KeepLocal(dv).cache.pending = dv.pending /\ KeepLocal(dv).open
    BY <1>1, <2>1, KeptLocally
  <2>3. PageKept(KeepLocal(dv), latest[d], accepted)
    BY <1>1, <2>1, <2>2, LocalCopyKeeps
  <2>4. DOMAIN fetch' = Devices /\ \A e \in Devices \ {d} : fetch'[e] = fetch[e]
    BY <2>1 DEF EditsInv
  <2> QED  BY <2>1, <2>2, <2>3, <2>4, FlushKeepsEdits
<1> QED  BY <1>2, <1>3, <1>4, <1>5

\* A page that is left, or whose learner logs out, has kept its queue.
LEMMA LeavingKeepsEdits ==
    ASSUME EditsInv, NEW d \in Devices, Logout(d) \/ Leave(d)
    PROVE  EditsInv'
<1> DEFINE dv == device[d]
           new == [Closed EXCEPT !.cache = dv.cache, !.logins = dv.logins]
<1>1. PageShape(dv) /\ PageKept(dv, latest[d], accepted)
  BY DEF EditsInv
<1>2. PageShape(new) /\ new.cache = dv.cache /\ ~new.open
  <2>1. << >> \in Seq(Patch)  OBVIOUS
  <2> QED  BY <1>1, <2>1 DEF PageShape, Closed, DeviceFields
<1>3. device' = [device EXCEPT ![d] = new] /\ UNCHANGED <<accepted, edits, latest>>
  BY DEF Logout, Leave, server, written
<1>4. DOMAIN fetch' = Devices /\ fetch'[d] = None /\ \A e \in Devices \ {d} : fetch'[e] = fetch[e]
  BY DEF Logout, Leave, EditsInv
<1>5. FlowsTold(flow', accepted)
  <2>1. CASE Logout(d)
    BY <2>1 DEF Logout, EditsInv
  <2>2. CASE Leave(d)
    <3> DEFINE Left(i) == IF Requested(flow[d][i]) THEN [flow[d][i] EXCEPT !.at = "orphaned"] ELSE NoFlow
    <3>1. flow' = [flow EXCEPT ![d] = [i \in 1..MaxFlows |-> Left(i)]]
      BY <2>2 DEF Leave
    <3>2. \A i \in 1..MaxFlows : Told(Left(i), accepted)
      <4> TAKE i \in 1..MaxFlows
      <4>1. "at" \in DOMAIN flow[d][i]
        BY DEF EditsInv, FlowsTold, Told
      <4>2. CASE Requested(flow[d][i])
        BY <4>1, <4>2 DEF Told
      <4>3. CASE ~Requested(flow[d][i])
        BY <4>3 DEF Told, NoFlow
      <4> QED  BY <4>2, <4>3
    <3> HIDE DEF Left
    <3> QED  BY <3>1, <3>2 DEF EditsInv, FlowsTold
  <2> QED  BY <2>1, <2>2
<1> HIDE DEF new
<1>6. PageKept(new, latest[d], accepted)
  BY <1>1, <1>2 DEF PageKept
<1> QED  BY <1>2, <1>3, <1>4, <1>5, <1>6, PageKeepsEdits

\* A flush goes on: what it takes out of the queue was accepted.
LEMMA ResendKeepsEdits ==
    ASSUME EditsInv, NEW d \in Devices, NEW i, NEW dv, PageShape(dv),
           PageKept(dv, latest[d], accepted), NEW p, NEW tries, Resend(d, i, dv, p, tries),
           fetch[d] # None => dv.open, UNCHANGED <<fetch, accepted, edits, latest>>
    PROVE  EditsInv'
<1> DEFINE new == [dv EXCEPT !.active = IF tries = 0 THEN p ELSE @]
<1>1. device' = [device EXCEPT ![d] = new] /\ flow' = [flow EXCEPT ![d][i] = Sent(dv, p, tries)]
  BY DEF Resend
<1>2. PageShape(new) /\ new.pending = dv.pending /\ new.cache = dv.cache /\ new.open = dv.open
  BY DEF PageShape, DeviceFields
<1> HIDE DEF new
<1>3. PageKept(new, latest[d], accepted)
  BY <1>2 DEF PageKept
<1>4. Told(Sent(dv, p, tries), accepted)
  BY DEF Told, Sent
<1>5. FlowsTold(flow', accepted)
  BY <1>1, <1>4, OneFlowMoves DEF EditsInv
<1>6. DOMAIN fetch' = Devices /\ \A e \in Devices \ {d} : fetch'[e] = fetch[e]
  BY DEF EditsInv
<1> QED  BY <1>1, <1>2, <1>3, <1>5, <1>6, PageKeepsEdits

LEMMA EndFlowKeepsEdits ==
    ASSUME EditsInv, NEW d \in Devices, NEW i, NEW dv, PageShape(dv),
           PageKept(dv, latest[d], accepted), EndFlow(d, i, dv),
           fetch[d] # None => dv.open, UNCHANGED <<fetch, accepted, edits, latest>>
    PROVE  EditsInv'
<1> DEFINE ended == [dv EXCEPT !.active = None, !.promised = FALSE]
           new == IF dv.open THEN KeepLocal(ended) ELSE ended
<1>1. device' = [device EXCEPT ![d] = new] /\ flow' = [flow EXCEPT ![d][i] = NoFlow]
  BY DEF EndFlow
<1>2. PageShape(ended) /\ ended.pending = dv.pending /\ ended.cache = dv.cache /\ ended.open = dv.open
  BY DEF PageShape, DeviceFields
<1> HIDE DEF ended
<1>3. PageShape(new) /\ new.open = dv.open /\ PageKept(new, latest[d], accepted)
  <2>1. CASE dv.open
    <3>1. PageShape(new) /\ new.open = dv.open /\ new.pending = dv.pending /\ new.cache.pending = dv.pending
      BY <2>1, <1>2, KeptLocally
    <3> HIDE DEF new
    <3> QED  BY <2>1, <3>1, LocalCopyKeeps
  <2>2. CASE ~dv.open
    BY <2>2, <1>2 DEF PageKept
  <2> QED  BY <2>1, <2>2
<1>4. FlowsTold(flow', accepted)
  <2>1. Told(NoFlow, accepted)  BY DEF Told, NoFlow
  <2> QED  BY <2>1, <1>1, OneFlowMoves DEF EditsInv
<1>5. DOMAIN fetch' = Devices /\ \A e \in Devices \ {d} : fetch'[e] = fetch[e]
  BY DEF EditsInv
<1> HIDE DEF new
<1> QED  BY <1>1, <1>3, <1>4, <1>5, PageKeepsEdits

LEMMA TakeFlowKeepsEdits ==
    ASSUME EditsInv, NEW d \in Devices, NEW i \in 1..MaxFlows, TakeFlow(d, i)
    PROVE  EditsInv'
<1> DEFINE f == flow[d][i]
           dv == device[d]
           less == [dv EXCEPT !.pending = RemovePending(@, f.patch), !.active = None]
           sent == ApplyRemote(less, f.answer)
           again == ApplyRemote(dv, f.answer)
<1>1. PageShape(dv) /\ PageKept(dv, latest[d], accepted) /\ (fetch[d] # None => dv.open)
  BY DEF EditsInv
<1>2. f.at = "answered" /\ UNCHANGED <<fetch, accepted, edits, latest>>
  BY DEF TakeFlow, server, written
<1>3. f.answer.kind = "ok" => f.patch.edit \in accepted
  BY <1>2 DEF EditsInv, FlowsTold, Told
<1>4. CASE dv.open /\ f.answer.kind = "ok"
  <2> DEFINE q == RemovePending(dv.pending, f.patch)
  <2>1. dv.pending \in Seq(Patch)
    BY <1>1 DEF PageShape
  <2>2. /\ q \in Seq(Patch)
        /\ \A j \in 1..Len(dv.pending) : dv.pending[j] # f.patch =>
              \E h \in 1..Len(q) : q[h] = dv.pending[j]
    BY <2>1, OthersStayPending
  <2> HIDE DEF q
  <2>3. PageShape(less) /\ less.pending = q /\ less.open
    BY <1>1, <1>4, <2>2 DEF PageShape, DeviceFields, q
  <2> HIDE DEF less
  <2>4. PageShape(sent) /\ sent.pending = q /\ sent.cache.pending = q /\ sent.open
    BY <2>3, RemoteApplied
  <2> HIDE DEF sent
  <2>5. PageKept(sent, latest[d], accepted)
    <3> SUFFICES ASSUME NEW k \in Keys PROVE KeptIn(q, k, latest[d][k].edit, accepted)
        BY <2>4 DEF PageKept
    <3>1. KeptIn(dv.pending, k, latest[d][k].edit, accepted)
      BY <1>1, <1>4 DEF PageKept
    <3>2. ASSUME NEW j \in 1..Len(dv.pending), dv.pending[j].key = k,
                 dv.pending[j].edit = latest[d][k].edit
          PROVE  KeptIn(q, k, latest[d][k].edit, accepted)
      <4>1. CASE dv.pending[j] = f.patch
        BY <4>1, <3>2, <1>3, <1>4 DEF KeptIn
      <4>2. CASE dv.pending[j] # f.patch
        <5>1. PICK h \in 1..Len(q) : q[h] = dv.pending[j]
          BY <4>2, <2>2
        <5> QED  BY <5>1, <3>2 DEF KeptIn, Waits
      <4> QED  BY <4>1, <4>2
    <3> QED  BY <3>1, <3>2 DEF KeptIn, Waits
  <2>6. IF sent.pending = << >> THEN EndFlow(d, i, sent)
        ELSE Resend(d, i, sent, Head(sent.pending), 0)
    BY <1>4 DEF TakeFlow, sent, less
  <2> QED  BY <1>2, <2>4, <2>5, <2>6, ResendKeepsEdits, EndFlowKeepsEdits
<1>5. CASE dv.open /\ f.answer.kind = "conflict" /\ f.tries < MaxConflictRetries
  <2>1. /\ PageShape(again) /\ again.pending = dv.pending /\ again.cache.pending = dv.pending
        /\ again.open
    BY <1>1, <1>5, RemoteApplied
  <2>2. Resend(d, i, again, f.patch, f.tries + 1)
    BY <1>5 DEF TakeFlow
  <2> HIDE DEF again
  <2>3. PageKept(again, latest[d], accepted)
    BY <1>1, <1>5, <2>1, LocalCopyKeeps
  <2> QED  BY <1>2, <2>1, <2>2, <2>3, ResendKeepsEdits
<1>6. CASE /\ ~ (dv.open /\ f.answer.kind = "ok")
           /\ ~ (dv.open /\ f.answer.kind = "conflict" /\ f.tries < MaxConflictRetries)
  <2>1. EndFlow(d, i, dv)
    BY <1>6 DEF TakeFlow
  <2> QED  BY <1>1, <1>2, <2>1, EndFlowKeepsEdits
<1> QED  BY <1>4, <1>5, <1>6

\* A reply is about the patch that was sent.
LEMMA ReplyIsTold ==
    ASSUME EditsInv, NEW d \in Devices, NEW i \in 1..MaxFlows, NEW answer, Reply(d, i, answer),
           NEW done, accepted \subseteq done,
           answer.kind = "ok" => flow[d][i].patch.edit \in done
    PROVE  FlowsTold(flow', done)
<1> DEFINE f == [at |-> "answered", patch |-> flow[d][i].patch, tries |-> flow[d][i].tries,
                 answer |-> answer]
           new == IF flow[d][i].at = "orphaned" THEN NoFlow ELSE f
<1>1. flow' = [flow EXCEPT ![d][i] = new]
  BY DEF Reply
<1>2. Told(new, done)
  BY DEF Told, NoFlow
<1> HIDE DEF new
<1> QED  BY <1>1, <1>2, OneFlowMoves DEF EditsInv

LEMMA LoseFlowKeepsEdits ==
    ASSUME EditsInv, NEW d \in Devices, NEW i \in 1..MaxFlows, LoseFlow(d, i)
    PROVE  EditsInv'
<1>1. Reply(d, i, Failure) /\ UNCHANGED <<device, fetch, accepted, written>>
  BY DEF LoseFlow, server
<1>2. FlowsTold(flow', accepted)
  BY <1>1, ReplyIsTold DEF Failure
<1> QED  BY <1>1, <1>2, ServerMoves DEF EditsInv

LEMMA ServeFlowKeepsEdits ==
    ASSUME EditsInv, NEW d \in Devices, NEW i \in 1..MaxFlows, NEW r \in Replicas, ServeFlow(d, i, r)
    PROVE  EditsInv'
<1> DEFINE p == flow[d][i].patch
           s == Session(r)
           fresh == flow[d][i].base = s.revision
<1>1. UNCHANGED <<device, fetch, written>>
  BY DEF ServeFlow
<1>2. accepted \subseteq accepted' /\ FlowsTold(flow', accepted')
  <2>1. CASE ~fresh /\ Reply(d, i, Answer("conflict", s)) /\ accepted' = accepted
    BY <2>1, ReplyIsTold DEF Answer
  <2>2. CASE Reply(d, i, Failure) /\ accepted' = accepted
    BY <2>2, ReplyIsTold DEF Failure
  <2>3. CASE Reply(d, i, Answer("ok", s)) /\ accepted' = accepted \cup {p.edit}
    BY <2>3, ReplyIsTold
  <2>4. ASSUME NEW result, Persist(d, i, r, s, p, result)
        PROVE  accepted \subseteq accepted' /\ FlowsTold(flow', accepted')
    <3>1. CASE result = "none"
      <4>1. Reply(d, i, Failure) /\ accepted' = accepted
        BY <2>4, <3>1 DEF Persist
      <4> QED  BY <4>1, ReplyIsTold DEF Failure
    <3>2. CASE result # "none"
      <4>1. Reply(d, i, Answer("ok", Patched(s, p))) /\ accepted' = accepted \cup {p.edit}
        BY <2>4, <3>2 DEF Persist
      <4> QED  BY <4>1, ReplyIsTold
    <3> QED  BY <3>1, <3>2
  <2> QED  BY <2>1, <2>2, <2>3, <2>4 DEF ServeFlow
<1> QED  BY <1>1, <1>2, ServerMoves DEF EditsInv

LEMMA ServerKeepsEdits ==
    ASSUME EditsInv, NEW r \in Replicas, ServerStep(r)
    PROVE  EditsInv'
<1>1. ASSUME NEW d \in Devices, ServeFetch(d, r) PROVE EditsInv'
  <2>1. /\ fetch[d] # None /\ UNCHANGED <<device, flow, written, accepted>>
        /\ fetch' = [fetch EXCEPT ![d] = [at |-> "answered", answer |-> Answer("ok", Session(r))]]
    BY <1>1 DEF ServeFetch
  <2>2. DOMAIN fetch' = Devices /\ \A e \in Devices : fetch'[e] # None => fetch[e] # None
    BY <2>1 DEF EditsInv
  <2>3. FlowsTold(flow', accepted')
    BY <2>1 DEF EditsInv
  <2> QED  BY <2>1, <2>2, <2>3, ServerMoves
<1>2. ASSUME NEW d \in Devices, NEW i \in 1..MaxFlows, ServeFlow(d, i, r) PROVE EditsInv'
  BY <1>2, ServeFlowKeepsEdits
<1>3. CASE RecordEvent(r, left.events)
  <2>1. UNCHANGED <<device, flow, fetch, written, accepted>>
    BY <1>3 DEF RecordEvent, pages
  <2> QED  BY <2>1, ServerMoves DEF EditsInv
<1> QED  BY <1>1, <1>2, <1>3 DEF ServerStep

LEMMA DeviceKeepsEdits ==
    ASSUME EditsInv, NEW d \in Devices, DeviceStep(d)
    PROVE  EditsInv'
<1>1. ASSUME NEW k \in Keys, Write(d, k) \/ Delete(d, k) PROVE EditsInv'
  <2>1. edits + 1 \in Nat /\ Absent \in Nat
    BY DEF EditsInv, Absent
  <2>2. \E value \in Nat, fit \in BOOLEAN : Edit(d, k, value, fit)
    BY <1>1, <2>1 DEF Write, Delete
  <2> QED  BY <2>2, EditKeepsEdits
<1>2. ASSUME NEW i \in 1..MaxFlows, LoseFlow(d, i) \/ TakeFlow(d, i) PROVE EditsInv'
  BY <1>2, LoseFlowKeepsEdits, TakeFlowKeepsEdits
<1>3. CASE Login(d)  BY <1>3, LoginKeepsEdits
<1>4. CASE Hydrate(d) \/ TakeFetch(d) \/ LoseFetch(d) \/ Flush(d)  BY <1>4, HydrateKeepsEdits
<1>5. CASE Logout(d) \/ Leave(d)  BY <1>5, LeavingKeepsEdits
<1> QED  BY <1>1, <1>2, <1>3, <1>4, <1>5 DEF DeviceStep

\* The tutor's steps leave the pages' edits alone.
LEMMA TutorLeavesEdits ==
    ASSUME TutorNext
    PROVE  UNCHANGED <<device, flow, fetch, written, accepted>>
<1>1. CASE Ask \/ Drop \/ GiveUp
  BY <1>1 DEF Ask, Drop, GiveUp, assetVars, server, written
<1>2. ASSUME NEW r \in Replicas, Refuse(r) \/ Replay(r) \/ Generate(r) \/ Evict(r)
      PROVE  UNCHANGED <<device, flow, fetch, written, accepted>>
  BY <1>2 DEF Refuse, Replay, Generate, Evict, assetVars, server, written
<1>3. ASSUME NEW i \in Attempts, Show(i) \/ Send(i) \/ End(i) \/ Cancel(i)
      PROVE  UNCHANGED <<device, flow, fetch, written, accepted>>
  BY <1>3 DEF Show, Send, End, Cancel, assetVars, server, written
<1>4. ASSUME NEW keep \in BOOLEAN, NEW result \in SaveResults, NEW r \in Replicas,
             AnswerPlainly(r, keep, result)
      PROVE  UNCHANGED <<device, flow, fetch, written, accepted>>
  BY <1>4 DEF AnswerPlainly, assetVars, server, written
<1>5. ASSUME NEW keep \in BOOLEAN, NEW result \in SaveResults, NEW i \in Attempts,
             NEW replaced \in BOOLEAN, Finish(i, replaced, keep, result)
      PROVE  UNCHANGED <<device, flow, fetch, written, accepted>>
  BY <1>5 DEF Finish, assetVars, server, written
<1> QED  BY <1>1, <1>2, <1>3, <1>4, <1>5 DEF TutorNext

LEMMA EditsStep == EditsInv /\ [Next]_vars => EditsInv'
<1> SUFFICES ASSUME EditsInv, [Next]_vars PROVE EditsInv'
    OBVIOUS
<1>1. ASSUME NEW d \in Devices, DeviceStep(d) PROVE EditsInv'
  BY <1>1, DeviceKeepsEdits
<1>2. ASSUME NEW r \in Replicas, ServerStep(r) PROVE EditsInv'
  BY <1>2, ServerKeepsEdits
<1>3. ASSUME NEW p \in Processes, Restart(p) \/ ThreadStep(p) PROVE EditsInv'
  <2>1. UNCHANGED pages
    BY <1>3 DEF Restart, ThreadStep, TakeUp, Install, Dump, LoadFails, SaveDump
  <2> QED  BY <2>1, ServerMoves DEF pages, EditsInv
<1>4. CASE TutorNext
  BY <1>4, TutorLeavesEdits, ServerMoves DEF EditsInv
<1>5. CASE UNCHANGED vars
  BY <1>5 DEF vars, assetVars, EditsInv
<1> QED  BY <1>1, <1>2, <1>3, <1>4, <1>5 DEF Next, Processes

\* The last edit a device made of a key waits in its local storage until a
\* server has accepted it, for any number of devices, keys and API processes
\* and whatever saving comes to.
THEOREM EditsWaitOrAreAccepted == Spec => []LastEditsWaitOrAreAccepted
<1>1. EditsInv => LastEditsWaitOrAreAccepted
  <2> SUFFICES ASSUME EditsInv, NEW d \in Devices, NEW k \in Keys
               PROVE  LET n == latest[d][k].edit IN
                      \/ n = 0 \/ n \in accepted
                      \/ \E i \in DOMAIN device[d].cache.pending : device[d].cache.pending[i].edit = n
      BY DEF LastEditsWaitOrAreAccepted
  <2>1. KeptIn(device[d].cache.pending, k, latest[d][k].edit, accepted)
    BY DEF EditsInv, PageKept
  <2>2. DOMAIN device[d].cache.pending = 1..Len(device[d].cache.pending)
    BY DEF EditsInv, PageShape
  <2> QED  BY <2>1, <2>2 DEF KeptIn, Waits
<1> QED  BY <1>1, EditsInit, EditsStep, PTL DEF Spec

(***************************************************************************)
(* The answer of the tutor.                                                *)
(***************************************************************************)
Piece == Attempts \X (0..Parts)
EventSet == [id : Nat, kind : {"token", "reset", "done", "error"}, text : Seq(Piece)]
PageSet == [status : {"idle", "waiting", "reading", "complete", "error"}, fit : BOOLEAN,
            text : Seq(Piece), cursor : Nat, tries : 0..Tries, on : 0..Tries]
WorkSet == [at : {"none", "asking", "sending", "over"}, on : Replicas \cup {None}, seq : Nat,
            shown : 0..Parts, todo : Seq(EventSet), final : Seq(Piece) \cup {None}, saved : BOOLEAN]
CopySet == [epoch : Attempts, events : Seq(EventSet), complete : BOOLEAN]

\* What was shown of the answer of the i-th generation after n parts.
Prefix(i, n) == [j \in 1..n |-> <<i, j>>]

\* The first n events of evs lead a page with this text to the text goal, when
\* the last reset among them is the m-th (0 without one).
Kept(text, m) == IF m = 0 THEN text ELSE << >>
LeadsFrom(m, text, evs, n, goal) ==
    /\ \A j \in 1..m : evs[j].kind \in {"token", "reset"}
    /\ m > 0 => evs[m].kind = "reset"
    /\ Len(goal) = Len(Kept(text, m)) + n - m
    /\ \A j \in (m + 1)..n :
          evs[j].kind = "token" /\ evs[j].text = <<goal[Len(Kept(text, m)) + j - m]>>
    /\ \A j \in 1..Len(Kept(text, m)) : Kept(text, m)[j] = goal[j]
Leads(text, evs, n, goal) == \E m \in 0..n : LeadsFrom(m, text, evs, n, goal)
\* ... and the event after these says that the answer is complete.
Finishes(text, evs, goal) ==
    evs # << >> /\ evs[Len(evs)].kind = "done" /\ Leads(text, evs, Len(evs) - 1, goal)

\* The events of a copy that a page with this cursor has not seen, when the last
\* one has the id seq.
Unread(evs, seq, cursor) == SubSeq(evs, Len(evs) - (seq - cursor) + 1, Len(evs))

Open == page.status \in {"waiting", "reading"}
\* A copy that can still be replayed, or get to be.
Live(c) == c.complete \/ work[c.epoch].at = "asking"

TutorType ==
    /\ page \in PageSet /\ work \in [Attempts -> WorkSet] /\ DOMAIN copy = Replicas
    /\ \A r \in Replicas : copy[r] # None => copy[r] \in CopySet

\* One handler at most is at work, for the last request; requests not made have none.
HandlersInv ==
    /\ \A i \in Attempts : Runs(i) => work[i].on \in Replicas /\ i <= page.tries
    /\ \A i, j \in Attempts : Runs(i) /\ Runs(j) => i = j
    /\ page.on # 0 => page.status = "reading" /\ Runs(page.on)
    /\ page.status = "reading" => page.on # 0
    /\ page.status = "waiting" => page.tries < Tries
    /\ \A r \in Replicas : copy[r] # None => copy[r].epoch <= page.tries
    /\ page.status = "idle" => /\ page.text = << >> /\ page.cursor = 0 /\ page.tries = 0
                               /\ \A i \in Attempts : work[i] = NoWork
                               /\ \A r \in Replicas : copy[r] = None
    /\ Open /\ page.fit /\ page.cursor = 0 => page.text = << >>

\* A question that does not fit is never answered.
UnfitInv ==
    ~page.fit =>
        /\ page.status # "complete"
        /\ \A i \in Attempts : /\ work[i].at # "asking"
                               /\ \A j \in 1..Len(work[i].todo) : work[i].todo[j].kind # "done"
        /\ \A r \in Replicas : copy[r] # None =>
              \A j \in 1..Len(copy[r].events) : copy[r].events[j].kind # "done"

\* What is on its way to the page leads it to what was shown, or finishes it
\* with the answer of a generation that is over.
ReadingInv ==
    Open /\ page.fit /\ page.on # 0 =>
        LET w == work[page.on] IN
        /\ \A j \in 1..Len(w.todo) : w.todo[j].id = page.cursor + j
        /\ w.at = "asking" => /\ page.cursor + Len(w.todo) = w.seq
                              /\ Leads(page.text, w.todo, Len(w.todo), Prefix(page.on, w.shown))
        /\ w.at = "sending" => \E g \in Attempts : /\ work[g].at # "asking"
                                                   /\ work[g].final \in Seq(Piece)
                                                   /\ Finishes(page.text, w.todo, work[g].final)

\* So does what the copy has and the page has not seen; a page that reads is
\* sent just that.
CopyInv ==
    Open /\ page.fit =>
        \A r \in Replicas : copy[r] # None /\ Live(copy[r]) =>
            LET c == copy[r]
                w == work[c.epoch]
                rest == Unread(c.events, w.seq, page.cursor)
            IN  /\ \A j \in 1..Len(c.events) : c.events[j].id = w.seq - Len(c.events) + j
                /\ page.cursor \in (w.seq - Len(c.events))..w.seq
                /\ w.at = "asking" => /\ ~c.complete /\ w.on = r
                                      /\ Len(c.events) <= w.shown + 1
                                      /\ Leads(page.text, rest, Len(rest), Prefix(c.epoch, w.shown))
                /\ c.complete => w.final \in Seq(Piece) /\ Finishes(page.text, rest, w.final)
                /\ page.on # 0 => work[page.on].todo = rest

CompleteInv ==
    page.status = "complete" => \E g \in Attempts : work[g].at # "asking" /\ work[g].final = page.text

AnswerInv == TutorType /\ HandlersInv /\ UnfitInv /\ ReadingInv /\ CopyInv /\ CompleteInv

\* No request of the page has reached another process than r, which has the
\* only copy.
Alone(r) ==
    /\ \A i \in Attempts : work[i].on \in {None, r}
    /\ \A q \in Replicas : q # r => copy[q] = None

LEMMA LeadsNowhere ==
    ASSUME NEW text \in Seq(Piece), NEW evs, NEW goal \in Seq(Piece)
    PROVE  Leads(text, evs, 0, goal) <=> text = goal
<1>1. ASSUME Leads(text, evs, 0, goal) PROVE text = goal
  <2>1. LeadsFrom(0, text, evs, 0, goal)
    BY <1>1 DEF Leads
  <2>2. Len(goal) = Len(text) /\ \A j \in 1..Len(text) : text[j] = goal[j]
    BY <2>1 DEF LeadsFrom, Kept
  <2> QED  BY <2>2, SeqEqual
<1>2. ASSUME text = goal PROVE Leads(text, evs, 0, goal)
  <2>1. LeadsFrom(0, text, evs, 0, goal)
    BY <1>2 DEF LeadsFrom, Kept
  <2> QED  BY <2>1 DEF Leads
<1> QED  BY <1>1, <1>2

\* Further parts lead further on.
LEMMA LeadsFurther ==
    ASSUME NEW text \in Seq(Piece), NEW evs, NEW n \in Nat, NEW goal \in Seq(Piece),
           Leads(text, evs, n, goal),
           NEW evs2, NEW k \in Nat, NEW goal2 \in Seq(Piece), Len(goal2) = Len(goal) + k,
           \A j \in 1..n : evs2[j] = evs[j],
           \A j \in 1..k : evs2[n + j].kind = "token" /\ evs2[n + j].text = <<goal2[Len(goal) + j]>>,
           \A j \in 1..Len(goal) : goal2[j] = goal[j]
    PROVE  Leads(text, evs2, n + k, goal2)
<1>1. PICK m \in 0..n : LeadsFrom(m, text, evs, n, goal)
  BY DEF Leads
<1> DEFINE kept == Kept(text, m)
           h == Len(kept)
<1>2. m \in Nat /\ n \in Nat /\ m <= n /\ h \in Nat /\ Len(goal) \in Nat
  BY DEF Kept
<1>3. /\ \A j \in 1..m : evs[j].kind \in {"token", "reset"}
      /\ m > 0 => evs[m].kind = "reset"
  BY <1>1 DEF LeadsFrom
<1>4. Len(goal) = h + n - m
  BY <1>1 DEF LeadsFrom
<1>5. \A j \in (m + 1)..n : evs[j].kind = "token" /\ evs[j].text = <<goal[h + j - m]>>
  BY <1>1 DEF LeadsFrom
<1>6. \A j \in 1..h : kept[j] = goal[j]
  BY <1>1 DEF LeadsFrom
<1> HIDE DEF kept, h
<1>7. m \in 0..(n + k) /\ (\A j \in 1..m : evs2[j].kind \in {"token", "reset"})
      /\ (m > 0 => evs2[m].kind = "reset")
  <2>1. m \in 0..(n + k)  BY <1>2
  <2>2. \A j \in 1..m : evs2[j].kind \in {"token", "reset"}
    <3> TAKE j \in 1..m
    <3>1. j \in 1..n  BY <1>2
    <3> QED  BY <3>1, <1>3
  <2>3. m > 0 => evs2[m].kind = "reset"
    <3> HAVE m > 0
    <3>1. m \in 1..n  BY <1>2
    <3> QED  BY <3>1, <1>3
  <2> QED  BY <2>1, <2>2, <2>3
<1>8. Len(goal2) = h + (n + k) - m /\ h <= Len(goal)
  BY <1>2, <1>4
<1>9. \A j \in 1..h : kept[j] = goal2[j]
  BY <1>2, <1>6, <1>8
<1>10. ASSUME NEW j \in (m + 1)..(n + k)
       PROVE  evs2[j].kind = "token" /\ evs2[j].text = <<goal2[h + j - m]>>
  <2>1. CASE j <= n
    <3>1. h + j - m \in 1..Len(goal) /\ j \in 1..n /\ j \in (m + 1)..n
      BY <1>2, <1>4, <2>1
    <3>2. evs[j].kind = "token" /\ evs[j].text = <<goal[h + j - m]>> /\ evs2[j] = evs[j]
      BY <1>5, <3>1
    <3> QED  BY <3>1, <3>2
  <2>2. CASE j > n
    <3> DEFINE i == j - n
    <3>1. i \in 1..k /\ n + i = j /\ Len(goal) + i = h + j - m
      BY <1>2, <1>4, <2>2
    <3> HIDE DEF i
    <3>2. evs2[n + i].kind = "token" /\ evs2[n + i].text = <<goal2[Len(goal) + i]>>
      BY <3>1
    <3> QED  BY <3>1, <3>2
  <2> QED  BY <2>1, <2>2, <1>2
<1>11. LeadsFrom(m, text, evs2, n + k, goal2)
  BY <1>7, <1>8, <1>9, <1>10 DEF LeadsFrom, kept, h
<1> QED  BY <1>7, <1>11 DEF Leads

\* A reset leads back to an empty text.
LEMMA LeadsBack ==
    ASSUME NEW text, NEW evs, NEW n \in Nat, NEW goal, Leads(text, evs, n, goal),
           NEW evs2, \A j \in 1..n : evs2[j] = evs[j], evs2[n + 1].kind = "reset"
    PROVE  Leads(text, evs2, n + 1, << >>)
<1>1. PICK m \in 0..n : LeadsFrom(m, text, evs, n, goal)
  BY DEF Leads
<1>2. \A j \in 1..n : evs[j].kind \in {"token", "reset"}
  <2> TAKE j \in 1..n
  <2>1. CASE j \in 1..m  BY <2>1, <1>1 DEF LeadsFrom
  <2>2. CASE j \in (m + 1)..n  BY <2>2, <1>1 DEF LeadsFrom
  <2>3. j \in 1..m \/ j \in (m + 1)..n  OBVIOUS
  <2> QED  BY <2>1, <2>2, <2>3
<1>3. \A j \in 1..(n + 1) : evs2[j].kind \in {"token", "reset"}
  BY <1>2
<1>4. Kept(text, n + 1) = << >>
  BY DEF Kept
<1>5. LeadsFrom(n + 1, text, evs2, n + 1, << >>)
  <2>1. Len(<< >>) = 0 /\ 0 = 0 + (n + 1) - (n + 1)  OBVIOUS
  <2>2. \A j \in ((n + 1) + 1)..(n + 1) : FALSE  OBVIOUS
  <2>3. \A j \in 1..0 : FALSE  OBVIOUS
  <2> QED  BY <1>3, <1>4, <2>1, <2>2, <2>3 DEF LeadsFrom
<1>6. n + 1 \in 0..(n + 1)
  OBVIOUS
<1> QED  BY <1>5, <1>6 DEF Leads

\* What a page does with the first of the events.
After(text, e) == IF e.kind = "token" THEN text \o e.text ELSE << >>

LEMMA LeadsOn ==
    ASSUME NEW text \in Seq(Piece), NEW evs \in Seq(EventSet), NEW n \in 1..Len(evs),
           NEW goal \in Seq(Piece), Leads(text, evs, n, goal)
    PROVE  /\ evs[1].kind \in {"token", "reset"} /\ After(text, evs[1]) \in Seq(Piece)
           /\ Leads(After(text, evs[1]), Tail(evs), n - 1, goal)
<1> DEFINE rest == Tail(evs)
           new == After(text, evs[1])
<1>1. PICK m \in 0..n : LeadsFrom(m, text, evs, n, goal)
  BY DEF Leads
<1> DEFINE kept == Kept(text, m)
           h == Len(kept)
<1>2. m \in Nat /\ n \in Nat /\ m <= n /\ n >= 1 /\ evs # << >> /\ Len(goal) \in Nat
  OBVIOUS
<1>3. /\ \A j \in 1..m : evs[j].kind \in {"token", "reset"}
      /\ m > 0 => evs[m].kind = "reset"
  BY <1>1 DEF LeadsFrom
<1>4. Len(goal) = h + n - m
  BY <1>1 DEF LeadsFrom
<1>5. \A j \in (m + 1)..n : evs[j].kind = "token" /\ evs[j].text = <<goal[h + j - m]>>
  BY <1>1 DEF LeadsFrom
<1>6. \A j \in 1..h : kept[j] = goal[j]
  BY <1>1 DEF LeadsFrom
<1> HIDE DEF kept, h
<1>7. evs[1].kind \in {"token", "reset"} /\ evs[1] \in EventSet
  <2>1. CASE m = 0  BY <2>1, <1>2, <1>5
  <2>2. CASE m > 0  BY <2>2, <1>2, <1>3
  <2> QED  BY <2>1, <2>2, <1>2
<1>8. rest \in Seq(EventSet) /\ Len(rest) = Len(evs) - 1 /\ \A j \in 1..(n - 1) : rest[j] = evs[j + 1]
  BY <1>2, HeadTailProperties
<1>9. new \in Seq(Piece)
  <2>1. evs[1].text \in Seq(Piece)  BY <1>7 DEF EventSet
  <2> QED  BY <2>1, ConcatProperties DEF After
<1> HIDE DEF rest
<1>10. CASE m = 0
  <2>1. kept = text /\ h = Len(text) /\ h \in Nat
    BY <1>10 DEF kept, h, Kept
  <2>2. evs[1].kind = "token" /\ evs[1].text = <<goal[h + 1]>>
    <3>1. 1 \in (m + 1)..n /\ h + 1 - m = h + 1
      BY <1>10, <1>2, <2>1
    <3> QED  BY <3>1, <1>5
  <2>3. h + 1 \in 1..Len(goal) /\ goal[h + 1] \in Piece
    BY <2>1, <1>2, <1>4, <1>10
  <2>4. new = Append(text, goal[h + 1])
    BY <2>2, <2>3, AppendIsConcat DEF After
  <2>5. Len(new) = h + 1 /\ new[h + 1] = goal[h + 1] /\ \A j \in 1..h : new[j] = text[j]
    BY <2>1, <2>3, <2>4, AppendProperties
  <2>6. \A j \in 1..Len(new) : new[j] = goal[j]
    <3> TAKE j \in 1..Len(new)
    <3>1. j \in 1..h \/ j = h + 1  BY <2>1, <2>5
    <3> QED  BY <3>1, <2>1, <2>5, <1>6
  <2>7. \A j \in 1..(n - 1) : rest[j].kind = "token" /\ rest[j].text = <<goal[Len(new) + j - 0]>>
    <3> TAKE j \in 1..(n - 1)
    <3> HIDE DEF new
    <3>1. j + 1 \in (m + 1)..n /\ h + (j + 1) - m = Len(new) + j - 0
      BY <1>10, <1>2, <2>1, <2>5
    <3>2. evs[j + 1].kind = "token" /\ evs[j + 1].text = <<goal[h + (j + 1) - m]>>
      BY <3>1, <1>5
    <3> QED  BY <3>1, <3>2, <1>8
  <2>8. Len(goal) = Len(new) + (n - 1) - 0 /\ 0 \in 0..(n - 1) /\ 0 + 1 = 1 /\ \A j \in 1..0 : FALSE
    BY <2>1, <2>5, <1>2, <1>4, <1>10
  <2>9. Kept(new, 0) = new
    BY DEF Kept
  <2> HIDE DEF new
  <2>10. LeadsFrom(0, new, rest, n - 1, goal)
    BY <2>6, <2>7, <2>8, <2>9 DEF LeadsFrom
  <2>11. Leads(new, rest, n - 1, goal)
    BY <2>8, <2>10 DEF Leads
  <2> QED  BY <1>7, <1>9, <2>11 DEF rest, new
<1>11. CASE m > 0
  <2>1. m - 1 \in 0..(n - 1) /\ h = 0 /\ Len(goal) = 0 + (n - 1) - (m - 1)
    BY <1>2, <1>4, <1>11 DEF kept, h, Kept
  <2>2. \A j \in 1..(m - 1) : rest[j].kind \in {"token", "reset"}
    <3> TAKE j \in 1..(m - 1)
    <3>1. j + 1 \in 1..m /\ j \in 1..(n - 1)  BY <1>2, <1>11
    <3> QED  BY <3>1, <1>3, <1>8
  <2>3. m - 1 > 0 => rest[m - 1].kind = "reset"
    <3> HAVE m - 1 > 0
    <3>1. m - 1 \in 1..(n - 1) /\ (m - 1) + 1 = m  BY <1>2
    <3> QED  BY <3>1, <1>3, <1>8, <1>11
  <2>4. \A j \in ((m - 1) + 1)..(n - 1) :
            rest[j].kind = "token" /\ rest[j].text = <<goal[0 + j - (m - 1)]>>
    <3> TAKE j \in ((m - 1) + 1)..(n - 1)
    <3>1. j + 1 \in (m + 1)..n /\ j \in 1..(n - 1) /\ h + (j + 1) - m = 0 + j - (m - 1)
      BY <1>2, <1>11, <2>1
    <3>2. evs[j + 1].kind = "token" /\ evs[j + 1].text = <<goal[h + (j + 1) - m]>>
      BY <3>1, <1>5
    <3> QED  BY <3>1, <3>2, <1>8
  <2>5. Kept(new, m - 1) = << >>
    <3>1. CASE m = 1
      <4>1. evs[1].kind = "reset"  BY <3>1, <1>3
      <4> QED  BY <4>1, <3>1 DEF Kept, After
    <3>2. CASE m # 1  BY <3>2, <1>2, <1>11 DEF Kept
    <3> QED  BY <3>1, <3>2
  <2>6. Len(<< >>) = 0 /\ \A j \in 1..0 : FALSE
    OBVIOUS
  <2> HIDE DEF new
  <2>7. LeadsFrom(m - 1, new, rest, n - 1, goal)
    BY <2>1, <2>2, <2>3, <2>4, <2>5, <2>6 DEF LeadsFrom
  <2>8. Leads(new, rest, n - 1, goal)
    BY <2>1, <2>7 DEF Leads
  <2> QED  BY <1>7, <1>9, <2>8 DEF rest, new
<1> QED  BY <1>2, <1>10, <1>11

(***************************************************************************)
(* Numbered events, and the part of a copy a page has not seen.            *)
(***************************************************************************)
LEMMA EventsAreNumbered ==
    ASSUME NEW events \in Seq(EventSet), NEW seq \in Nat
    PROVE  /\ Numbered(events, seq) \in Seq(EventSet) /\ Len(Numbered(events, seq)) = Len(events)
           /\ \A j \in 1..Len(events) : /\ Numbered(events, seq)[j].id = seq + j
                                        /\ Numbered(events, seq)[j].kind = events[j].kind
                                        /\ Numbered(events, seq)[j].text = events[j].text
<1> DEFINE At(j) == [events[j] EXCEPT !.id = seq + j]
<1>1. \A j \in 1..Len(events) : /\ At(j) \in EventSet /\ At(j).id = seq + j
                                /\ At(j).kind = events[j].kind /\ At(j).text = events[j].text
  <2> TAKE j \in 1..Len(events)
  <2>1. events[j] \in EventSet /\ seq + j \in Nat  OBVIOUS
  <2> QED  BY <2>1 DEF EventSet
<1>2. Numbered(events, seq) = [j \in 1..Len(events) |-> At(j)]
  <2>1. DOMAIN events = 1..Len(events)  OBVIOUS
  <2> QED  BY <2>1 DEF Numbered
<1> HIDE DEF At
<1>3. Numbered(events, seq) \in Seq(EventSet) /\ Len(Numbered(events, seq)) = Len(events)
  <2>1. Len(events) \in Nat  OBVIOUS
  <2> QED  BY <1>1, <1>2, <2>1, IsASeq, LenProperties
<1> QED  BY <1>1, <1>2, <1>3

LEMMA UnreadEvents ==
    ASSUME NEW evs \in Seq(EventSet), NEW seq \in Nat, NEW cursor \in Nat,
           cursor \in (seq - Len(evs))..seq
    PROVE  /\ Unread(evs, seq, cursor) \in Seq(EventSet) /\ Len(Unread(evs, seq, cursor)) = seq - cursor
           /\ \A j \in 1..(seq - cursor) :
                 Unread(evs, seq, cursor)[j] = evs[Len(evs) - (seq - cursor) + j]
<1> DEFINE n == Len(evs)
           u == seq - cursor
           first == n - u
<1>1. n \in Nat /\ u \in Nat /\ first \in Nat /\ n - first = u /\ first <= n
  OBVIOUS
<1>2. Unread(evs, seq, cursor) = SubSeq(evs, first + 1, n)
  BY DEF Unread
<1> HIDE DEF n, u, first
<1>3. /\ SubSeq(evs, first + 1, n) \in Seq(EventSet)
      /\ Len(SubSeq(evs, first + 1, n)) = n - first
      /\ \A j \in 1..(n - first) : SubSeq(evs, first + 1, n)[j] = evs[first + j]
  <2>1. first + 1 \in 1..(n + 1) /\ n \in (first + 1 - 1)..n
    BY <1>1
  <2> QED  BY <1>1, <2>1, SubSeqProperties DEF n
<1>4. /\ Unread(evs, seq, cursor) \in Seq(EventSet) /\ Len(Unread(evs, seq, cursor)) = u
      /\ \A j \in 1..u : Unread(evs, seq, cursor)[j] = evs[first + j]
  BY <1>1, <1>2, <1>3
<1> QED  BY <1>4 DEF n, u, first

\* What a replay sends is what the page has not seen.
LEMMA BacklogIsUnread ==
    ASSUME NEW c, c.events \in Seq(EventSet), NEW seq \in Nat, NEW cursor \in Nat,
           cursor \in (seq - Len(c.events))..seq,
           \A j \in 1..Len(c.events) : c.events[j].id = seq - Len(c.events) + j
    PROVE  Backlog(c, cursor) = Unread(c.events, seq, cursor)
<1> DEFINE n == Len(c.events)
           first == n - (seq - cursor)
           unseen == {j \in 1..n : c.events[j].id > cursor}
<1>1. n \in Nat /\ first \in 0..n /\ DOMAIN c.events = 1..n
  OBVIOUS
<1>2. \A j \in 1..n : c.events[j].id > cursor <=> j > first
  <2> TAKE j \in 1..n
  <2>1. c.events[j].id = seq - n + j  OBVIOUS
  <2> HIDE DEF n
  <2> QED  BY <1>1, <2>1
<1>3. Backlog(c, cursor) = IF unseen = {} THEN << >> ELSE SubSeq(c.events, Min(unseen), n)
  BY <1>1 DEF Backlog
<1>4. Unread(c.events, seq, cursor) = SubSeq(c.events, first + 1, n)
  BY DEF Unread
<1> HIDE DEF n, first
<1>5. CASE first = n
  <2>1. unseen = {}
    BY <1>1, <1>2, <1>5
  <2>2. SubSeq(c.events, first + 1, n) = << >>
    BY <1>1, <1>5, SubSeqEmpty DEF n
  <2> QED  BY <1>3, <1>4, <2>1, <2>2
<1>6. CASE first # n
  <2>1. first + 1 \in 1..n
    BY <1>1, <1>6
  <2>2. first + 1 \in unseen /\ \A j \in unseen : first + 1 <= j /\ j \in 1..n
    BY <1>1, <1>2, <2>1
  <2>3. unseen \in SUBSET (1..n) /\ unseen # {}
    BY <2>2
  <2> HIDE DEF unseen
  <2>4. Min(unseen) \in unseen /\ \A j \in unseen : Min(unseen) <= j
    BY <1>1, <2>3, LeastPosition
  <2>5. Min(unseen) = first + 1
    BY <1>1, <2>2, <2>4
  <2> QED  BY <1>3, <1>4, <2>3, <2>5
<1> QED  BY <1>5, <1>6

LEMMA UnreadGrows ==
    ASSUME NEW evs \in Seq(EventSet), NEW seq \in Nat, NEW cursor \in Nat,
           cursor \in (seq - Len(evs))..seq, NEW new \in Seq(EventSet)
    PROVE  /\ cursor \in (seq + Len(new) - Len(evs \o new))..(seq + Len(new))
           /\ Unread(evs \o new, seq + Len(new), cursor) = Unread(evs, seq, cursor) \o new
<1> DEFINE n == Len(evs)
           k == Len(new)
           u == seq - cursor
           first == n - u
           last == seq + k
           both == evs \o new
           old == Unread(evs, seq, cursor)
           all == Unread(both, last, cursor)
<1>1. n \in Nat /\ k \in Nat /\ u \in Nat /\ first \in Nat /\ n = first + u
  OBVIOUS
<1>2. /\ both \in Seq(EventSet) /\ Len(both) = n + k
      /\ \A j \in 1..(n + k) : both[j] = IF j <= n THEN evs[j] ELSE new[j - n]
  BY ConcatProperties
<1>3. /\ old \in Seq(EventSet) /\ Len(old) = u
      /\ \A j \in 1..u : old[j] = evs[first + j]
  BY UnreadEvents
<1>4. last \in Nat /\ last - cursor = u + k
  OBVIOUS
<1>5. cursor \in (last - Len(both))..last /\ Len(both) - (last - cursor) = first
  <2>1. Len(both) = n + k  BY <1>2
  <2> HIDE DEF both
  <2>2. last - (n + k) = seq - n  OBVIOUS
  <2>3. cursor <= last /\ seq - n <= cursor /\ n + k - (u + k) = first  OBVIOUS
  <2> QED  BY <2>1, <2>2, <2>3, <1>1, <1>4
<1> HIDE DEF both, n, k, u, first, last
<1>6. /\ all \in Seq(EventSet) /\ Len(all) = last - cursor
      /\ \A j \in 1..(last - cursor) : all[j] = both[Len(both) - (last - cursor) + j]
  BY <1>2, <1>4, <1>5, UnreadEvents
<1> HIDE DEF old, all
<1>7. all \in Seq(EventSet) /\ Len(all) = u + k /\ \A j \in 1..(u + k) : all[j] = both[first + j]
  BY <1>4, <1>5, <1>6
<1>8. /\ old \o new \in Seq(EventSet) /\ Len(old \o new) = u + k
      /\ \A j \in 1..(u + k) : (old \o new)[j] = IF j <= u THEN old[j] ELSE new[j - u]
  BY <1>3, ConcatProperties DEF k
<1>9. \A j \in 1..Len(all) : all[j] = (old \o new)[j]
  <2> TAKE j \in 1..Len(all)
  <2>1. j \in 1..(u + k) /\ first + j \in 1..(n + k)
    BY <1>1, <1>7
  <2> DEFINE i == first + j
  <2>2. i \in 1..(n + k) /\ (i <= n <=> j <= u) /\ i - n = j - u
    BY <2>1, <1>1
  <2>3. all[j] = both[i]
    BY <2>1, <1>7
  <2>4. j <= u => old[j] = evs[i]
    BY <2>1, <1>1, <1>3
  <2> HIDE DEF i
  <2>5. both[i] = IF i <= n THEN evs[i] ELSE new[i - n]
    BY <2>2, <1>2
  <2>6. (old \o new)[j] = IF j <= u THEN old[j] ELSE new[j - u]
    BY <2>1, <1>8
  <2> QED  BY <2>2, <2>3, <2>4, <2>5, <2>6
<1>10. all = old \o new
  BY <1>7, <1>8, <1>9, SeqEqual
<1> QED  BY <1>5, <1>10 DEF all, old, both, last, k

LEMMA UnreadShrinks ==
    ASSUME NEW evs \in Seq(EventSet), NEW seq \in Nat, NEW cursor \in Nat,
           cursor \in (seq - Len(evs))..seq, cursor < seq
    PROVE  /\ cursor + 1 \in (seq - Len(evs))..seq
           /\ Unread(evs, seq, cursor + 1) = Tail(Unread(evs, seq, cursor))
<1> DEFINE n == Len(evs)
           u == seq - cursor
           first == n - u
           next == cursor + 1
           old == Unread(evs, seq, cursor)
           new == Unread(evs, seq, next)
<1>1. n \in Nat /\ u \in Nat /\ u >= 1 /\ first \in Nat
  OBVIOUS
<1>2. /\ next \in Nat /\ next \in (seq - n)..seq
      /\ seq - next = u - 1 /\ n - (seq - next) = first + 1
  OBVIOUS
<1>3. /\ old \in Seq(EventSet) /\ Len(old) = u
      /\ \A j \in 1..u : old[j] = evs[first + j]
  BY UnreadEvents
<1> HIDE DEF u, first, next
<1>4. /\ new \in Seq(EventSet) /\ Len(new) = seq - next
      /\ \A j \in 1..(seq - next) : new[j] = evs[n - (seq - next) + j]
  BY <1>2, UnreadEvents
<1> HIDE DEF old, new, n
<1>5. old # << >>
  BY <1>1, <1>3
<1>6. /\ Tail(old) \in Seq(EventSet) /\ Len(Tail(old)) = u - 1
      /\ \A j \in 1..(u - 1) : Tail(old)[j] = old[j + 1]
  BY <1>3, <1>5, HeadTailProperties
<1>7. \A j \in 1..Len(new) : new[j] = Tail(old)[j]
  <2> TAKE j \in 1..Len(new)
  <2>1. j \in 1..(u - 1) /\ j + 1 \in 1..u /\ first + (j + 1) = first + 1 + j
    BY <1>1, <1>2, <1>4
  <2>2. new[j] = evs[first + 1 + j]
    BY <2>1, <1>2, <1>4
  <2>3. Tail(old)[j] = old[j + 1] /\ old[j + 1] = evs[first + (j + 1)]
    BY <2>1, <1>3, <1>6
  <2> QED  BY <2>1, <2>2, <2>3
<1>8. new = Tail(old)
  BY <1>2, <1>4, <1>6, <1>7, SeqEqual
<1> QED  BY <1>2, <1>8 DEF new, old, next, n

\* _append_tutor_stream_events drops nothing while everything fits.
LEMMA CopyIsExtended ==
    ASSUME NEW c \in CopySet, NEW i \in Attempts, c.epoch = i, c # None,
           NEW events \in Seq(EventSet), NEW complete \in BOOLEAN,
           Len(c.events) + Len(events) <= MaxEvents
    PROVE  Extended(c, i, events, complete)
             = [epoch |-> i, events |-> c.events \o events, complete |-> c.complete \/ complete]
<1>1. c.events \in Seq(EventSet) /\ c.complete \in BOOLEAN
  BY DEF CopySet
<1>2. ~ (Len(c.events \o events) > MaxEvents)
  <2>1. Len(c.events \o events) = Len(c.events) + Len(events)
    BY <1>1, ConcatProperties
  <2> QED  BY <2>1, <1>1, TutorAssumption
<1>3. Extended(c, i, events, complete)
        = [c EXCEPT !.events = c.events \o events, !.complete = @ \/ complete]
  BY <1>2 DEF Extended
<1> HIDE DEF Extended
<1> QED  BY <1>3 DEF CopySet

LEMMA CopyTyped ==
    ASSUME NEW c, c # None => c \in CopySet, NEW i \in Attempts, NEW events \in Seq(EventSet),
           NEW complete \in BOOLEAN
    PROVE  LET new == Extended(c, i, events, complete)
           IN  new # None => /\ new \in CopySet
                             /\ c = None \/ c.epoch # i => new = c
                             /\ c # None /\ new.epoch = c.epoch
<1>1. CASE c = None \/ c.epoch # i
  BY <1>1 DEF Extended
<1>2. CASE ~ (c = None \/ c.epoch # i)
  <2> DEFINE all == c.events \o events
             kept == IF Len(all) > MaxEvents THEN SubSeq(all, Len(all) - MaxEvents + 1, Len(all)) ELSE all
  <2>1. c \in CopySet /\ c.events \in Seq(EventSet) /\ all \in Seq(EventSet)
    BY <1>2, ConcatProperties DEF CopySet
  <2>2. kept \in Seq(EventSet)
    <3>1. CASE Len(all) > MaxEvents
      <4>1. Len(all) \in Nat /\ MaxEvents \in Nat
        BY <2>1, TutorAssumption
      <4>2. Len(all) - MaxEvents + 1 \in 1..(Len(all) + 1) /\ Len(all) \in (Len(all) - MaxEvents + 1 - 1)..Len(all)
        BY <4>1, <3>1
      <4> HIDE DEF all
      <4> QED  BY <2>1, <4>2, <3>1, SubSeqProperties
    <3>2. CASE ~ (Len(all) > MaxEvents)
      BY <2>1, <3>2
    <3> QED  BY <3>1, <3>2
  <2>3. Extended(c, i, events, complete) = [c EXCEPT !.events = kept, !.complete = @ \/ complete]
    BY <1>2 DEF Extended
  <2> HIDE DEF kept, all
  <2> QED  BY <1>2, <2>1, <2>2, <2>3 DEF CopySet
<1> QED  BY <1>1, <1>2

(***************************************************************************)
(* The steps of the tutor.                                                 *)
(***************************************************************************)
LEMMA AnswerInit == Init => AnswerInv
<1> SUFFICES ASSUME Init PROVE AnswerInv
    OBVIOUS
<1> USE DEF Init, TutorInit
<1>1. << >> \in Seq(Piece) /\ << >> \in Seq(EventSet) /\ 0 \in 0..Parts /\ 0 \in 0..Tries
  BY TutorAssumption
<1>2. Blank \in PageSet /\ NoWork \in WorkSet
  BY <1>1 DEF Blank, NoWork, PageSet, WorkSet
<1>3. TutorType
  BY <1>2 DEF TutorType
<1>4. page.status = "idle" /\ page.fit /\ page.on = 0 /\ page.text = << >> /\ page.cursor = 0 /\ page.tries = 0
  BY DEF Blank
<1>5. HandlersInv
  <2>1. \A i \in Attempts : ~Runs(i)
    BY DEF Runs, NoWork
  <2> QED  BY <2>1, <1>4 DEF HandlersInv, Open
<1> QED  BY <1>3, <1>4, <1>5 DEF AnswerInv, UnfitInv, ReadingInv, CopyInv, CompleteInv, Open

\* A page that is not to read on keeps what it has.
LetsGo(p) ==
    /\ p \in PageSet /\ p.on = 0 /\ page.tries <= p.tries
    /\ p.text = page.text /\ p.cursor = page.cursor /\ p.fit = page.fit
    /\ p.status \in {"waiting", "error"} /\ (p.status = "waiting" => p.tries < Tries)

LEMMA RetriedLetsGo ==
    ASSUME page \in PageSet, NEW tries \in page.tries..Tries
    PROVE  LetsGo(Retried([page EXCEPT !.tries = tries]))
<1>1. 0 \in 0..Tries /\ tries \in 0..Tries /\ Tries \in Nat /\ page.tries \in Nat
  BY TutorAssumption DEF PageSet
<1> DEFINE p == [page EXCEPT !.tries = tries]
<1>2. /\ p \in PageSet /\ p.tries = tries /\ p.text = page.text /\ p.cursor = page.cursor
      /\ p.fit = page.fit
  BY <1>1 DEF PageSet
<1> HIDE DEF p
<1>3. Retried(p) \in PageSet /\ Retried(p).on = 0 /\ Retried(p).tries = p.tries
      /\ Retried(p).text = p.text /\ Retried(p).cursor = p.cursor /\ Retried(p).fit = p.fit
      /\ Retried(p).status = IF p.tries < Tries THEN "waiting" ELSE "error"
  BY <1>1, <1>2 DEF Retried, PageSet
<1>4. page.tries <= p.tries
  BY <1>1, <1>2
<1> HIDE DEF LetsGo, Retried
<1> QED  BY <1>2, <1>3, <1>4 DEF LetsGo, p

\* A handler that ends leaves its answer, if it has one.
Ended(w) == [w EXCEPT !.at = "over", !.todo = << >>]

LEMMA EndedWork ==
    ASSUME NEW w \in WorkSet
    PROVE  /\ Ended(w) \in WorkSet /\ Ended(w).at = "over" /\ Ended(w).todo = << >>
           /\ Ended(w).seq = w.seq /\ Ended(w).shown = w.shown /\ Ended(w).final = w.final
           /\ Ended(w).on = w.on /\ Ended(w).saved = w.saved
<1>1. << >> \in Seq(EventSet)  OBVIOUS
<1> QED  BY <1>1 DEF Ended, WorkSet

\* Connections break, handlers end and copies expire.
NothingBegins ==
    /\ page' = page \/ ((Open \/ page.on # 0) /\ LetsGo(page'))
    /\ DOMAIN work' = Attempts /\ work' \in [Attempts -> WorkSet]
    /\ \A i \in Attempts : work'[i] = work[i] \/ (Runs(i) /\ work'[i] = Ended(work[i]))
    /\ page'.on # 0 => work'[page'.on] = work[page'.on]
    /\ DOMAIN copy' = Replicas /\ \A r \in Replicas : copy'[r] = copy[r] \/ copy'[r] = None

LEMMA EndingKeepsAnswer ==
    ASSUME AnswerInv, NothingBegins
    PROVE  AnswerInv'
<1>0. /\ page' = page \/ (Open /\ LetsGo(page'))
      /\ DOMAIN work' = Attempts /\ work' \in [Attempts -> WorkSet]
      /\ \A i \in Attempts : work'[i] = work[i] \/ (Runs(i) /\ work'[i] = Ended(work[i]))
      /\ page'.on # 0 => work'[page'.on] = work[page'.on]
      /\ DOMAIN copy' = Replicas /\ \A r \in Replicas : copy'[r] = copy[r] \/ copy'[r] = None
  BY DEF NothingBegins, AnswerInv, HandlersInv, Open
<1> USE <1>0
<1>1. TutorType'
  BY DEF AnswerInv, TutorType, LetsGo
<1>2. \A i \in Attempts : /\ work[i] \in WorkSet
                          /\ work'[i].seq = work[i].seq /\ work'[i].shown = work[i].shown
                          /\ work'[i].final = work[i].final /\ work'[i].on = work[i].on
                          /\ work'[i].at = "asking" => work'[i] = work[i]
                          /\ work'[i].at # work[i].at => Runs(i)
                          /\ Runs(i)' => Runs(i)
                          /\ work'[i].todo = work[i].todo \/ work'[i].todo = << >>
  <2> TAKE i \in Attempts
  <2>1. work[i] \in WorkSet  BY DEF AnswerInv, TutorType
  <2>2. CASE work'[i] = work[i]  BY <2>1, <2>2 DEF Runs
  <2>3. CASE Runs(i) /\ work'[i] = Ended(work[i])  BY <2>1, <2>3, EndedWork DEF Runs
  <2> QED  BY <2>2, <2>3
<1>3. /\ page'.text = page.text /\ page'.cursor = page.cursor /\ page'.fit = page.fit
      /\ page.tries <= page'.tries
      /\ Open' => Open
      /\ page'.on # 0 => page' = page
      /\ page'.status = "complete" => page' = page
      /\ page'.status = "idle" => page' = page
  BY DEF LetsGo, Open, AnswerInv, TutorType, PageSet
<1>9. page.tries \in Nat /\ page'.tries \in Nat /\ Tries \in Nat
  BY <1>1, TutorAssumption DEF AnswerInv, TutorType, PageSet
<1>4. HandlersInv'
  <2>1. \A i \in Attempts : Runs(i)' => work'[i].on \in Replicas /\ i <= page'.tries
    <3> TAKE i \in Attempts
    <3> HAVE Runs(i)'
    <3>1. work[i].on \in Replicas /\ i <= page.tries
      BY <1>2 DEF AnswerInv, HandlersInv
    <3>2. i \in Nat /\ page.tries \in Nat /\ page'.tries \in Nat
      BY <1>9 DEF Attempts
    <3> QED  BY <3>1, <3>2, <1>2, <1>3
  <2>2. \A i, j \in Attempts : Runs(i)' /\ Runs(j)' => i = j
    BY <1>2 DEF AnswerInv, HandlersInv
  <2>3. /\ page'.on # 0 => page'.status = "reading" /\ work'[page'.on].at \in {"asking", "sending"}
        /\ page'.status = "reading" => page'.on # 0
        /\ page'.status = "waiting" => page'.tries < Tries
    <3>1. CASE page' = page
      BY <3>1 DEF AnswerInv, HandlersInv, Runs
    <3>2. CASE LetsGo(page')
      BY <3>2 DEF LetsGo
    <3> QED  BY <3>1, <3>2
  <2>4. \A r \in Replicas : copy'[r] # None => copy'[r].epoch <= page'.tries
    <3> TAKE r \in Replicas
    <3> HAVE copy'[r] # None
    <3>1. copy'[r] = copy[r] /\ copy[r].epoch <= page.tries /\ copy[r] \in CopySet
      BY DEF AnswerInv, HandlersInv, TutorType
    <3>2. copy[r].epoch \in Nat /\ page.tries \in Nat /\ page'.tries \in Nat
      BY <3>1, <1>9 DEF CopySet, Attempts
    <3> QED  BY <3>1, <3>2, <1>3
  <2>5. page'.status = "idle" => /\ page'.text = << >> /\ page'.cursor = 0 /\ page'.tries = 0
                                 /\ \A i \in Attempts : work'[i] = NoWork
                                 /\ \A r \in Replicas : copy'[r] = None
    <3> HAVE page'.status = "idle"
    <3>1. /\ page' = page /\ page.text = << >> /\ page.cursor = 0 /\ page.tries = 0
          /\ \A i \in Attempts : work[i] = NoWork
          /\ \A r \in Replicas : copy[r] = None
      BY <1>3 DEF AnswerInv, HandlersInv
    <3>2. \A i \in Attempts : ~Runs(i)
      BY <3>1 DEF Runs, NoWork
    <3> QED  BY <3>1, <3>2
  <2>6. Open' /\ page'.fit /\ page'.cursor = 0 => page'.text = << >>
    <3> HAVE Open' /\ page'.fit /\ page'.cursor = 0
    <3>1. Open /\ page.fit /\ page.cursor = 0  BY <1>3
    <3>2. page.text = << >>  BY <3>1 DEF AnswerInv, HandlersInv
    <3> QED  BY <3>2, <1>3
  <2> HIDE DEF LetsGo
  <2> QED  BY <2>1, <2>2, <2>3, <2>4, <2>5, <2>6 DEF HandlersInv, Runs, Open
<1>5. UnfitInv'
  <2>1. CASE page'.fit
    BY <2>1 DEF UnfitInv
  <2>2. CASE ~page'.fit
    <3>1. /\ page.status # "complete"
          /\ \A i \in Attempts : /\ work[i].at # "asking"
                                 /\ \A j \in 1..Len(work[i].todo) : work[i].todo[j].kind # "done"
          /\ \A r \in Replicas : copy[r] # None =>
                \A j \in 1..Len(copy[r].events) : copy[r].events[j].kind # "done"
      BY <2>2, <1>3 DEF AnswerInv, UnfitInv
    <3>2. page'.status # "complete"
      BY <3>1, <1>3
    <3>3. \A i \in Attempts : /\ work'[i].at # "asking"
                               /\ \A j \in 1..Len(work'[i].todo) : work'[i].todo[j].kind # "done"
      BY <3>1, <1>2
    <3>4. \A r \in Replicas : copy'[r] # None =>
              \A j \in 1..Len(copy'[r].events) : copy'[r].events[j].kind # "done"
      BY <3>1
    <3> QED  BY <3>2, <3>3, <3>4 DEF UnfitInv
  <2> QED  BY <2>1, <2>2
<1>6. ReadingInv'
  <2>1. CASE ~ (Open' /\ page'.fit /\ page'.on # 0)
    BY <2>1 DEF ReadingInv
  <2>2. CASE Open' /\ page'.fit /\ page'.on # 0
    <3>1. page' = page /\ work'[page.on] = work[page.on] /\ Open /\ page.fit /\ page.on # 0
      BY <2>2, <1>3
    <3> DEFINE w == work[page.on]
    <3>2. /\ \A j \in 1..Len(w.todo) : w.todo[j].id = page.cursor + j
          /\ w.at = "asking" => /\ page.cursor + Len(w.todo) = w.seq
                                /\ Leads(page.text, w.todo, Len(w.todo), Prefix(page.on, w.shown))
      BY <3>1 DEF AnswerInv, ReadingInv
    <3>3. ASSUME w.at = "sending"
          PROVE  \E g \in Attempts : /\ work'[g].at # "asking"
                                      /\ work'[g].final \in Seq(Piece)
                                      /\ Finishes(page.text, w.todo, work'[g].final)
      <4>1. PICK g \in Attempts : /\ work[g].at # "asking" /\ work[g].final \in Seq(Piece)
                                  /\ Finishes(page.text, w.todo, work[g].final)
        BY <3>1, <3>3 DEF AnswerInv, ReadingInv
      <4>2. work'[g].at # "asking" /\ work'[g].final = work[g].final
        BY <4>1, <1>2
      <4> QED  BY <4>1, <4>2
    <3> QED  BY <3>1, <3>2, <3>3 DEF ReadingInv
  <2> QED  BY <2>1, <2>2
<1>7. CopyInv'
  <2> SUFFICES ASSUME Open', page'.fit, NEW r \in Replicas, copy'[r] # None, Live(copy[r])'
               PROVE  LET c == copy'[r]
                          w == work'[c.epoch]
                          rest == Unread(c.events, w.seq, page'.cursor)
                      IN  /\ \A j \in 1..Len(c.events) : c.events[j].id = w.seq - Len(c.events) + j
                          /\ page'.cursor \in (w.seq - Len(c.events))..w.seq
                          /\ w.at = "asking" => /\ ~c.complete /\ w.on = r
                                                /\ Len(c.events) <= w.shown + 1
                                                /\ Leads(page'.text, rest, Len(rest), Prefix(c.epoch, w.shown))
                          /\ c.complete => w.final \in Seq(Piece) /\ Finishes(page'.text, rest, w.final)
                          /\ page'.on # 0 => work'[page'.on].todo = rest
      BY DEF CopyInv
  <2> DEFINE c == copy[r]
             w == work[c.epoch]
             rest == Unread(c.events, w.seq, page.cursor)
  <2>1. copy'[r] = c /\ c # None /\ c.epoch \in Attempts
    BY DEF AnswerInv, TutorType, CopySet
  <2>2. Open /\ page.fit /\ Live(c)
    BY <1>2, <1>3, <2>1 DEF Live
  <2>3. /\ \A j \in 1..Len(c.events) : c.events[j].id = w.seq - Len(c.events) + j
        /\ page.cursor \in (w.seq - Len(c.events))..w.seq
        /\ w.at = "asking" => /\ ~c.complete /\ w.on = r
                              /\ Len(c.events) <= w.shown + 1
                              /\ Leads(page.text, rest, Len(rest), Prefix(c.epoch, w.shown))
        /\ c.complete => w.final \in Seq(Piece) /\ Finishes(page.text, rest, w.final)
        /\ page.on # 0 => work[page.on].todo = rest
    BY <2>1, <2>2 DEF AnswerInv, CopyInv
  <2>4. /\ work'[c.epoch].seq = w.seq /\ work'[c.epoch].final = w.final
        /\ work'[c.epoch].at = "asking" => work'[c.epoch] = w
    BY <1>2, <2>1
  <2>5. page'.on # 0 => page' = page /\ work'[page'.on] = work[page.on]
    BY <1>3
  <2> QED  BY SMTT(30), <2>1, <2>3, <2>4, <2>5, <1>3
<1>8. CompleteInv'
  BY <1>2, <1>3 DEF AnswerInv, CompleteInv
<1> QED  BY <1>1, <1>4, <1>5, <1>6, <1>7, <1>8 DEF AnswerInv

LEMMA ConnectionsEnd ==
    ASSUME TutorType, page.status = "waiting" => page.tries < Tries,
           \/ Drop \/ GiveUp \/ \E r \in Replicas : Refuse(r) \/ Evict(r)
    PROVE  NothingBegins
<1>1. page \in PageSet /\ work \in [Attempts -> WorkSet] /\ DOMAIN copy = Replicas
  BY DEF TutorType
<1>2. /\ page.tries \in 0..Tries /\ Tries \in Nat /\ page.tries \in page.tries..Tries
      /\ [page EXCEPT !.tries = page.tries] = page
  BY <1>1, TutorAssumption DEF PageSet
<1>3. work' = work
  BY DEF Drop, GiveUp, Refuse, Evict
<1>4. page' = page \/ (Open /\ LetsGo(page'))
  <2>1. CASE Drop
    <3>1. LetsGo(Retried(page))  BY <1>1, <1>2, RetriedLetsGo
    <3> QED  BY <3>1, <2>1 DEF Drop, Open
  <2>2. CASE GiveUp
    <3> DEFINE p == [page EXCEPT !.status = "error", !.on = 0]
    <3>1. /\ p \in PageSet /\ p.on = 0 /\ p.tries = page.tries /\ p.status = "error"
          /\ p.text = page.text /\ p.cursor = page.cursor /\ p.fit = page.fit
      <4>1. 0 \in 0..Tries  BY TutorAssumption
      <4> QED  BY <4>1, <1>1 DEF PageSet
    <3>2. page' = p /\ Open  BY <2>2 DEF GiveUp, Open
    <3> HIDE DEF p
    <3> QED  BY <3>1, <3>2, <1>2 DEF LetsGo
  <2>3. ASSUME NEW r \in Replicas, Refuse(r) PROVE page' = page \/ (Open /\ LetsGo(page'))
    <3>1. page.tries + 1 \in page.tries..Tries
      BY <2>3, <1>1, <1>2 DEF Refuse
    <3>2. page' = Retried([page EXCEPT !.tries = page.tries + 1]) /\ page.status = "waiting"
      BY <2>3 DEF Refuse
    <3> QED  BY <3>1, <3>2, <1>1, RetriedLetsGo DEF Open
  <2>4. ASSUME NEW r \in Replicas, Evict(r) PROVE page' = page \/ (Open /\ LetsGo(page'))
    BY <2>4 DEF Evict
  <2> QED  BY <2>1, <2>2, <2>3, <2>4
<1>5. DOMAIN copy' = Replicas /\ \A r \in Replicas : copy'[r] = copy[r] \/ copy'[r] = None
  BY <1>1 DEF Drop, GiveUp, Refuse, Evict
<1> QED  BY <1>1, <1>3, <1>4, <1>5 DEF NothingBegins

LEMMA HandlersEnd ==
    ASSUME TutorType, NEW i \in Attempts, End(i) \/ Cancel(i)
    PROVE  NothingBegins
<1>1. page \in PageSet /\ work \in [Attempts -> WorkSet] /\ DOMAIN copy = Replicas
  BY DEF TutorType
<1>2. /\ page.tries \in page.tries..Tries /\ [page EXCEPT !.tries = page.tries] = page
  BY <1>1, TutorAssumption DEF PageSet
<1>3. /\ Runs(i) /\ copy' = copy /\ work' = Over(i)
      /\ page' = page \/ (page.on = i /\ page' = Retried(page))
      /\ page' = page => page.on # i
  <2>1. CASE End(i)
    <3>1. page.on = i => page' # page
      <4> HAVE page.on = i
      <4>1. page' = Retried(page) /\ page.on # 0  BY <2>1, TutorAssumption DEF End, Attempts
      <4>2. Retried(page).on = 0  BY <1>1 DEF Retried, PageSet
      <4> QED  BY <4>1, <4>2
    <3> QED  BY <2>1, <3>1 DEF End, Runs
  <2>2. CASE Cancel(i)
    BY <2>2 DEF Cancel
  <2> QED  BY <2>1, <2>2
<1>4. work' = [work EXCEPT ![i] = Ended(work[i])]
  <2>1. work[i] \in WorkSet  BY <1>1
  <2>2. work' = [work EXCEPT ![i] = [[work[i] EXCEPT !.at = "over"] EXCEPT !.todo = << >>]]
    BY <1>1, <1>3 DEF Over
  <2> QED  BY <2>1, <2>2 DEF Ended, WorkSet
<1>5. work[i] \in WorkSet /\ Ended(work[i]) \in WorkSet
  BY <1>1, EndedWork
<1>6. /\ DOMAIN work' = Attempts /\ work' \in [Attempts -> WorkSet]
      /\ \A j \in Attempts : work'[j] = work[j] \/ (Runs(j) /\ work'[j] = Ended(work[j]))
      /\ \A j \in Attempts \ {i} : work'[j] = work[j]
  <2> HIDE DEF Ended
  <2> QED  BY <1>1, <1>3, <1>4, <1>5
<1>7. page' = page \/ (page.on # 0 /\ LetsGo(page'))
  <2>1. i # 0  BY TutorAssumption DEF Attempts
  <2>2. LetsGo(Retried(page))  BY <1>1, <1>2, RetriedLetsGo
  <2> QED  BY <2>1, <2>2, <1>3
<1>8. page'.on # 0 => work'[page'.on] = work[page'.on]
  <2>1. CASE page' = page
    <3> HAVE page'.on # 0
    <3>1. page.on \in Attempts \ {i}  BY <2>1, <1>1, <1>3, TutorAssumption DEF PageSet, Attempts
    <3> QED  BY <3>1, <2>1, <1>6
  <2>2. CASE LetsGo(page')  BY <2>2 DEF LetsGo
  <2> QED  BY <2>1, <2>2, <1>7
<1> QED  BY <1>1, <1>3, <1>6, <1>7, <1>8 DEF NothingBegins

LEMMA RestartEnds ==
    ASSUME TutorType, NEW r \in Replicas, RestartTutor(r)
    PROVE  NothingBegins
<1>1. /\ page \in PageSet /\ work \in [Attempts -> WorkSet] /\ DOMAIN copy = Replicas
      /\ page.on # 0 => page.on \in Attempts
  BY TutorAssumption DEF TutorType, PageSet, Attempts
<1>2. /\ page.tries \in page.tries..Tries /\ [page EXCEPT !.tries = page.tries] = page
  BY <1>1, TutorAssumption DEF PageSet
<1>3. \A i \in Attempts : work[i] \in WorkSet /\ Ended(work[i]) \in WorkSet
  BY <1>1, EndedWork
<1>4. work' = [i \in Attempts |-> IF Runs(i) /\ work[i].on = r THEN Ended(work[i]) ELSE work[i]]
  BY DEF RestartTutor, Ended
<1>5. /\ page' = IF page.on # 0 /\ work[page.on].on = r THEN Retried(page) ELSE page
      /\ copy' = [copy EXCEPT ![r] = None]
  BY DEF RestartTutor
<1>6. page' = page \/ (page.on # 0 /\ LetsGo(page'))
  <2>1. LetsGo(Retried(page))  BY <1>1, <1>2, RetriedLetsGo
  <2> QED  BY <2>1, <1>5
<1>7. page'.on # 0 => work'[page'.on] = work[page'.on]
  <2>1. CASE page.on # 0 /\ work[page.on].on = r
    <3>1. Retried(page).on = 0  BY <1>1 DEF Retried, PageSet
    <3> QED  BY <3>1, <2>1, <1>5
  <2>2. CASE ~ (page.on # 0 /\ work[page.on].on = r)
    <3> HIDE DEF Ended
    <3> QED  BY <2>2, <1>1, <1>4, <1>5
  <2> QED  BY <2>1, <2>2
<1>8. /\ DOMAIN work' = Attempts /\ work' \in [Attempts -> WorkSet]
      /\ \A i \in Attempts : work'[i] = work[i] \/ (Runs(i) /\ work'[i] = Ended(work[i]))
  <2> HIDE DEF Ended
  <2> QED  BY <1>3, <1>4
<1>9. DOMAIN copy' = Replicas /\ \A q \in Replicas : copy'[q] = copy[q] \/ copy'[q] = None
  BY <1>1, <1>5
<1> QED  BY <1>6, <1>7, <1>8, <1>9 DEF NothingBegins

LEMMA AskKeepsAnswer ==
    ASSUME AnswerInv, Ask
    PROVE  AnswerInv'
<1>1. PICK fit \in BOOLEAN : page' = [page EXCEPT !.status = "waiting", !.fit = fit]
  BY DEF Ask
<1>2. /\ page \in PageSet /\ page.on = 0 /\ page.text = << >> /\ page.cursor = 0 /\ page.tries = 0
      /\ \A i \in Attempts : work[i] = NoWork
      /\ \A r \in Replicas : copy[r] = None
  BY DEF Ask, AnswerInv, TutorType, HandlersInv
<1>3. /\ page' \in PageSet /\ page'.status = "waiting" /\ page'.on = 0 /\ page'.text = << >>
      /\ page'.cursor = 0 /\ page'.tries = 0
  BY <1>1, <1>2 DEF PageSet
<1>4. work' = work /\ copy' = copy
  BY DEF Ask
<1>5. TutorType'
  BY <1>3, <1>4 DEF AnswerInv, TutorType
<1>6. \A i \in Attempts : work'[i].at = "none" /\ work'[i].todo = << >>
  BY <1>2, <1>4 DEF NoWork
<1>7. HandlersInv'
  <2>1. \A i \in Attempts : ~Runs(i)'  BY <1>6 DEF Runs
  <2>2. 0 < Tries  BY TutorAssumption
  <2> QED  BY <2>1, <2>2, <1>2, <1>3, <1>4 DEF HandlersInv, Open
<1>8. UnfitInv'
  <2>1. \A j \in 1..Len(<< >>) : FALSE  OBVIOUS
  <2> QED  BY <2>1, <1>2, <1>3, <1>4, <1>6 DEF UnfitInv
<1> QED  BY <1>2, <1>3, <1>4, <1>5, <1>7, <1>8 DEF AnswerInv, ReadingInv, CopyInv, CompleteInv

(***************************************************************************)
(* An answer in the making.                                                *)
(***************************************************************************)

\* A page is sent the end event last, and has the whole text by then.
LEMMA FinishesOn ==
    ASSUME NEW text \in Seq(Piece), NEW evs \in Seq(EventSet), NEW goal \in Seq(Piece),
           Finishes(text, evs, goal)
    PROVE  \/ Len(evs) = 1 /\ evs[1].kind = "done" /\ text = goal
           \/ /\ Len(evs) > 1 /\ evs[1].kind \in {"token", "reset"}
              /\ Finishes(After(text, evs[1]), Tail(evs), goal)
<1> DEFINE n == Len(evs)
<1>1. n \in Nat /\ n >= 1 /\ evs[n].kind = "done" /\ Leads(text, evs, n - 1, goal) /\ evs # << >>
      /\ Len(evs) = n
  BY DEF Finishes
<1> HIDE DEF n
<1>2. CASE n = 1
  BY <1>1, <1>2, LeadsNowhere
<1>3. CASE n > 1
  <2>1. n - 1 \in 1..n  BY <1>1, <1>3
  <2>2. /\ evs[1].kind \in {"token", "reset"} /\ After(text, evs[1]) \in Seq(Piece)
        /\ Leads(After(text, evs[1]), Tail(evs), (n - 1) - 1, goal)
    BY <2>1, <1>1, LeadsOn
  <2>3. Tail(evs) \in Seq(EventSet) /\ Len(Tail(evs)) = n - 1 /\ Tail(evs)[n - 1] = evs[n]
    <3>1. n - 1 \in 1..(n - 1) /\ (n - 1) + 1 = n  BY <1>1, <1>3
    <3> QED  BY <3>1, <1>1, HeadTailProperties
  <2>4. Tail(evs) # << >>
    <3>1. Len(<< >>) = 0 /\ n - 1 # 0  BY <1>1, <1>3
    <3> QED  BY <3>1, <2>3
  <2> QED  BY <2>2, <2>3, <2>4, <1>1, <1>3 DEF Finishes
<1> QED  BY <1>1, <1>2, <1>3

\* The handler of the page's request is the one at work.
LEMMA AtWork ==
    ASSUME AnswerInv, NEW r \in Replicas, Alone(r), NEW i \in Attempts, Runs(i)
    PROVE  /\ work[i] \in WorkSet /\ work[i].on = r /\ page.on \in {0, i}
           /\ \A j \in Attempts \ {i} : ~Runs(j)
<1>1. page.on # 0 => page.on \in Attempts /\ Runs(page.on)
  BY TutorAssumption DEF AnswerInv, TutorType, HandlersInv, PageSet, Attempts
<1>2. work[i].on = r
  BY AssetsAssumption DEF AnswerInv, HandlersInv, Alone, Processes
<1> QED  BY <1>1, <1>2 DEF AnswerInv, TutorType, HandlersInv

\* Events the handler of the i-th request publishes and is about to send: they
\* lead to one more part of its answer, or finish it.
Publishes(i, w, events, complete) ==
    /\ Asking(i) /\ page' = page /\ work' = [work EXCEPT ![i] = w] /\ Publish(i, events, complete)
    /\ w.on = work[i].on /\ w.todo = events /\ w.seq = work[i].seq + Len(events)
    /\ w.at = IF complete THEN "sending" ELSE "asking"
    /\ ~complete => Len(events) = 1 /\ w.shown = work[i].shown + 1
    /\ complete => w.final \in Seq(Piece)
    /\ \A j \in 1..Len(events) : events[j].id = work[i].seq + j
    /\ work[i].shown + 1 + Len(events) <= MaxEvents
    /\ \A text \in Seq(Piece), evs \in Seq(EventSet) :
          Leads(text, evs, Len(evs), Prefix(i, work[i].shown)) =>
             /\ ~complete => Leads(text, evs \o events, Len(evs \o events), Prefix(i, w.shown))
             /\ complete => Finishes(text, evs \o events, w.final)

LEMMA PublishingKeepsAnswer ==
    ASSUME AnswerInv, NEW r \in Replicas, Alone(r), NEW i \in Attempts,
           NEW w \in WorkSet, NEW events \in Seq(EventSet), NEW complete \in BOOLEAN,
           Publishes(i, w, events, complete)
    PROVE  AnswerInv'
<1> USE DEF Publishes
<1>1. /\ Runs(i) /\ work[i].at = "asking" /\ work[i].todo = << >> /\ page.fit
      /\ work[i] \in WorkSet /\ work[i].on = r /\ page.on \in {0, i}
      /\ \A j \in Attempts \ {i} : ~Runs(j)
  <2>1. Runs(i) /\ work[i].at = "asking" /\ work[i].todo = << >>
    BY DEF Asking, Runs
  <2> QED  BY <2>1, AtWork DEF AnswerInv, UnfitInv
<1>2. /\ page \in PageSet /\ work \in [Attempts -> WorkSet] /\ DOMAIN copy = Replicas
      /\ copy[r] # None => copy[r] \in CopySet
  BY DEF AnswerInv, TutorType
<1>3. /\ copy' = [copy EXCEPT ![r] = Extended(copy[r], i, events, complete)]
      /\ DOMAIN copy' = Replicas /\ copy'[r] = Extended(copy[r], i, events, complete)
      /\ \A q \in Replicas : q # r => copy'[q] = None
  <2>1. copy' = [copy EXCEPT ![r] = Extended(copy[r], i, events, complete)]
    BY <1>1 DEF Publish
  <2> DEFINE new == Extended(copy[r], i, events, complete)
  <2>2. copy' = [copy EXCEPT ![r] = new]
    BY <2>1
  <2> HIDE DEF new, Publishes
  <2>3. DOMAIN copy' = Replicas /\ copy'[r] = new /\ \A q \in Replicas : q # r => copy'[q] = copy[q]
    BY <2>2, <1>2
  <2>4. \A q \in Replicas : q # r => copy[q] = None
    BY DEF Alone
  <2>5. copy'[r] = Extended(copy[r], i, events, complete)
    BY <2>3 DEF new
  <2> QED  BY <2>1, <2>3, <2>4, <2>5, Zenon
<1>4. work'[i] = w /\ \A j \in Attempts \ {i} : work'[j] = work[j]
  BY <1>2
<1>5. copy'[r] # None => /\ copy'[r] \in CopySet /\ copy[r] # None
                         /\ copy'[r].epoch = copy[r].epoch
                         /\ copy[r].epoch # i => copy'[r] = copy[r]
  <2> DEFINE old == copy[r]
             new == Extended(old, i, events, complete)
  <2>1. copy'[r] = new /\ (old # None => old \in CopySet)
    BY <1>2, <1>3
  <2> HIDE DEF old, Publishes
  <2>2. new # None => /\ new \in CopySet
                      /\ old = None \/ old.epoch # i => new = old
                      /\ old # None /\ new.epoch = old.epoch
    BY <2>1, CopyTyped
  <2> HIDE DEF new
  <2>3. new # None => /\ new \in CopySet /\ old # None /\ new.epoch = old.epoch
                      /\ old.epoch # i => new = old
    BY <2>2
  <2> QED  BY <2>1, <2>3 DEF old
<1>6. TutorType'
  BY <1>2, <1>3, <1>5 DEF TutorType
<1>7. HandlersInv'
  <2>1. w.at \in {"asking", "sending"}
    OBVIOUS
  <2>2. \A j \in Attempts : Runs(j)' <=> Runs(j)
    BY <1>1, <1>4, <2>1 DEF Runs
  <2>3. page.status # "idle"
    <3>1. NoWork.at = "none"  BY DEF NoWork
    <3> QED  BY <3>1, <1>1 DEF AnswerInv, HandlersInv
  <2>4. \A j \in Attempts : work'[j].on = work[j].on
    BY <1>4
  <2>5. \A q \in Replicas : copy'[q] # None => copy'[q].epoch <= page.tries
    BY <1>3, <1>5 DEF AnswerInv, HandlersInv
  <2>6. page.on # 0 => Runs(page.on)'
    BY <2>2, <1>1
  <2> QED  BY <2>2, <2>3, <2>4, <2>5, <2>6 DEF AnswerInv, HandlersInv, Open
<1>8. UnfitInv'
  BY <1>1 DEF UnfitInv
<1>9. CompleteInv'
  BY <1>1, <1>4 DEF AnswerInv, CompleteInv
<1>10. ReadingInv'
  <2> SUFFICES ASSUME Open, page.on = i
               PROVE  /\ \A j \in 1..Len(events) : events[j].id = page.cursor + j
                      /\ w.at = "asking" => /\ page.cursor + Len(events) = w.seq
                                            /\ Leads(page.text, events, Len(events), Prefix(i, w.shown))
                      /\ w.at = "sending" => /\ w.final \in Seq(Piece)
                                             /\ Finishes(page.text, events, w.final)
    <3>1. CASE ~ (Open' /\ page'.fit /\ page'.on # 0)
      BY <3>1 DEF ReadingInv
    <3>2. CASE Open' /\ page'.fit /\ page'.on # 0
      <4>1. Open /\ page'.on = i /\ page.on = i  BY <3>2, <1>1 DEF Open
      <4>2. w.at = "sending" => work'[i].at # "asking" /\ work'[i].final = w.final
        BY <1>4
      <4> QED  BY <4>1, <4>2, <1>4 DEF ReadingInv
    <3> QED  BY <3>1, <3>2
  <2>1. /\ page.cursor + Len(<< >>) = work[i].seq
        /\ Leads(page.text, << >>, Len(<< >>), Prefix(i, work[i].shown))
    <3>1. i # 0  BY TutorAssumption DEF Attempts
    <3> QED  BY <3>1, <1>1 DEF AnswerInv, ReadingInv
  <2>2. page.text \in Seq(Piece) /\ page.cursor \in Nat /\ << >> \in Seq(EventSet)
    BY <1>2 DEF PageSet
  <2>3. << >> \o events = events
    BY ConcatEmptySeq
  <2>4. page.cursor = work[i].seq
    BY <2>1, <2>2
  <2> QED  BY <2>1, <2>2, <2>3, <2>4
<1>11. CopyInv'
  <2> SUFFICES ASSUME Open, copy'[r] # None, Live(copy[r])'
               PROVE  LET c == copy'[r]
                          v == work'[c.epoch]
                          rest == Unread(c.events, v.seq, page.cursor)
                      IN  /\ \A j \in 1..Len(c.events) : c.events[j].id = v.seq - Len(c.events) + j
                          /\ page.cursor \in (v.seq - Len(c.events))..v.seq
                          /\ v.at = "asking" => /\ ~c.complete /\ v.on = r
                                                /\ Len(c.events) <= v.shown + 1
                                                /\ Leads(page.text, rest, Len(rest), Prefix(c.epoch, v.shown))
                          /\ c.complete => v.final \in Seq(Piece) /\ Finishes(page.text, rest, v.final)
                          /\ page.on # 0 => work'[page.on].todo = rest
    BY SMTT(30), <1>3 DEF CopyInv, Open
  <2> DEFINE c == copy[r]
             v == work[c.epoch]
             rest == Unread(c.events, v.seq, page.cursor)
  <2>1. c # None /\ c \in CopySet /\ c.epoch \in Attempts /\ copy'[r].epoch = c.epoch
    BY <1>2, <1>5 DEF CopySet
  <2>2. Live(c) =>
          /\ \A j \in 1..Len(c.events) : c.events[j].id = v.seq - Len(c.events) + j
          /\ page.cursor \in (v.seq - Len(c.events))..v.seq
          /\ v.at = "asking" => /\ ~c.complete /\ v.on = r
                                /\ Len(c.events) <= v.shown + 1
                                /\ Leads(page.text, rest, Len(rest), Prefix(c.epoch, v.shown))
          /\ c.complete => v.final \in Seq(Piece) /\ Finishes(page.text, rest, v.final)
          /\ page.on # 0 => work[page.on].todo = rest
    BY <1>1, <2>1 DEF AnswerInv, CopyInv
  <2>3. CASE c.epoch # i
    <3>1. copy'[r] = c /\ work'[c.epoch] = v /\ v.at # "asking"
      BY <2>1, <2>3, <1>1, <1>4, <1>5 DEF Runs
    <3>2. Live(c) /\ c.complete
      BY <3>1 DEF Live
    <3>3. page.on = 0
      <4> SUFFICES ASSUME page.on = i PROVE FALSE
          BY <1>1
      <4>1. i # 0  BY TutorAssumption DEF Attempts
      <4>2. rest = << >> /\ rest # << >>
        BY <4>1, <2>2, <3>2, <1>1 DEF Finishes
      <4> QED  BY <4>2
    <3>4. /\ \A j \in 1..Len(c.events) : c.events[j].id = v.seq - Len(c.events) + j
          /\ page.cursor \in (v.seq - Len(c.events))..v.seq
          /\ v.final \in Seq(Piece) /\ Finishes(page.text, rest, v.final)
      BY <2>2, <3>2
    <3> HIDE DEF c, v, rest
    <3>5. v.at # "asking" /\ work'[copy'[r].epoch] = v
      BY <3>1
    <3> QED  BY <3>1, <3>3, <3>4, <3>5 DEF rest
  <2>4. CASE c.epoch = i
    <3>1. Live(c) /\ v = work[i] /\ v.at = "asking" /\ work'[c.epoch] = w
      BY <2>4, <1>1, <1>4 DEF Live
    <3> HIDE DEF c, v, rest
    <3>2. /\ c.events \in Seq(EventSet) /\ Len(c.events) \in Nat /\ Len(events) \in Nat
          /\ v.seq \in Nat /\ v.shown \in Nat /\ page.cursor \in Nat /\ page.text \in Seq(Piece)
          /\ \A j \in 1..Len(c.events) : c.events[j].id = v.seq - Len(c.events) + j
      <4>1. c.events \in Seq(EventSet)  BY <2>1 DEF CopySet
      <4>2. v \in WorkSet  BY <1>1, <3>1
      <4>3. v.seq \in Nat /\ v.shown \in Nat  BY <4>2 DEF WorkSet
      <4>4. page.cursor \in Nat /\ page.text \in Seq(Piece)  BY <1>2 DEF PageSet
      <4>5. Len(events) \in Nat  BY <1>1
      <4>6. \A j \in 1..Len(c.events) : c.events[j].id = v.seq - Len(c.events) + j
        BY <2>2, <3>1
      <4> QED  BY <4>1, <4>3, <4>4, <4>5, <4>6
    <3>w. /\ w.seq = v.seq + Len(events) /\ w.on = r
          /\ w.at = "asking" => w.shown = v.shown + 1 /\ Len(events) = 1 /\ ~complete
      BY <1>1, <3>1
    <3>3. Len(c.events) <= v.shown + 1 /\ ~c.complete
      BY <2>2, <3>1
    <3>4. copy'[r] = [epoch |-> i, events |-> c.events \o events, complete |-> c.complete \/ complete]
      <4>1. Len(c.events) + Len(events) <= MaxEvents
        BY <3>1, <3>2, <3>3, TutorAssumption
      <4> QED  BY <4>1, <2>1, <2>4, <1>3, CopyIsExtended DEF c
    <3> DEFINE all == c.events \o events
    <3>5. copy'[r].events = all /\ copy'[r].complete = complete
      BY <3>3, <3>4, <2>1 DEF CopySet
    <3>6. all \in Seq(EventSet) /\ Len(all) = Len(c.events) + Len(events)
          /\ \A j \in 1..Len(all) : all[j] = IF j <= Len(c.events) THEN c.events[j] ELSE events[j - Len(c.events)]
      BY <3>2, ConcatProperties
    <3>7. /\ page.cursor \in (v.seq + Len(events) - Len(all))..(v.seq + Len(events))
          /\ Unread(all, v.seq + Len(events), page.cursor) = rest \o events
      <4>1. page.cursor \in (v.seq - Len(c.events))..v.seq  BY <2>2, <3>1
      <4> DEFINE evs == c.events
                 seq == v.seq
                 cursor == page.cursor
      <4>2. evs \in Seq(EventSet) /\ seq \in Nat /\ cursor \in Nat /\ cursor \in (seq - Len(evs))..seq
        BY <4>1, <3>2
      <4> HIDE DEF evs, seq, cursor
      <4>3. /\ cursor \in (seq + Len(events) - Len(evs \o events))..(seq + Len(events))
            /\ Unread(evs \o events, seq + Len(events), cursor) = Unread(evs, seq, cursor) \o events
        BY <4>2, UnreadGrows
      <4> QED  BY <4>3 DEF evs, seq, cursor, rest
    <3>8. rest \in Seq(EventSet)
      BY <2>2, <3>1, <3>2, UnreadEvents DEF rest
    <3>9. \A j \in 1..Len(all) : all[j].id = w.seq - Len(all) + j
      <4> HIDE DEF all
      <4> TAKE j \in 1..Len(all)
      <4>1. CASE j <= Len(c.events)
        <5>1. c.events[j].id = v.seq - Len(c.events) + j
          <6>1. j \in 1..Len(c.events)  BY <4>1, <3>2, <3>6
          <6> QED  BY <6>1, <3>2
        <5>2. all[j] = c.events[j] /\ w.seq - Len(all) = v.seq - Len(c.events)
          BY <4>1, <3>w, <3>2, <3>6
        <5> QED  BY <5>1, <5>2
      <4>2. CASE j > Len(c.events)
        <5> DEFINE k == j - Len(c.events)
        <5>1. k \in 1..Len(events) /\ ~ (j <= Len(c.events))
          BY <4>2, <3>2, <3>6
        <5>2. events[k].id = work[i].seq + k
          BY <5>1
        <5>3. work[i].seq + k = w.seq - Len(all) + j
          BY <3>w, <3>1, <3>2, <3>6
        <5>4. all[j] = events[k]
          BY <5>1, <3>6
        <5> QED  BY <5>2, <5>3, <5>4
      <4> QED  BY <4>1, <4>2, <3>2
    <3>10. page.on # 0 => work'[page.on].todo = rest \o events
      <4> HAVE page.on # 0
      <4>1. page.on = i /\ work'[page.on].todo = events /\ rest = << >>
        BY <1>1, <1>4, <2>2, <3>1
      <4> QED  BY <4>1, ConcatEmptySeq
    <3>11. Leads(page.text, rest, Len(rest), Prefix(i, work[i].shown))
      BY <2>2, <2>4, <3>1
    <3>12. /\ ~complete => Leads(page.text, rest \o events, Len(rest \o events), Prefix(i, w.shown))
           /\ complete => Finishes(page.text, rest \o events, w.final)
      BY <3>2, <3>8, <3>11
    <3>13. w.at = "asking" => Len(all) <= w.shown + 1 /\ ~complete
      <4> HAVE w.at = "asking"
      <4>1. w.shown = v.shown + 1 /\ Len(events) = 1 /\ ~complete  BY <3>w
      <4>2. Len(all) = Len(c.events) + Len(events)  BY <3>6
      <4> HIDE DEF all
      <4>3. Len(all) <= w.shown + 1  BY <4>1, <4>2, <3>2, <3>3
      <4> QED  BY <4>1, <4>3
    <3> DEFINE rest2 == Unread(all, w.seq, page.cursor)
    <3>14. rest2 = rest \o events /\ page.cursor \in (w.seq - Len(all))..w.seq
      <4>1. w.seq = v.seq + Len(events)  BY <3>w
      <4>2. v.seq \in Nat /\ Len(events) \in Nat  BY <3>2
      <4> HIDE DEF all
      <4>3. page.cursor \in (w.seq - Len(all))..w.seq  BY <4>1, <4>2, <3>2, <3>6, <3>7
      <4>4. Unread(all, w.seq, page.cursor) = rest \o events  BY <4>1, <3>7
      <4> QED  BY <4>3, <4>4
    <3>15. copy'[r].epoch = i /\ work'[i] = w
      BY <2>1, <2>4, <1>4
    <3> HIDE DEF all, rest2
    <3>16. w.at = "asking" => Leads(page.text, rest2, Len(rest2), Prefix(i, w.shown))
      BY <3>12, <3>13, <3>14
    <3>17. complete => w.final \in Seq(Piece) /\ Finishes(page.text, rest2, w.final)
      BY <3>12, <3>14
    <3>18. page.on # 0 => work'[page.on].todo = rest2
      BY <3>10, <3>14
    <3> QED  BY <3>w, <3>5, <3>9, <3>13, <3>14, <3>15, <3>16, <3>17, <3>18 DEF rest2
  <2> QED  BY <2>3, <2>4
<1> QED  BY <1>6, <1>7, <1>8, <1>9, <1>10, <1>11 DEF AnswerInv

LEMMA JoinedEvents ==
    ASSUME NEW evs \in Seq(EventSet), NEW new \in Seq(EventSet)
    PROVE  /\ evs \o new \in Seq(EventSet) /\ Len(evs \o new) = Len(evs) + Len(new)
           /\ Len(evs) \in Nat /\ Len(new) \in Nat
           /\ \A j \in 1..Len(evs) : (evs \o new)[j] = evs[j]
           /\ \A j \in 1..Len(new) : (evs \o new)[Len(evs) + j] = new[j]
<1> DEFINE n == Len(evs)
           k == Len(new)
           all == evs \o new
<1>1. /\ n \in Nat /\ k \in Nat /\ all \in Seq(EventSet) /\ Len(all) = n + k
      /\ \A j \in 1..(n + k) : all[j] = IF j <= n THEN evs[j] ELSE new[j - n]
  BY ConcatProperties
<1> HIDE DEF n, k, all
<1>2. \A j \in 1..n : all[j] = evs[j]
  BY <1>1
<1>3. \A j \in 1..k : all[n + j] = new[j]
  <2> TAKE j \in 1..k
  <2>1. n + j \in 1..(n + k) /\ ~ (n + j <= n) /\ (n + j) - n = j  BY <1>1
  <2> QED  BY <2>1, <1>1
<1> QED  BY <1>1, <1>2, <1>3 DEF n, k, all

LEMMA PrefixIsText ==
    ASSUME NEW i \in Attempts, NEW n \in 0..Parts
    PROVE  /\ Prefix(i, n) \in Seq(Piece) /\ Len(Prefix(i, n)) = n
           /\ \A j \in 1..n : Prefix(i, n)[j] = <<i, j>>
<1>1. n \in Nat /\ Parts \in Nat
  BY TutorAssumption
<1>2. \A j \in 1..n : <<i, j>> \in Piece
  BY <1>1 DEF Piece
<1>3. Prefix(i, n) \in Seq(Piece) /\ Len(Prefix(i, n)) = n
  BY <1>1, <1>2, IsASeq, LenProperties DEF Prefix
<1> QED  BY <1>3 DEF Prefix

\* The model's next part leads one part further.
LEMMA ShowPublishes ==
    ASSUME TutorType, NEW i \in Attempts, Show(i)
    PROVE  \E w \in WorkSet, events \in Seq(EventSet) : Publishes(i, w, events, FALSE)
<1> DEFINE v == work[i]
           n == v.shown
           parts == <<Token(i, n + 1)>>
           shown == Numbered(parts, v.seq)
           w == [v EXCEPT !.shown = @ + 1, !.seq = @ + 1, !.todo = shown]
<1>1. /\ Asking(i) /\ Runs(i) /\ v \in WorkSet /\ n < Parts /\ page' = page /\ v.at = "asking"
      /\ work' = [work EXCEPT ![i] = w] /\ Publish(i, shown, FALSE)
  BY DEF Show, Asking, Runs, TutorType
<1>2. n \in 0..Parts /\ n \in Nat /\ n + 1 \in 0..Parts /\ v.seq \in Nat /\ Parts \in Nat /\ MaxEvents \in Nat
  BY <1>1, TutorAssumption DEF WorkSet
<1>3. /\ Token(i, n + 1) \in EventSet /\ Token(i, n + 1).kind = "token"
      /\ Token(i, n + 1).text = <<<<i, n + 1>>>>
  BY <1>2 DEF Token, Event, EventSet, Piece
<1>4. parts \in Seq(EventSet) /\ Len(parts) = 1 /\ parts[1] = Token(i, n + 1)
  BY <1>3
<1>5. /\ shown \in Seq(EventSet) /\ Len(shown) = 1 /\ shown[1].id = v.seq + 1
      /\ shown[1].kind = "token" /\ shown[1].text = <<<<i, n + 1>>>>
  <2> HIDE DEF parts
  <2>1. /\ shown \in Seq(EventSet) /\ Len(shown) = Len(parts)
        /\ \A j \in 1..Len(parts) : /\ shown[j].id = v.seq + j /\ shown[j].kind = parts[j].kind
                                    /\ shown[j].text = parts[j].text
    BY <1>2, <1>4, EventsAreNumbered
  <2>2. 1 \in 1..Len(parts)  BY <1>4
  <2> HIDE DEF shown
  <2> QED  BY <2>1, <2>2, <1>3, <1>4
<1> HIDE DEF shown, parts
<1>6. /\ w \in WorkSet /\ w.on = v.on /\ w.todo = shown /\ w.seq = v.seq + 1 /\ w.at = "asking"
      /\ w.shown = n + 1
  <2>1. v \in WorkSet /\ v.at = "asking" /\ v.shown + 1 \in 0..Parts /\ v.seq + 1 \in Nat
    BY <1>1, <1>2
  <2> HIDE DEF v
  <2>2. w.on = v.on /\ w.todo = shown /\ w.seq = v.seq + 1 /\ w.at = "asking" /\ w.shown = v.shown + 1
    BY <2>1 DEF WorkSet
  <2>3. w \in WorkSet
    BY <2>1, <1>5 DEF WorkSet
  <2> QED  BY <2>2, <2>3
<1> HIDE DEF w
<1>7. ASSUME NEW text \in Seq(Piece), NEW evs \in Seq(EventSet),
             Leads(text, evs, Len(evs), Prefix(i, n))
      PROVE  Leads(text, evs \o shown, Len(evs \o shown), Prefix(i, n + 1))
  <2>1. /\ Prefix(i, n) \in Seq(Piece) /\ Len(Prefix(i, n)) = n
        /\ Prefix(i, n + 1) \in Seq(Piece) /\ Len(Prefix(i, n + 1)) = n + 1
        /\ \A j \in 1..n : Prefix(i, n)[j] = Prefix(i, n + 1)[j]
        /\ Prefix(i, n + 1)[n + 1] = <<i, n + 1>>
    <3>1. /\ \A j \in 1..(n + 1) : Prefix(i, n + 1)[j] = <<i, j>>
          /\ \A j \in 1..n : Prefix(i, n)[j] = <<i, j>>
          /\ Prefix(i, n) \in Seq(Piece) /\ Len(Prefix(i, n)) = n
          /\ Prefix(i, n + 1) \in Seq(Piece) /\ Len(Prefix(i, n + 1)) = n + 1
      BY <1>2, PrefixIsText
    <3>2. n + 1 \in 1..(n + 1) /\ \A j \in 1..n : j \in 1..(n + 1)
      BY <1>2
    <3> QED  BY <3>1, <3>2
  <2>2. /\ Len(evs \o shown) = Len(evs) + 1 /\ Len(evs) \in Nat
        /\ \A j \in 1..Len(evs) : (evs \o shown)[j] = evs[j]
        /\ (evs \o shown)[Len(evs) + 1] = shown[1]
    BY SMTT(30), <1>5, JoinedEvents
  <2> DEFINE all == evs \o shown
  <2> HIDE DEF all
  <2>3. \A j \in 1..1 : /\ all[Len(evs) + j].kind = "token"
                        /\ all[Len(evs) + j].text = <<Prefix(i, n + 1)[Len(Prefix(i, n)) + j]>>
    <3> TAKE j \in 1..1
    <3>1. j = 1  OBVIOUS
    <3> QED  BY <3>1, <2>1, <2>2, <1>5 DEF all
  <2>4. Leads(text, all, Len(evs) + 1, Prefix(i, n + 1))
    <3>1. \A j \in 1..Len(evs) : all[j] = evs[j]  BY <2>2 DEF all
    <3> DEFINE goal == Prefix(i, n)
               goal2 == Prefix(i, n + 1)
               m == Len(evs)
    <3>2. /\ goal \in Seq(Piece) /\ goal2 \in Seq(Piece) /\ Len(goal2) = Len(goal) + 1
          /\ m \in Nat /\ 1 \in Nat
          /\ \A j \in 1..Len(goal) : goal2[j] = goal[j]
          /\ \A j \in 1..m : all[j] = evs[j]
          /\ \A j \in 1..1 : all[m + j].kind = "token" /\ all[m + j].text = <<goal2[Len(goal) + j]>>
          /\ Leads(text, evs, m, goal)
      BY <2>1, <2>2, <2>3, <3>1, <1>7
    <3> HIDE DEF goal, goal2, m
    <3>3. Leads(text, all, m + 1, goal2)
      BY <3>2, LeadsFurther
    <3> QED  BY <3>3 DEF m, goal2
  <2> QED  BY <2>2, <2>4 DEF all
<1>8. \A j \in 1..Len(shown) : shown[j].id = v.seq + j
  <2> TAKE j \in 1..Len(shown)
  <2>1. j = 1  BY <1>5
  <2> QED  BY <2>1, <1>5
<1>9. n + 1 + Len(shown) <= MaxEvents
  BY <1>2, <1>5, TutorAssumption
<1>10. w.seq = v.seq + Len(shown)
  BY <1>5, <1>6
<1>11. Publishes(i, w, shown, FALSE)
  <2> HIDE DEF v, n
  <2> QED  BY <1>1, <1>5, <1>6, <1>7, <1>8, <1>9, <1>10 DEF Publishes, v, n
<1> QED  BY <1>5, <1>6, <1>11

LEMMA TwoEvents ==
    ASSUME NEW a \in EventSet, NEW b \in EventSet
    PROVE  <<a>> \o <<b>> = <<a, b>>
<1> DEFINE x == <<a>>
           y == <<b>>
           z == <<a, b>>
<1>1. /\ x \in Seq(EventSet) /\ y \in Seq(EventSet) /\ z \in Seq(EventSet)
      /\ Len(x) = 1 /\ Len(y) = 1 /\ Len(z) = 2 /\ z[1] = a /\ z[2] = b /\ x[1] = a /\ y[1] = b
  OBVIOUS
<1> HIDE DEF x, y, z
<1>2. /\ x \o y \in Seq(EventSet) /\ Len(x \o y) = 2
      /\ (x \o y)[1] = a /\ (x \o y)[2] = b
  <2> DEFINE all == x \o y
  <2>1. /\ all \in Seq(EventSet) /\ Len(all) = Len(x) + Len(y)
        /\ \A j \in 1..Len(x) : all[j] = x[j]
        /\ \A j \in 1..Len(y) : all[Len(x) + j] = y[j]
    <3>1. x \in Seq(EventSet) /\ y \in Seq(EventSet)
      BY <1>1
    <3> QED  BY <3>1, JoinedEvents
  <2> HIDE DEF all
  <2>2. 1 \in 1..1 /\ 1 + 1 = 2  OBVIOUS
  <2>3. all[1] = a /\ all[1 + 1] = b
    BY <1>1, <2>1, <2>2
  <2>4. all \in Seq(EventSet) /\ Len(all) = 2 /\ all[1] = a /\ all[2] = b
    BY <1>1, <2>1, <2>2, <2>3
  <2> QED  BY <2>4 DEF all
<1>3. \A j \in 1..2 : j = 1 \/ j = 2
  OBVIOUS
<1>4. x \o y = z
  BY <1>1, <1>2, <1>3, SeqEqual
<1> QED  BY <1>4 DEF x, y, z

\* What a finished generation still publishes leads to its whole answer: the
\* parts not shown, or a reset where something was shown and the replacement.
Goal(i, replaced) == IF replaced THEN Replacement(i) ELSE Whole(i)

LEMMA RemainderIsShort ==
    ASSUME NEW i \in Attempts, NEW v \in WorkSet, NEW replaced \in BOOLEAN
    PROVE  /\ Remainder(i, v, replaced) \in Seq(EventSet) /\ Goal(i, replaced) \in Seq(Piece)
           /\ v.shown + Len(Remainder(i, v, replaced)) + 2 <= Parts + 4
<1> DEFINE n == v.shown
           reset == Event("reset", << >>)
           rest == Remainder(i, v, replaced)
<1>1. n \in 0..Parts /\ n \in Nat /\ Parts \in Nat /\ Parts \in 0..Parts /\ 0 \in 0..Parts
  BY TutorAssumption DEF WorkSet
<1>2. reset \in EventSet /\ \A m \in 0..Parts : Token(i, m) \in EventSet
  BY DEF Token, Event, EventSet, Piece
<1> HIDE DEF n, reset
<1>3. CASE replaced
  <2>1. rest = (IF n = 0 THEN << >> ELSE <<reset>>) \o <<Token(i, 0)>>
    BY <1>3 DEF Remainder, n, reset
  <2>2. Token(i, 0) \in EventSet  BY <1>1, <1>2
  <2>3. (IF n = 0 THEN << >> ELSE <<reset>>) \o <<Token(i, 0)>>
          = IF n = 0 THEN <<Token(i, 0)>> ELSE <<reset, Token(i, 0)>>
    <3>1. << >> \o <<Token(i, 0)>> = <<Token(i, 0)>>
      BY <2>2, ConcatEmptySeq
    <3>2. <<reset>> \o <<Token(i, 0)>> = <<reset, Token(i, 0)>>
      BY <1>2, <2>2, TwoEvents
    <3> QED  BY <3>1, <3>2
  <2>4. <<Token(i, 0)>> \in Seq(EventSet) /\ <<reset, Token(i, 0)>> \in Seq(EventSet)
        /\ Len(<<Token(i, 0)>>) = 1 /\ Len(<<reset, Token(i, 0)>>) = 2
    BY <1>2, <2>2
  <2>5. rest \in Seq(EventSet) /\ Len(rest) \in Nat /\ Len(rest) <= 2
    BY <2>1, <2>3, <2>4
  <2>6. Goal(i, replaced) \in Seq(Piece)
    <3>1. <<i, 0>> \in Piece  BY <1>1 DEF Piece
    <3> QED  BY <3>1, <1>3 DEF Goal, Replacement
  <2> HIDE DEF rest
  <2>7. n + Len(rest) + 2 <= Parts + 4
    BY <1>1, <2>5
  <2> QED  BY <2>5, <2>6, <2>7 DEF rest, n
<1>4. CASE ~replaced
  <2>1. rest = [m \in 1..(Parts - n) |-> Token(i, n + m)]
    BY <1>4 DEF Remainder, n
  <2>2. Parts - n \in Nat /\ \A m \in 1..(Parts - n) : n + m \in 0..Parts
    BY <1>1
  <2>3. rest \in Seq(EventSet) /\ Len(rest) = Parts - n
    BY <1>2, <2>1, <2>2, IsASeq, LenProperties
  <2>4. Goal(i, replaced) \in Seq(Piece)
    <3>1. Goal(i, replaced) = Prefix(i, Parts)
      BY <1>4 DEF Goal, Whole, Prefix
    <3> QED  BY <3>1, <1>1, PrefixIsText
  <2> HIDE DEF rest
  <2>5. n + Len(rest) + 2 <= Parts + 4
    BY <1>1, <2>2, <2>3
  <2> QED  BY <2>3, <2>4, <2>5 DEF rest, n
<1> QED  BY <1>3, <1>4

LEMMA RemainderLeads ==
    ASSUME NEW i \in Attempts, NEW v \in WorkSet, NEW replaced \in BOOLEAN,
           NEW text \in Seq(Piece), NEW evs, NEW m \in Nat, Leads(text, evs, m, Prefix(i, v.shown)),
           NEW evs2, \A j \in 1..m : evs2[j] = evs[j],
           \A j \in 1..Len(Remainder(i, v, replaced)) :
              /\ evs2[m + j].kind = Remainder(i, v, replaced)[j].kind
              /\ evs2[m + j].text = Remainder(i, v, replaced)[j].text
    PROVE  Leads(text, evs2, m + Len(Remainder(i, v, replaced)), Goal(i, replaced))
<1> DEFINE n == v.shown
           reset == Event("reset", << >>)
           rest == Remainder(i, v, replaced)
           goal == Prefix(i, n)
           goal2 == Goal(i, replaced)
<1>1. n \in 0..Parts /\ n \in Nat /\ Parts \in Nat /\ Parts \in 0..Parts /\ 0 \in 0..Parts
  BY TutorAssumption DEF WorkSet
<1>2. /\ reset.kind = "reset"
      /\ \A k \in 0..Parts : Token(i, k).kind = "token" /\ Token(i, k).text = <<<<i, k>>>>
  BY DEF Token, Event
<1>3. goal \in Seq(Piece) /\ Len(goal) = n /\ \A j \in 1..n : goal[j] = <<i, j>>
  BY <1>1, PrefixIsText
<1>4. goal2 \in Seq(Piece) /\ rest \in Seq(EventSet)
  BY RemainderIsShort
<1>5. \A j \in 1..Len(rest) : evs2[m + j].kind = rest[j].kind /\ evs2[m + j].text = rest[j].text
  OBVIOUS
<1>6. Leads(text, evs, m, goal)
  OBVIOUS
<1> HIDE DEF goal, reset, rest, goal2, n
<1>7. CASE ~replaced
  <2>1. rest = [k \in 1..(Parts - n) |-> Token(i, n + k)] /\ Len(rest) = Parts - n
    <3>1. rest = [k \in 1..(Parts - n) |-> Token(i, n + k)]
      BY <1>7 DEF Remainder, n, rest
    <3>2. Parts - n \in Nat  BY <1>1
    <3> QED  BY <3>1, <3>2, <1>4, LenProperties
  <2>2. goal2 = Prefix(i, Parts) /\ Len(goal2) = Parts /\ \A j \in 1..Parts : goal2[j] = <<i, j>>
    <3>1. goal2 = Prefix(i, Parts)
      BY <1>7 DEF Goal, Whole, Prefix, goal2
    <3> QED  BY <3>1, <1>1, PrefixIsText
  <2>3. Len(rest) \in Nat /\ Len(goal2) = Len(goal) + Len(rest) /\ \A j \in 1..Len(goal) : goal2[j] = goal[j]
    <3>1. \A j \in 1..n : j \in 1..Parts  BY <1>1
    <3>2. \A j \in 1..Len(goal) : goal2[j] = goal[j]  BY <3>1, <1>3, <2>2
    <3>3. Parts - n \in Nat /\ Parts = n + (Parts - n)  BY <1>1
    <3> QED  BY <3>2, <3>3, <1>3, <2>1, <2>2
  <2>4. \A j \in 1..Len(rest) : evs2[m + j].kind = "token" /\ evs2[m + j].text = <<goal2[Len(goal) + j]>>
    <3> TAKE j \in 1..Len(rest)
    <3>1. j \in 1..(Parts - n) /\ n + j \in 1..Parts /\ n + j \in 0..Parts
      BY <1>1, <2>1
    <3>2. rest[j] = Token(i, n + j) /\ goal2[n + j] = <<i, n + j>>
      BY <3>1, <2>1, <2>2
    <3>3. rest[j].kind = "token" /\ rest[j].text = <<goal2[n + j]>>
      BY <3>1, <3>2, <1>2
    <3> QED  BY <3>3, <1>3, <1>5
  <2>5. Leads(text, evs2, m + Len(rest), goal2)
    BY <1>3, <1>4, <1>6, <2>3, <2>4, LeadsFurther
  <2> QED  BY <2>5 DEF rest, goal2
<1>8. CASE replaced
  <2>1. rest = (IF n = 0 THEN << >> ELSE <<reset>>) \o <<Token(i, 0)>>
    BY <1>8 DEF Remainder, n, reset, rest
  <2>2. goal2 = <<<<i, 0>>>> /\ Len(goal2) = 1 /\ goal2[1] = <<i, 0>>
    BY <1>8 DEF goal2, Goal, Replacement
  <2>3. Token(i, 0).kind = "token" /\ Token(i, 0).text = <<<<i, 0>>>> /\ Token(i, 0) \in EventSet
        /\ reset \in EventSet
    BY <1>1 DEF Token, Event, EventSet, Piece, reset
  <2>4. CASE n = 0
    <3>1. rest = <<Token(i, 0)>>
      BY <2>1, <2>3, <2>4, ConcatEmptySeq
    <3>2. Len(rest) = 1 /\ rest[1] = Token(i, 0)
      BY <3>1
    <3>3. evs2[m + 1].kind = "token" /\ evs2[m + 1].text = <<goal2[1]>>
      BY <3>2, <1>5, <2>2, <2>3
    <3>4. /\ Len(goal2) = Len(goal) + 1 /\ 1 \in Nat
          /\ \A j \in 1..Len(goal) : goal2[j] = goal[j]
          /\ \A j \in 1..1 : evs2[m + j].kind = "token" /\ evs2[m + j].text = <<goal2[Len(goal) + j]>>
      <4>1. Len(goal) = 0  BY <1>3, <2>4
      <4>2. \A j \in 1..1 : j = 1 /\ Len(goal) + j = 1  BY <4>1
      <4>3. \A j \in 1..Len(goal) : FALSE  BY <4>1
      <4> QED  BY <3>3, <4>1, <4>2, <4>3, <2>2
    <3> DEFINE one == 1
    <3>5. /\ one \in Nat /\ Len(goal2) = Len(goal) + one
          /\ \A j \in 1..one : evs2[m + j].kind = "token" /\ evs2[m + j].text = <<goal2[Len(goal) + j]>>
      BY <3>4
    <3> HIDE DEF one
    <3>6. Leads(text, evs2, m + one, goal2)
      <4>1. goal \in Seq(Piece) /\ goal2 \in Seq(Piece)  BY <1>3, <1>4
      <4> QED  BY ZenonT(30), <4>1, <1>6, <3>4, <3>5, LeadsFurther
    <3> QED  BY <3>2, <3>6 DEF rest, goal2, one
  <2>5. CASE n # 0
    <3>1. rest = <<reset, Token(i, 0)>>
      BY <2>1, <2>3, <2>5, TwoEvents
    <3>2. Len(rest) = 2 /\ rest[1] = reset /\ rest[2] = Token(i, 0)
      BY <3>1
    <3>3. evs2[m + 1].kind = "reset" /\ evs2[m + 2].kind = "token" /\ evs2[m + 2].text = <<goal2[1]>>
      BY <3>2, <1>2, <1>5, <2>2, <2>3
    <3>4. Leads(text, evs2, m + 1, << >>)
      BY <1>6, <3>3, LeadsBack
    <3> DEFINE m1 == m + 1
               none == << >>
    <3>5. /\ none \in Seq(Piece) /\ m1 \in Nat /\ 1 \in Nat /\ Len(goal2) = Len(none) + 1
          /\ m1 + 1 = m + 2 /\ \A j \in 1..Len(none) : goal2[j] = none[j]
          /\ \A j \in 1..1 : evs2[m1 + j].kind = "token" /\ evs2[m1 + j].text = <<goal2[Len(none) + j]>>
      <4>1. m1 + 1 = m + 2 /\ Len(none) = 0 /\ none \in Seq(Piece) /\ m1 \in Nat  OBVIOUS
      <4> HIDE DEF m1, none
      <4>2. \A j \in 1..1 : j = 1 /\ m1 + j = m + 2 /\ Len(none) + j = 1  BY <4>1
      <4>3. \A j \in 1..Len(none) : FALSE  BY <4>1
      <4> QED  BY <4>1, <4>2, <4>3, <3>3, <2>2
    <3>6. Leads(text, evs2, m1, none)  BY <3>4
    <3> HIDE DEF m1, none
    <3>7. \A j \in 1..m1 : evs2[j] = evs2[j]  OBVIOUS
    <3>8. Leads(text, evs2, m1 + 1, goal2)
      BY <1>4, <3>5, <3>6, <3>7, LeadsFurther
    <3> QED  BY <3>2, <3>5, <3>8 DEF rest, goal2
  <2> QED  BY <2>4, <2>5
<1> QED  BY <1>7, <1>8
LEMMA FinishPublishes ==
    ASSUME TutorType, NEW i \in Attempts, NEW replaced \in BOOLEAN,
           NEW keep \in BOOLEAN, NEW result, Finish(i, replaced, keep, result)
    PROVE  \E w \in WorkSet, events \in Seq(EventSet) : Publishes(i, w, events, TRUE)
<1> DEFINE v == work[i]
           n == v.shown
           rest == Remainder(i, v, replaced)
           done == Event("done", << >>)
           last == rest \o <<done>>
           terminal == Numbered(last, v.seq)
           goal == Goal(i, replaced)
           w == [v EXCEPT !.at = "sending", !.todo = terminal, !.seq = @ + Len(terminal),
                          !.final = goal, !.saved = keep /\ result = "all"]
<1>1. /\ Asking(i) /\ page' = page /\ v \in WorkSet
      /\ work' = [work EXCEPT ![i] = w] /\ Publish(i, terminal, TRUE)
  BY DEF Finish, TutorType, Goal
<1>2. n \in 0..Parts /\ n \in Nat /\ v.seq \in Nat /\ Parts \in Nat /\ MaxEvents \in Nat
      /\ MaxEvents >= Parts + 4
  BY <1>1, TutorAssumption DEF WorkSet
<1>3. rest \in Seq(EventSet) /\ goal \in Seq(Piece) /\ n + Len(rest) + 2 <= Parts + 4
  BY <1>1, RemainderIsShort
<1>4. done \in EventSet /\ done.kind = "done" /\ <<done>> \in Seq(EventSet) /\ Len(<<done>>) = 1
  BY DEF Event, EventSet
<1>5. /\ last \in Seq(EventSet) /\ Len(last) = Len(rest) + 1 /\ Len(rest) \in Nat
      /\ \A j \in 1..Len(rest) : last[j] = rest[j]
      /\ last[Len(rest) + 1] = done
  <2> DEFINE end == <<done>>
  <2>1. end \in Seq(EventSet) /\ Len(end) = 1 /\ end[1] = done /\ 1 \in 1..1
    BY <1>4
  <2> HIDE DEF rest, done, end
  <2> QED  BY <1>3, <2>1, JoinedEvents DEF end
<1> HIDE DEF rest, goal, last, done
<1>6. /\ terminal \in Seq(EventSet) /\ Len(terminal) = Len(rest) + 1
      /\ \A j \in 1..Len(terminal) : terminal[j].id = v.seq + j
      /\ \A j \in 1..Len(rest) : terminal[j].kind = rest[j].kind /\ terminal[j].text = rest[j].text
      /\ terminal[Len(rest) + 1].kind = "done"
  <2>1. /\ terminal \in Seq(EventSet) /\ Len(terminal) = Len(last)
        /\ \A j \in 1..Len(last) : /\ terminal[j].id = v.seq + j /\ terminal[j].kind = last[j].kind
                                   /\ terminal[j].text = last[j].text
    BY <1>2, <1>5, EventsAreNumbered
  <2>2. Len(rest) + 1 \in 1..Len(last) /\ \A j \in 1..Len(rest) : j \in 1..Len(last)
    BY <1>5
  <2> HIDE DEF terminal
  <2> QED  BY <2>1, <2>2, <1>4, <1>5
<1> HIDE DEF terminal
<1>7. /\ w \in WorkSet /\ w.on = v.on /\ w.todo = terminal /\ w.seq = v.seq + Len(terminal)
      /\ w.at = "sending" /\ w.final = goal
  <2>1. v \in WorkSet /\ v.seq + Len(terminal) \in Nat /\ (keep /\ result = "all") \in BOOLEAN
    BY <1>1, <1>2, <1>6
  <2> DEFINE saved == keep /\ result = "all"
  <2> HIDE DEF v, saved
  <2>2. /\ w.on = v.on /\ w.todo = terminal /\ w.seq = v.seq + Len(terminal)
        /\ w.at = "sending" /\ w.final = goal
    BY <2>1 DEF WorkSet
  <2>3. w \in WorkSet
    BY <2>1, <1>3, <1>6 DEF WorkSet, saved
  <2> QED  BY <2>2, <2>3
<1> HIDE DEF w
<1>8. ASSUME NEW text \in Seq(Piece), NEW evs \in Seq(EventSet),
             Leads(text, evs, Len(evs), Prefix(i, n))
      PROVE  Finishes(text, evs \o terminal, w.final)
  <2> DEFINE all == evs \o terminal
             m == Len(evs)
             k == Len(rest)
  <2>1. /\ all \in Seq(EventSet) /\ Len(all) = m + (k + 1) /\ m \in Nat /\ k \in Nat
        /\ \A j \in 1..m : all[j] = evs[j]
        /\ \A j \in 1..(k + 1) : all[m + j] = terminal[j]
    <3>1. /\ all \in Seq(EventSet) /\ Len(all) = Len(evs) + Len(terminal) /\ Len(evs) \in Nat
          /\ \A j \in 1..Len(evs) : all[j] = evs[j]
          /\ \A j \in 1..Len(terminal) : all[Len(evs) + j] = terminal[j]
      BY <1>6, JoinedEvents
    <3>2. Len(terminal) = k + 1 /\ k \in Nat
      BY <1>5, <1>6
    <3> HIDE DEF all, k
    <3> QED  BY <3>1, <3>2
  <2> HIDE DEF all
  <2>2. /\ \A j \in 1..k : all[m + j].kind = rest[j].kind /\ all[m + j].text = rest[j].text
        /\ all[m + (k + 1)].kind = "done"
    <3>1. k + 1 \in 1..(k + 1) /\ \A j \in 1..k : j \in 1..(k + 1)
      BY <2>1
    <3> QED  BY <3>1, <2>1, <1>6
  <2>3. Leads(text, all, m + k, goal)
    <3>1. v \in WorkSet /\ m \in Nat /\ Leads(text, evs, m, Prefix(i, v.shown))
      BY <1>1, <1>8, <2>1
    <3> DEFINE remainder == Remainder(i, v, replaced)
    <3>2. k = Len(remainder)  BY DEF rest
    <3>3. \A j \in 1..Len(remainder) : all[m + j].kind = remainder[j].kind /\ all[m + j].text = remainder[j].text
      BY <2>2 DEF rest
    <3>4. \A j \in 1..m : all[j] = evs[j]  BY <2>1
    <3> HIDE DEF m, k, v
    <3>5. Leads(text, all, m + Len(remainder), Goal(i, replaced))
      BY <3>1, <3>3, <3>4, RemainderLeads
    <3> QED  BY <3>2, <3>5 DEF goal
  <2>4. all # << >> /\ Len(all) - 1 = m + k
    BY <2>1
  <2> HIDE DEF m, k
  <2>5. Finishes(text, all, goal)
    BY <2>1, <2>2, <2>3, <2>4 DEF Finishes
  <2> QED  BY <2>5, <1>7 DEF all
<1>9. n + 1 + Len(terminal) <= MaxEvents
  <2> DEFINE l == Len(rest)
  <2>1. l \in Nat /\ n + l + 2 <= Parts + 4 /\ Len(terminal) = l + 1  BY <1>3, <1>5, <1>6
  <2> HIDE DEF l, n
  <2> QED  BY <2>1, <1>2
<1>10. Publishes(i, w, terminal, TRUE)
  BY <1>1, <1>3, <1>6, <1>7, <1>8, <1>9 DEF Publishes
<1> QED  BY <1>6, <1>7, <1>10
\* What a page does with an event.
LEMMA ReceivedEvent ==
    ASSUME page \in PageSet, NEW e \in EventSet
    PROVE  /\ Received(page, e) \in PageSet /\ Received(page, e).cursor = e.id
           /\ Received(page, e).tries = page.tries /\ Received(page, e).fit = page.fit
           /\ e.kind \in {"token", "reset"} =>
                 /\ Received(page, e).text = After(page.text, e)
                 /\ Received(page, e).status = page.status /\ Received(page, e).on = page.on
           /\ e.kind \in {"done", "error"} =>
                 /\ Received(page, e).text = page.text /\ Received(page, e).on = 0
           /\ e.kind = "done" => Received(page, e).status = "complete"
           /\ e.kind = "error" => Received(page, e).status = "error"
<1>1. /\ e.id \in Nat /\ e.text \in Seq(Piece) /\ e.kind \in {"token", "reset", "done", "error"}
      /\ 0 \in 0..Tries /\ page.text \in Seq(Piece) /\ << >> \in Seq(Piece)
  BY TutorAssumption DEF EventSet, PageSet
<1>2. page.text \o e.text \in Seq(Piece)
  BY <1>1, ConcatProperties
<1> DEFINE text == page.text \o e.text
           none == << >>
<1>3. text \in Seq(Piece) /\ none \in Seq(Piece)
  BY <1>1, <1>2
<1>4. CASE e.kind = "token"
  <2>1. Received(page, e) = [page EXCEPT !.cursor = e.id, !.text = text]
    BY <1>4 DEF Received, PageSet
  <2>2. After(page.text, e) = text
    BY <1>4 DEF After
  <2> HIDE DEF text
  <2> QED  BY <2>1, <2>2, <1>1, <1>3, <1>4 DEF PageSet
<1>5. CASE e.kind = "reset"
  <2>1. Received(page, e) = [page EXCEPT !.cursor = e.id, !.text = none]
    BY <1>5 DEF Received, PageSet
  <2>2. After(page.text, e) = none
    BY <1>5 DEF After
  <2> HIDE DEF none
  <2> QED  BY <2>1, <2>2, <1>1, <1>3, <1>5 DEF PageSet
<1>6. CASE e.kind = "done"
  <2>1. Received(page, e) = [page EXCEPT !.cursor = e.id, !.status = "complete", !.on = 0]
    BY <1>6 DEF Received, PageSet
  <2> QED  BY <2>1, <1>1, <1>6 DEF PageSet
<1>7. CASE e.kind = "error"
  <2>1. Received(page, e) = [page EXCEPT !.cursor = e.id, !.status = "error", !.on = 0]
    BY <1>7 DEF Received, PageSet
  <2> QED  BY <2>1, <1>1, <1>7 DEF PageSet
<1> QED  BY <1>1, <1>4, <1>5, <1>6, <1>7

\* A handler sends the first of its events.
LEMMA SentOn ==
    ASSUME AnswerInv, NEW r \in Replicas, Alone(r), NEW i \in Attempts, Send(i)
    PROVE  /\ Runs(i) /\ work[i] \in WorkSet /\ page.on \in {0, i} /\ copy' = copy
           /\ work[i].todo # << >> /\ work[i].todo \in Seq(EventSet)
           /\ work' \in [Attempts -> WorkSet] /\ work'[i].todo = Tail(work[i].todo)
           /\ Len(work'[i].todo) = Len(work[i].todo) - 1
           /\ \A k \in 1..Len(work'[i].todo) : /\ k + 1 \in 1..Len(work[i].todo)
                                               /\ work'[i].todo[k] = work[i].todo[k + 1]
           /\ \A j \in Attempts \ {i} : work'[j] = work[j]
           /\ \A j \in Attempts : /\ work'[j].at = work[j].at /\ work'[j].on = work[j].on
                                  /\ work'[j].seq = work[j].seq /\ work'[j].shown = work[j].shown
                                  /\ work'[j].final = work[j].final /\ (Runs(j)' <=> Runs(j))
<1> DEFINE w == [work[i] EXCEPT !.todo = Tail(@)]
<1>1. /\ Runs(i) /\ work[i].todo # << >> /\ copy' = copy
      /\ work[i] \in WorkSet /\ page.on \in {0, i} /\ work \in [Attempts -> WorkSet]
      /\ work' = [work EXCEPT ![i] = w]
  <2>1. work' = [work EXCEPT ![i].todo = Tail(@)] /\ work \in [Attempts -> WorkSet]
    BY DEF Send, AnswerInv, TutorType
  <2> QED  BY <2>1, AtWork DEF Send
<1>2. work[i].todo \in Seq(EventSet)
  BY <1>1 DEF WorkSet
<1>3. /\ w \in WorkSet /\ w.at = work[i].at /\ w.on = work[i].on /\ w.seq = work[i].seq
      /\ w.shown = work[i].shown /\ w.final = work[i].final /\ w.todo = Tail(work[i].todo)
  <2>1. Tail(work[i].todo) \in Seq(EventSet)
    BY <1>1, <1>2, HeadTailProperties
  <2> QED  BY <2>1, <1>1 DEF WorkSet
<1>4. Len(w.todo) = Len(work[i].todo) - 1
      /\ \A k \in 1..Len(w.todo) : k + 1 \in 1..Len(work[i].todo) /\ w.todo[k] = work[i].todo[k + 1]
  <2> DEFINE q == work[i].todo
  <2>1. Len(Tail(q)) = Len(q) - 1 /\ Len(q) \in Nat /\ \A j \in 1..(Len(q) - 1) : Tail(q)[j] = q[j + 1]
    BY <1>1, <1>2, HeadTailProperties
  <2> HIDE DEF q, w
  <2> QED  BY <2>1, <1>3 DEF q
<1> HIDE DEF w
<1>5. work'[i] = w /\ \A j \in Attempts \ {i} : work'[j] = work[j]
  BY <1>1
<1> QED  BY <1>1, <1>2, <1>3, <1>4, <1>5 DEF Runs

LEMMA SentEventsFit ==
    ASSUME AnswerInv, NEW r \in Replicas, Alone(r), NEW i \in Attempts, Send(i), ~page.fit
    PROVE  /\ page.status # "complete" /\ work[i].todo[1].kind # "done"
           /\ \A j \in Attempts : /\ work'[j].at # "asking"
                                  /\ \A k \in 1..Len(work'[j].todo) : work'[j].todo[k].kind # "done"
           /\ \A q \in Replicas : copy'[q] # None =>
                 \A j \in 1..Len(copy'[q].events) : copy'[q].events[j].kind # "done"
<1>1. /\ page.status # "complete"
      /\ \A j \in Attempts : /\ work[j].at # "asking"
                             /\ \A k \in 1..Len(work[j].todo) : work[j].todo[k].kind # "done"
      /\ \A q \in Replicas : copy[q] # None =>
            \A j \in 1..Len(copy[q].events) : copy[q].events[j].kind # "done"
  BY DEF AnswerInv, UnfitInv
<1>2. /\ copy' = copy /\ work[i].todo # << >> /\ work[i].todo \in Seq(EventSet)
      /\ \A k \in 1..Len(work'[i].todo) : /\ k + 1 \in 1..Len(work[i].todo)
                                          /\ work'[i].todo[k] = work[i].todo[k + 1]
      /\ \A j \in Attempts \ {i} : work'[j] = work[j]
      /\ \A j \in Attempts : work'[j].at = work[j].at
  BY SentOn
<1>3. 1 \in 1..Len(work[i].todo)
  BY <1>2
<1>4. \A j \in Attempts : \A k \in 1..Len(work'[j].todo) : work'[j].todo[k].kind # "done"
  <2> TAKE j \in Attempts
  <2>1. CASE j = i  BY <2>1, <1>1, <1>2
  <2>2. CASE j # i  BY <2>2, <1>1, <1>2
  <2> QED  BY <2>1, <2>2
<1> QED  BY <1>1, <1>2, <1>3, <1>4

\* An event is sent to a page that no longer reads.
LEMMA SendToNobody ==
    ASSUME AnswerInv, NEW r \in Replicas, Alone(r), NEW i \in Attempts, Send(i), page.on # i
    PROVE  AnswerInv'
<1>1. page' = page /\ page.on = 0
  BY SentOn DEF Send
<1>2. /\ Runs(i) /\ copy' = copy /\ work' \in [Attempts -> WorkSet]
      /\ \A k \in 1..Len(work'[i].todo) : /\ k + 1 \in 1..Len(work[i].todo)
                                          /\ work'[i].todo[k] = work[i].todo[k + 1]
      /\ \A j \in Attempts \ {i} : work'[j] = work[j]
      /\ \A j \in Attempts : /\ work'[j].at = work[j].at /\ work'[j].on = work[j].on
                             /\ work'[j].seq = work[j].seq /\ work'[j].shown = work[j].shown
                             /\ work'[j].final = work[j].final /\ (Runs(j)' <=> Runs(j))
  BY SentOn
<1>3. TutorType'
  BY <1>1, <1>2 DEF AnswerInv, TutorType
<1>4. HandlersInv'
  <2>1. page.status # "idle"
    <3>1. NoWork.at = "none"  BY DEF NoWork
    <3> QED  BY <3>1, <1>2 DEF AnswerInv, HandlersInv, Runs
  <2> QED  BY <2>1, <1>1, <1>2 DEF AnswerInv, HandlersInv, Open
<1>5. UnfitInv'
  BY <1>1, <1>2, SentEventsFit DEF UnfitInv
<1>6. ReadingInv' /\ CompleteInv'
  BY <1>1, <1>2 DEF ReadingInv, CompleteInv, AnswerInv
<1>7. CopyInv'
  <2> SUFFICES ASSUME Open, page.fit, copy[r] # None, Live(copy[r])'
               PROVE  LET c == copy[r]
                          v == work'[c.epoch]
                          rest == Unread(c.events, v.seq, page.cursor)
                      IN  /\ \A j \in 1..Len(c.events) : c.events[j].id = v.seq - Len(c.events) + j
                          /\ page.cursor \in (v.seq - Len(c.events))..v.seq
                          /\ v.at = "asking" => /\ ~c.complete /\ v.on = r
                                                /\ Len(c.events) <= v.shown + 1
                                                /\ Leads(page.text, rest, Len(rest), Prefix(c.epoch, v.shown))
                          /\ c.complete => v.final \in Seq(Piece) /\ Finishes(page.text, rest, v.final)
      BY <1>1, <1>2 DEF CopyInv, Open, Alone
  <2>1. copy[r].epoch \in Attempts
    BY DEF AnswerInv, TutorType, CopySet
  <2>2. Live(copy[r])
    BY <2>1, <1>2 DEF Live
  <2> QED  BY <2>1, <2>2, <1>2 DEF AnswerInv, CopyInv
<1> QED  BY <1>3, <1>4, <1>5, <1>6, <1>7 DEF AnswerInv

\* An event is sent to the page that reads.
LEMMA SendToPage ==
    ASSUME AnswerInv, NEW r \in Replicas, Alone(r), NEW i \in Attempts, Send(i), page.on = i
    PROVE  AnswerInv'
<1> DEFINE todo == work[i].todo
           e == todo[1]
<1>1. /\ Runs(i) /\ work[i] \in WorkSet /\ copy' = copy
      /\ todo # << >> /\ todo \in Seq(EventSet) /\ work' \in [Attempts -> WorkSet]
      /\ work'[i].todo = Tail(todo) /\ Len(Tail(todo)) = Len(todo) - 1
      /\ \A k \in 1..Len(Tail(todo)) : k + 1 \in 1..Len(todo) /\ Tail(todo)[k] = todo[k + 1]
      /\ \A j \in Attempts \ {i} : work'[j] = work[j]
      /\ \A j \in Attempts : /\ work'[j].at = work[j].at /\ work'[j].on = work[j].on
                             /\ work'[j].seq = work[j].seq /\ work'[j].shown = work[j].shown
                             /\ work'[j].final = work[j].final /\ (Runs(j)' <=> Runs(j))
  BY SentOn
<1> DEFINE L == Len(todo)
           rest == Tail(todo)
<1>2. L \in Nat /\ L >= 1 /\ 1 \in 1..L /\ e \in EventSet /\ page' = Received(page, e)
  <2>1. Len(todo) # 0  BY <1>1
  <2>2. Head(todo) = e  BY <1>1, HeadTailProperties
  <2> QED  BY <1>1, <2>1, <2>2 DEF Send
<1>3. /\ page \in PageSet /\ page.status = "reading" /\ Open /\ page.on # 0
      /\ page.text \in Seq(Piece) /\ page.cursor \in Nat
  BY TutorAssumption DEF AnswerInv, TutorType, HandlersInv, Open, Attempts, PageSet
<1>4. /\ page' \in PageSet /\ page'.cursor = e.id /\ page'.tries = page.tries /\ page'.fit = page.fit
      /\ e.kind \in {"token", "reset"} =>
            page'.text = After(page.text, e) /\ page'.status = "reading" /\ page'.on = i
      /\ e.kind \in {"done", "error"} => page'.text = page.text /\ page'.on = 0
      /\ e.kind = "done" => page'.status = "complete"
      /\ e.kind = "error" => page'.status = "error"
  BY <1>2, <1>3, ReceivedEvent
<1> HIDE DEF L, rest, e, todo
<1>5. e.kind \in {"token", "reset", "done", "error"}
  BY <1>2 DEF EventSet
\* A page with a question that fits reads its text or the end of an answer.
<1>6. ASSUME page.fit
      PROVE  /\ page'.cursor = page.cursor + 1
             /\ work[i].at = "asking" =>
                   /\ e.kind \in {"token", "reset"} /\ page.cursor + L = work[i].seq
                   /\ Leads(page'.text, rest, L - 1, Prefix(i, work[i].shown))
             /\ work[i].at = "sending" =>
                   \E g \in Attempts :
                      /\ work[g].at # "asking" /\ work[g].final \in Seq(Piece)
                      /\ \/ e.kind = "done" /\ page.text = work[g].final
                         \/ e.kind \in {"token", "reset"} /\ Finishes(page'.text, rest, work[g].final)
  <2>1. /\ \A j \in 1..L : todo[j].id = page.cursor + j
        /\ work[i].at = "asking" => /\ page.cursor + L = work[i].seq
                                    /\ Leads(page.text, todo, L, Prefix(i, work[i].shown))
        /\ work[i].at = "sending" => \E g \in Attempts : /\ work[g].at # "asking"
                                                         /\ work[g].final \in Seq(Piece)
                                                         /\ Finishes(page.text, todo, work[g].final)
    BY <1>3, <1>6 DEF AnswerInv, ReadingInv, todo, L
  <2>2. page'.cursor = page.cursor + 1
    BY <2>1, <1>2, <1>4 DEF e
  <2>3. ASSUME work[i].at = "asking"
        PROVE  /\ e.kind \in {"token", "reset"}
               /\ Leads(page'.text, rest, L - 1, Prefix(i, work[i].shown))
    <3>1. L \in 1..Len(todo)  BY <1>2 DEF L
    <3>2. Prefix(i, work[i].shown) \in Seq(Piece)
      BY <1>1, PrefixIsText DEF WorkSet
    <3> QED  BY <3>1, <3>2, <2>1, <2>3, <1>1, <1>3, <1>4, LeadsOn DEF e, rest
  <2>4. ASSUME work[i].at = "sending"
        PROVE  \E g \in Attempts :
                  /\ work[g].at # "asking" /\ work[g].final \in Seq(Piece)
                  /\ \/ e.kind = "done" /\ page.text = work[g].final
                     \/ e.kind \in {"token", "reset"} /\ Finishes(page'.text, rest, work[g].final)
    <3>1. PICK g \in Attempts : /\ work[g].at # "asking" /\ work[g].final \in Seq(Piece)
                                /\ Finishes(page.text, todo, work[g].final)
      BY <2>1, <2>4
    <3>2. \/ e.kind = "done" /\ page.text = work[g].final
          \/ /\ e.kind \in {"token", "reset"}
             /\ Finishes(After(page.text, e), rest, work[g].final)
      BY <3>1, <1>1, <1>3, FinishesOn DEF e, rest
    <3> QED  BY <3>1, <3>2, <1>4
  <2> QED  BY <2>1, <2>2, <2>3, <2>4
<1>7. TutorType'
  BY <1>1, <1>4 DEF AnswerInv, TutorType
<1>8. HandlersInv'
  <2>1. \A q \in Replicas : copy'[q] # None => copy'[q].epoch <= page'.tries
    BY <1>1, <1>4 DEF AnswerInv, HandlersInv
  <2>2. \A j \in Attempts : Runs(j)' => work'[j].on \in Replicas /\ j <= page'.tries
    BY <1>1, <1>4 DEF AnswerInv, HandlersInv
  <2>3. \A j, k \in Attempts : Runs(j)' /\ Runs(k)' => j = k
    BY <1>1 DEF AnswerInv, HandlersInv
  <2>4. /\ page'.on # 0 => page'.status = "reading" /\ work'[page'.on].at \in {"asking", "sending"}
        /\ page'.status \in {"reading", "complete", "error"}
        /\ page'.status = "reading" => page'.on # 0
    <3>1. CASE e.kind \in {"token", "reset"}
      <4>1. i # 0 /\ work'[i].at \in {"asking", "sending"}
        BY <1>1, <1>3 DEF Runs
      <4> QED  BY <3>1, <4>1, <1>4
    <3>2. CASE e.kind \in {"done", "error"}
      BY <3>2, <1>4
    <3> QED  BY <3>1, <3>2, <1>5
  <2>5. page'.fit /\ page'.cursor = 0 => FALSE
    BY <1>3, <1>4, <1>6
  <2> QED  BY <2>1, <2>2, <2>3, <2>4, <2>5 DEF HandlersInv, Runs
<1>9. ~page.fit => e.kind # "done"
  BY SentEventsFit DEF e, todo
<1>10. UnfitInv'
  <2> SUFFICES ASSUME ~page'.fit PROVE UnfitInv'
      BY DEF UnfitInv
  <2>1. page'.status # "complete"
    BY <1>4, <1>5, <1>9
  <2> QED  BY <2>1, <1>4, SentEventsFit DEF UnfitInv
<1>11. CompleteInv'
  <2> SUFFICES ASSUME page'.status = "complete"
               PROVE  \E g \in Attempts : work'[g].at # "asking" /\ work'[g].final = page'.text
      BY DEF CompleteInv
  <2>1. e.kind = "done" /\ page.fit /\ page'.text = page.text
    BY <1>4, <1>5, <1>9
  <2>2. work[i].at \in {"asking", "sending"}
    BY <1>1 DEF Runs
  <2>3. PICK g \in Attempts : work[g].at # "asking" /\ page.text = work[g].final
    BY <2>1, <2>2, <1>6
  <2> QED  BY <2>1, <2>3, <1>1
<1>12. Open' => e.kind \in {"token", "reset"} /\ page'.on = i
  BY <1>4, <1>5 DEF Open
<1>13. ReadingInv'
  <2> SUFFICES ASSUME Open', page.fit, page'.on = i, e.kind \in {"token", "reset"}
               PROVE  /\ \A j \in 1..Len(rest) : rest[j].id = page'.cursor + j
                      /\ work[i].at = "asking" =>
                            /\ page'.cursor + Len(rest) = work[i].seq
                            /\ Leads(page'.text, rest, Len(rest), Prefix(i, work[i].shown))
                      /\ work[i].at = "sending" =>
                            \E g \in Attempts : /\ work[g].at # "asking" /\ work[g].final \in Seq(Piece)
                                                /\ Finishes(page'.text, rest, work[g].final)
    <3>1. CASE ~ (Open' /\ page'.fit /\ page'.on # 0)
      BY <3>1 DEF ReadingInv
    <3>2. CASE Open' /\ page'.fit /\ page'.on # 0
      <4>1. page.fit /\ page'.on = i /\ e.kind \in {"token", "reset"} /\ work'[i].todo = rest
        BY <3>2, <1>1, <1>4, <1>12 DEF rest
      <4>2. /\ work'[i].at = work[i].at /\ work'[i].seq = work[i].seq /\ work'[i].shown = work[i].shown
            /\ \A g \in Attempts : work'[g].at = work[g].at /\ work'[g].final = work[g].final
        BY <1>1
      <4> QED  BY <3>2, <4>1, <4>2 DEF ReadingInv
    <3> QED  BY <3>1, <3>2
  <2>1. Len(rest) = L - 1 /\ page'.cursor = page.cursor + 1
    BY <1>1, <1>6 DEF rest, L
  <2>2. \A j \in 1..Len(rest) : rest[j].id = page'.cursor + j
    <3> TAKE j \in 1..Len(rest)
    <3>1. j + 1 \in 1..L /\ rest[j] = todo[j + 1]
      BY <1>1 DEF rest, L
    <3>2. todo[j + 1].id = page.cursor + (j + 1)
      BY <3>1, <1>3 DEF AnswerInv, ReadingInv, todo, L
    <3>3. page.cursor + (j + 1) = (page.cursor + 1) + j
      BY <1>2, <1>3, <2>1
    <3> QED  BY <3>1, <3>2, <3>3, <2>1
  <2>3. work[i].at = "asking" => /\ page'.cursor + Len(rest) = work[i].seq
                                 /\ Leads(page'.text, rest, Len(rest), Prefix(i, work[i].shown))
    <3> HAVE work[i].at = "asking"
    <3>1. page.cursor + L = work[i].seq /\ Leads(page'.text, rest, L - 1, Prefix(i, work[i].shown))
      BY <1>6
    <3>2. page'.cursor + Len(rest) = page.cursor + L
      BY <2>1, <1>2, <1>3
    <3> QED  BY <3>1, <3>2, <2>1
  <2>4. work[i].at = "sending" =>
          \E g \in Attempts : /\ work[g].at # "asking" /\ work[g].final \in Seq(Piece)
                              /\ Finishes(page'.text, rest, work[g].final)
    BY <1>6
  <2> QED  BY <2>2, <2>3, <2>4
<1>14. CopyInv'
  <2> SUFFICES ASSUME Open', page'.fit, copy[r] # None, Live(copy[r])'
               PROVE  LET c == copy[r]
                          v == work'[c.epoch]
                          unread == Unread(c.events, v.seq, page'.cursor)
                      IN  /\ \A j \in 1..Len(c.events) : c.events[j].id = v.seq - Len(c.events) + j
                          /\ page'.cursor \in (v.seq - Len(c.events))..v.seq
                          /\ v.at = "asking" => /\ ~c.complete /\ v.on = r
                                                /\ Len(c.events) <= v.shown + 1
                                                /\ Leads(page'.text, unread, Len(unread), Prefix(c.epoch, v.shown))
                          /\ c.complete => v.final \in Seq(Piece) /\ Finishes(page'.text, unread, v.final)
                          /\ page'.on # 0 => work'[page'.on].todo = unread
    BY ZenonT(30), <1>1 DEF CopyInv, Alone
  <2> DEFINE c == copy[r]
             v == work[c.epoch]
             unread == Unread(c.events, v.seq, page.cursor)
             unread2 == Unread(c.events, v.seq, page'.cursor)
  <2>1. /\ c \in CopySet /\ c.epoch \in Attempts /\ c.events \in Seq(EventSet) /\ v \in WorkSet
        /\ v.seq \in Nat /\ v.shown \in 0..Parts
    BY DEF AnswerInv, TutorType, CopySet, WorkSet
  <2>2. Live(c) /\ page.fit
    BY <2>1, <1>1, <1>4 DEF Live
  <2>3. /\ \A j \in 1..Len(c.events) : c.events[j].id = v.seq - Len(c.events) + j
        /\ page.cursor \in (v.seq - Len(c.events))..v.seq
        /\ v.at = "asking" => /\ ~c.complete /\ v.on = r
                              /\ Len(c.events) <= v.shown + 1
                              /\ Leads(page.text, unread, Len(unread), Prefix(c.epoch, v.shown))
        /\ c.complete => v.final \in Seq(Piece) /\ Finishes(page.text, unread, v.final)
        /\ work[page.on].todo = unread
    BY <2>2, <1>3 DEF AnswerInv, CopyInv
  <2>4. /\ work'[c.epoch].seq = v.seq /\ work'[c.epoch].final = v.final /\ work'[c.epoch].at = v.at
        /\ work'[c.epoch].on = v.on /\ work'[c.epoch].shown = v.shown
    BY <2>1, <1>1
  <2>5. unread = todo
    BY <2>3 DEF todo
  <2>6. page'.cursor = page.cursor + 1 /\ e.kind \in {"token", "reset"} /\ page'.on = i
        /\ page'.text = After(page.text, e)
    BY <2>2, <1>4, <1>6, <1>12
  <2> HIDE DEF c, v, unread, unread2
  <2>7. page.cursor < v.seq
    <3>1. Len(unread) = v.seq - page.cursor
      BY ZenonT(30), <2>1, <2>3, <1>3, UnreadEvents DEF unread
    <3> QED  BY <3>1, <2>1, <2>5, <1>2, <1>3 DEF L
  <2>8. page'.cursor \in (v.seq - Len(c.events))..v.seq /\ unread2 = rest
    <3> DEFINE cursor == page.cursor
               seq == v.seq
               evs == c.events
    <3>1. /\ evs \in Seq(EventSet) /\ seq \in Nat /\ cursor \in Nat
          /\ cursor \in (seq - Len(evs))..seq /\ cursor < seq
      BY <2>1, <2>3, <2>7, <1>3
    <3> HIDE DEF cursor, seq, evs
    <3>2. cursor + 1 \in (seq - Len(evs))..seq /\ Unread(evs, seq, cursor + 1) = Tail(Unread(evs, seq, cursor))
      BY <3>1, UnreadShrinks
    <3>3. page'.cursor = cursor + 1  BY <2>6 DEF cursor
    <3>4. page'.cursor \in (seq - Len(evs))..seq /\ Unread(evs, seq, page'.cursor) = Tail(Unread(evs, seq, cursor))
      BY <3>2, <3>3
    <3> QED  BY <3>4, <2>5 DEF seq, evs, cursor, unread, unread2, rest
  <2>9. ASSUME v.at = "asking"
        PROVE  Leads(page'.text, unread2, Len(unread2), Prefix(c.epoch, v.shown))
    <3>1. Prefix(c.epoch, v.shown) \in Seq(Piece)
      BY <2>1, PrefixIsText
    <3>2. Leads(page.text, todo, L, Prefix(c.epoch, v.shown)) /\ L \in 1..Len(todo)
      BY <2>3, <2>5, <2>9, <1>2 DEF L
    <3>3. Leads(After(page.text, e), rest, L - 1, Prefix(c.epoch, v.shown))
      BY <3>1, <3>2, <1>1, <1>3, LeadsOn DEF e, rest
    <3>4. Len(unread2) = L - 1
      BY <2>8, <1>1 DEF rest, L
    <3> QED  BY <3>3, <3>4, <2>6, <2>8
  <2>10. ASSUME c.complete
         PROVE  v.final \in Seq(Piece) /\ Finishes(page'.text, unread2, v.final)
    <3>1. v.final \in Seq(Piece) /\ Finishes(page.text, todo, v.final)
      BY <2>3, <2>5, <2>10
    <3>2. Finishes(After(page.text, e), rest, v.final)
      BY <3>1, <2>6, <1>1, <1>3, FinishesOn DEF e, rest
    <3> QED  BY <3>1, <3>2, <2>6, <2>8
  <2>11. work'[page'.on].todo = unread2
    BY <2>6, <2>8, <1>1 DEF rest
  <2> QED  BY <2>3, <2>4, <2>8, <2>9, <2>10, <2>11 DEF c, v, unread2
<1> QED  BY <1>7, <1>8, <1>10, <1>11, <1>13, <1>14 DEF AnswerInv
\* A replay sends events of the copy.
LEMMA BacklogIsOfTheCopy ==
    ASSUME NEW c \in CopySet, NEW cursor \in Nat
    PROVE  /\ Backlog(c, cursor) \in Seq(EventSet)
           /\ \A j \in 1..Len(Backlog(c, cursor)) : \E k \in 1..Len(c.events) :
                 Backlog(c, cursor)[j] = c.events[k]
<1> DEFINE evs == c.events
           n == Len(evs)
           unseen == {j \in 1..n : evs[j].id > cursor}
           log == Backlog(c, cursor)
<1>1. evs \in Seq(EventSet) /\ n \in Nat
  BY DEF CopySet
<1>2. log = IF unseen = {} THEN << >> ELSE SubSeq(evs, Min(unseen), n)
  <2>1. DOMAIN evs = 1..n  BY <1>1
  <2> QED  BY <2>1 DEF Backlog
<1>3. CASE unseen = {}
  <2>1. log = << >> /\ Len(log) = 0  BY <1>2, <1>3
  <2> HIDE DEF log, n, evs
  <2>2. \A j \in 1..Len(log) : FALSE  BY <2>1
  <2>3. log \in Seq(EventSet)  BY <2>1
  <2> QED  BY <2>2, <2>3 DEF log, n, evs
<1>4. CASE unseen # {}
  <2> DEFINE m == Min(unseen)
  <2>1. m \in 1..n
    <3>1. unseen \in SUBSET (1..n)  OBVIOUS
    <3> HIDE DEF unseen
    <3> QED  BY <1>1, <1>4, <3>1, LeastPosition
  <2>2. log = SubSeq(evs, m, n)
    BY <1>2, <1>4
  <2> HIDE DEF m, log, n, unseen
  <2>3. /\ SubSeq(evs, m, n) \in Seq(EventSet) /\ Len(SubSeq(evs, m, n)) = n - m + 1
        /\ \A j \in 1..(n - m + 1) : SubSeq(evs, m, n)[j] = evs[m + j - 1]
    <3>1. m \in 1..(n + 1) /\ n \in (m - 1)..n  BY <1>1, <2>1
    <3> HIDE DEF evs
    <3> QED  BY <1>1, <2>1, <3>1, SubSeqProperties DEF n
  <2>4. \A j \in 1..Len(log) : m + j - 1 \in 1..n /\ log[j] = evs[m + j - 1]
    BY <1>1, <2>1, <2>2, <2>3
  <2> QED  BY <2>2, <2>3, <2>4 DEF log, n
<1> QED  BY <1>3, <1>4

\* A connection of the page to a new handler: the part of AnswerInv that does
\* not depend on what is sent.
LEMMA ConnectingKeepsHandlers ==
    ASSUME AnswerInv, NEW r \in Replicas, Alone(r), page.status = "waiting", ~SlotTaken(r),
           NEW i, i = page.tries + 1, Connected(i), NEW w \in WorkSet, w.on = r,
           w.at \in {"asking", "sending"}, work' = [work EXCEPT ![i] = w],
           DOMAIN copy' = Replicas,
           copy'[r] = copy[r] \/ (copy'[r] \in CopySet /\ copy'[r].epoch = i),
           \A q \in Replicas : q # r => copy'[q] = None,
           page.fit /\ page.cursor = 0 => page.text = << >>
    PROVE  /\ i \in Attempts /\ work'[i] = w /\ \A j \in Attempts \ {i} : work'[j] = work[j]
           /\ page' \in PageSet /\ page'.status = "reading" /\ page'.on = i /\ page'.tries = i
           /\ page'.text = page.text /\ page'.cursor = page.cursor /\ page'.fit = page.fit
           /\ TutorType' /\ HandlersInv' /\ CompleteInv'
<1>1. /\ page \in PageSet /\ work \in [Attempts -> WorkSet] /\ page.tries < Tries
      /\ page.tries \in Nat /\ Tries \in Nat
      /\ copy[r] # None => copy[r] \in CopySet /\ copy[r].epoch <= page.tries
  BY TutorAssumption DEF AnswerInv, TutorType, HandlersInv, PageSet
<1>2. i \in Attempts /\ i \in 0..Tries /\ i # 0 /\ i \in Nat
  BY <1>1 DEF Attempts
<1>3. page' = [page EXCEPT !.status = "reading", !.tries = i, !.on = i]
  BY DEF Connected
<1>4. /\ page' \in PageSet /\ page'.status = "reading" /\ page'.on = i /\ page'.tries = i
      /\ page'.text = page.text /\ page'.cursor = page.cursor /\ page'.fit = page.fit
  BY <1>1, <1>2, <1>3 DEF PageSet
<1>5. work'[i] = w /\ \A j \in Attempts \ {i} : work'[j] = work[j]
  BY <1>1, <1>2
<1>6. TutorType'
  BY <1>1, <1>2, <1>4 DEF AnswerInv, TutorType
<1>7. \A j \in Attempts : ~Runs(j)
  BY AtWork DEF SlotTaken
<1>8. \A j \in Attempts : Runs(j)' <=> j = i
  BY <1>2, <1>5, <1>7 DEF Runs
<1>9. HandlersInv'
  <2>1. \A j \in Attempts : Runs(j)' => work'[j].on \in Replicas /\ j <= i
    BY <1>2, <1>5, <1>8
  <2>2. \A q \in Replicas : copy'[q] # None => copy'[q].epoch <= i
    <3> SUFFICES ASSUME copy'[r] # None PROVE copy'[r].epoch <= i
        OBVIOUS
    <3>1. CASE copy'[r] = copy[r]
      <4>1. copy[r].epoch \in Nat /\ copy[r].epoch <= page.tries
        BY <3>1, <1>1 DEF CopySet, Attempts
      <4> QED  BY <4>1, <3>1, <1>1
    <3>2. CASE copy'[r].epoch = i  BY <3>2, <1>2
    <3> QED  BY <3>1, <3>2
  <2>3. work'[i].at \in {"asking", "sending"}  BY <1>5
  <2> QED  BY <2>1, <2>2, <2>3, <1>2, <1>4, <1>8 DEF HandlersInv, Runs
<1> QED  BY <1>2, <1>4, <1>5, <1>6, <1>9 DEF CompleteInv

LEMMA ReplayKeepsAnswer ==
    ASSUME AnswerInv, NEW r \in Replicas, Alone(r), Replay(r)
    PROVE  AnswerInv'
<1> DEFINE i == page.tries + 1
           c == copy[r]
           log == Backlog(c, page.cursor)
           w == [NoWork EXCEPT !.at = "sending", !.on = r, !.todo = log]
<1>1. /\ page.status = "waiting" /\ ~SlotTaken(r) /\ c # None /\ c.complete /\ Connected(i)
      /\ work' = [work EXCEPT ![i] = w] /\ copy' = copy
  BY DEF Replay, HasAnswer
<1>2. /\ c \in CopySet /\ c.epoch \in Attempts /\ c.epoch <= page.tries /\ c.events \in Seq(EventSet)
      /\ page.cursor \in Nat /\ page.text \in Seq(Piece) /\ page.tries \in Nat /\ DOMAIN copy = Replicas
  BY <1>1 DEF AnswerInv, TutorType, HandlersInv, CopySet, PageSet
<1>3. /\ log \in Seq(EventSet)
      /\ \A j \in 1..Len(log) : \E k \in 1..Len(c.events) : log[j] = c.events[k]
  BY <1>2, BacklogIsOfTheCopy
<1> HIDE DEF log
<1>4. w \in WorkSet /\ w.on = r /\ w.at = "sending" /\ w.todo = log
  <2>1. 0 \in 0..Parts /\ 0 \in Nat  BY TutorAssumption
  <2> QED  BY <2>1, <1>3 DEF NoWork, WorkSet
<1> HIDE DEF w, c
<1>5. /\ i \in Attempts /\ work'[i] = w /\ \A j \in Attempts \ {i} : work'[j] = work[j]
      /\ page' \in PageSet /\ page'.status = "reading" /\ page'.on = i /\ page'.tries = i
      /\ page'.text = page.text /\ page'.cursor = page.cursor /\ page'.fit = page.fit
      /\ TutorType' /\ HandlersInv' /\ CompleteInv'
  <2>1. page.fit /\ page.cursor = 0 => page.text = << >>
    BY <1>1 DEF AnswerInv, HandlersInv, Open
  <2>2. \A q \in Replicas : q # r => copy'[q] = None
    BY <1>1 DEF Alone
  <2> QED  BY <1>1, <1>2, <1>4, <2>1, <2>2, ConnectingKeepsHandlers
<1>6. c.epoch \in Attempts \ {i}
  <2>1. c.epoch \in Nat  BY <1>2 DEF Attempts
  <2> QED  BY <2>1, <1>2
<1>7. UnfitInv'
  <2> SUFFICES ASSUME ~page.fit PROVE UnfitInv'
      BY <1>5 DEF UnfitInv
  <2>1. /\ \A j \in Attempts : /\ work[j].at # "asking"
                               /\ \A k \in 1..Len(work[j].todo) : work[j].todo[k].kind # "done"
        /\ \A q \in Replicas : copy[q] # None =>
              \A j \in 1..Len(copy[q].events) : copy[q].events[j].kind # "done"
    BY DEF AnswerInv, UnfitInv
  <2>2. \A k \in 1..Len(w.todo) : w.todo[k].kind # "done"
    BY <2>1, <1>1, <1>3, <1>4 DEF c
  <2>3. \A j \in Attempts : /\ work'[j].at # "asking"
                            /\ \A k \in 1..Len(work'[j].todo) : work'[j].todo[k].kind # "done"
    <3> TAKE j \in Attempts
    <3>1. CASE j = i  BY <3>1, <1>4, <1>5, <2>2
    <3>2. CASE j # i  BY <3>2, <1>5, <2>1
    <3> QED  BY <3>1, <3>2
  <2> QED  BY <2>1, <2>3, <1>1, <1>5 DEF UnfitInv
<1> DEFINE v == work[c.epoch]
           unread == Unread(c.events, v.seq, page.cursor)
<1>8. ASSUME page.fit
      PROVE  /\ \A j \in 1..Len(c.events) : c.events[j].id = v.seq - Len(c.events) + j
             /\ page.cursor \in (v.seq - Len(c.events))..v.seq
             /\ v.at # "asking" /\ v.final \in Seq(Piece) /\ Finishes(page.text, unread, v.final)
             /\ log = unread /\ work'[c.epoch] = v
             /\ \A j \in 1..Len(log) : log[j].id = page.cursor + j
  <2>1. /\ \A j \in 1..Len(c.events) : c.events[j].id = v.seq - Len(c.events) + j
        /\ page.cursor \in (v.seq - Len(c.events))..v.seq
        /\ v.at = "asking" => ~c.complete
        /\ v.final \in Seq(Piece) /\ Finishes(page.text, unread, v.final)
    BY <1>1, <1>8 DEF AnswerInv, CopyInv, Open, Live, c
  <2>2. v.seq \in Nat
    BY <1>2 DEF AnswerInv, TutorType, WorkSet
  <2> DEFINE evs == c.events
             seq == v.seq
             cursor == page.cursor
  <2>3. evs \in Seq(EventSet) /\ seq \in Nat /\ cursor \in Nat /\ cursor \in (seq - Len(evs))..seq
        /\ \A j \in 1..Len(evs) : evs[j].id = seq - Len(evs) + j
    BY <1>2, <2>1, <2>2
  <2>4. log = unread
    <3>1. c.events \in Seq(EventSet) /\ seq \in Nat /\ cursor \in Nat
          /\ cursor \in (seq - Len(c.events))..seq
          /\ \A j \in 1..Len(c.events) : c.events[j].id = seq - Len(c.events) + j
      BY <2>3
    <3> HIDE DEF seq, cursor
    <3>2. Backlog(c, cursor) = Unread(c.events, seq, cursor)
      BY <3>1, BacklogIsUnread
    <3> QED  BY <3>2 DEF log, seq, cursor
  <2>5. \A j \in 1..Len(log) : log[j].id = cursor + j
    <3> HIDE DEF seq, cursor, evs
    <3>1. /\ Len(Unread(evs, seq, cursor)) = seq - cursor
          /\ \A j \in 1..(seq - cursor) :
                Unread(evs, seq, cursor)[j] = evs[Len(evs) - (seq - cursor) + j]
      BY <2>3, UnreadEvents
    <3> TAKE j \in 1..Len(log)
    <3>2. log = Unread(evs, seq, cursor)  BY <2>4 DEF evs, seq, cursor
    <3>3. j \in 1..(seq - cursor)  BY <3>1, <3>2
    <3> DEFINE k == Len(evs) - (seq - cursor) + j
    <3>4. k \in 1..Len(evs) /\ seq - Len(evs) + k = cursor + j
      BY <2>3, <3>3
    <3>5. log[j] = evs[k]  BY <3>1, <3>2, <3>3
    <3> HIDE DEF k
    <3>6. evs[k].id = seq - Len(evs) + k  BY <2>3, <3>4
    <3> QED  BY <3>4, <3>5, <3>6
  <2> QED  BY <2>1, <2>4, <2>5, <1>1, <1>5, <1>6
<1> HIDE DEF v, unread
<1>9. ReadingInv'
  <2> SUFFICES ASSUME page.fit
               PROVE  /\ \A j \in 1..Len(log) : log[j].id = page.cursor + j
                      /\ \E g \in Attempts : /\ work'[g].at # "asking" /\ work'[g].final \in Seq(Piece)
                                             /\ Finishes(page.text, log, work'[g].final)
      BY <1>4, <1>5 DEF ReadingInv
  <2> QED  BY <1>6, <1>8
<1>10. CopyInv'
  <2> SUFFICES ASSUME page.fit
               PROVE  LET u == work'[c.epoch]
                          rest == Unread(c.events, u.seq, page.cursor)
                      IN  /\ \A j \in 1..Len(c.events) : c.events[j].id = u.seq - Len(c.events) + j
                          /\ page.cursor \in (u.seq - Len(c.events))..u.seq
                          /\ u.at # "asking"
                          /\ c.complete => u.final \in Seq(Piece) /\ Finishes(page.text, rest, u.final)
                          /\ log = rest
      BY ZenonT(60), <1>1, <1>4, <1>5 DEF CopyInv, Alone, c
  <2> QED  BY <1>8 DEF unread
<1> QED  BY <1>5, <1>7, <1>9, <1>10 DEF AnswerInv

\* What a generation publishes first.
LEMMA OpeningOfAStream ==
    ASSUME NEW cursor \in Nat, NEW fit \in BOOLEAN, NEW text \in Seq(Piece),
           fit /\ cursor = 0 => text = << >>, NEW i \in Attempts
    PROVE  LET opening == StartsOver(cursor) \o (IF fit THEN << >> ELSE <<Event("error", << >>)>>)
           IN  /\ opening \in Seq(EventSet) /\ Len(opening) <= 2 /\ (fit => Len(opening) <= 1)
               /\ \A j \in 1..Len(opening) : opening[j].kind \in {"reset", "error"}
               /\ fit => \A evs : (\A j \in 1..Len(opening) : evs[j].kind = opening[j].kind) =>
                            Leads(text, evs, Len(opening), Prefix(i, 0))
<1> DEFINE reset == Event("reset", << >>)
           error == Event("error", << >>)
           opening == StartsOver(cursor) \o (IF fit THEN << >> ELSE <<error>>)
           none == << >>
<1>1. reset \in EventSet /\ reset.kind = "reset" /\ error \in EventSet /\ error.kind = "error"
  BY DEF Event, EventSet
<1>2. Prefix(i, 0) = none /\ none \in Seq(Piece) /\ none \in Seq(EventSet) /\ Len(none) = 0
  <2>1. 0 \in 0..Parts  BY TutorAssumption
  <2>2. Prefix(i, 0) \in Seq(Piece) /\ Len(Prefix(i, 0)) = 0  BY <2>1, PrefixIsText
  <2> QED  BY <2>2, EmptySeq
<1> HIDE DEF reset, error
<1>3. StartsOver(cursor) = IF cursor = 0 THEN none ELSE <<reset>>
  BY DEF StartsOver, reset
<1>4. opening = IF cursor = 0 THEN (IF fit THEN none ELSE <<error>>)
                ELSE (IF fit THEN <<reset>> ELSE <<reset, error>>)
  <2>1. none \o none = none /\ none \o <<error>> = <<error>> /\ <<reset>> \o none = <<reset>>
    BY <1>1, ConcatEmptySeq
  <2>2. <<reset>> \o <<error>> = <<reset, error>>
    BY <1>1, TwoEvents
  <2> QED  BY <2>1, <2>2, <1>3
<1>5. /\ opening \in Seq(EventSet) /\ Len(opening) \in Nat /\ Len(opening) <= 2
      /\ fit => Len(opening) = IF cursor = 0 THEN 0 ELSE 1
      /\ \A j \in 1..Len(opening) : opening[j].kind \in {"reset", "error"}
      /\ fit /\ cursor # 0 => opening[1].kind = "reset"
  <2>1. CASE fit /\ cursor = 0
    <3>1. opening = none /\ Len(opening) = 0  BY <2>1, <1>2, <1>4
    <3> HIDE DEF opening
    <3>2. \A j \in 1..Len(opening) : FALSE  BY <3>1
    <3> QED  BY <2>1, <3>1, <3>2, <1>2
  <2>2. CASE ~fit /\ cursor = 0
    <3> DEFINE q == <<error>>
    <3>1. q \in Seq(EventSet) /\ Len(q) = 1 /\ \A j \in 1..1 : q[j].kind = "error"
      BY <1>1
    <3>2. opening = q  BY <2>2, <1>4
    <3> HIDE DEF opening, q
    <3>3. Len(opening) = 1 /\ opening \in Seq(EventSet)  BY <3>1, <3>2
    <3>4. \A j \in 1..Len(opening) : opening[j].kind = "error"
      BY <3>1, <3>2
    <3>5. 1 \in 1..Len(opening)  BY <3>3
    <3> QED  BY <2>2, <3>3, <3>4, <3>5
  <2>3. CASE fit /\ cursor # 0
    <3> DEFINE q == <<reset>>
    <3>1. q \in Seq(EventSet) /\ Len(q) = 1 /\ \A j \in 1..1 : q[j].kind = "reset"
      BY <1>1
    <3>2. opening = q  BY <2>3, <1>4
    <3> HIDE DEF opening, q
    <3>3. Len(opening) = 1 /\ opening \in Seq(EventSet)  BY <3>1, <3>2
    <3>4. \A j \in 1..Len(opening) : opening[j].kind = "reset"
      BY <3>1, <3>2
    <3>5. 1 \in 1..Len(opening)  BY <3>3
    <3> QED  BY <2>3, <3>3, <3>4, <3>5
  <2>4. CASE ~fit /\ cursor # 0
    <3> DEFINE q == <<reset, error>>
    <3>1. q \in Seq(EventSet) /\ Len(q) = 2 /\ q[1].kind = "reset" /\ q[2].kind = "error"
      BY <1>1
    <3>2. opening = q  BY <2>4, <1>4
    <3>3. \A j \in 1..2 : j = 1 \/ j = 2  OBVIOUS
    <3> HIDE DEF opening, q
    <3>4. Len(opening) = 2 /\ opening \in Seq(EventSet)  BY <3>1, <3>2
    <3>5. \A j \in 1..Len(opening) : opening[j].kind \in {"reset", "error"}
      <4> TAKE j \in 1..Len(opening)
      <4>1. j = 1 \/ j = 2  BY <3>3, <3>4
      <4> QED  BY <4>1, <3>1, <3>2
    <3> QED  BY <2>4, <3>4, <3>5
  <2> QED  BY <2>1, <2>2, <2>3, <2>4
<1>6. ASSUME fit, NEW evs, \A j \in 1..Len(opening) : evs[j].kind = opening[j].kind
      PROVE  Leads(text, evs, Len(opening), none)
  <2> HIDE DEF opening, none
  <2>1. CASE cursor = 0
    <3>1. text = none /\ Len(opening) = 0
      BY <2>1, <1>5, <1>6 DEF none
    <3> QED  BY <3>1, <1>2, LeadsNowhere
  <2>2. CASE cursor # 0
    <3>1. Len(opening) = 1 /\ evs[0 + 1].kind = "reset"
      <4>1. Len(opening) = 1 /\ opening[1].kind = "reset"  BY <2>2, <1>5, <1>6
      <4>2. 1 \in 1..Len(opening) /\ 0 + 1 = 1  BY <4>1
      <4> QED  BY <4>1, <4>2, <1>6
    <3>2. Leads(text, evs, 0, text)
      BY LeadsNowhere
    <3>3. Leads(text, evs, 0 + 1, << >>)
      <4>1. \A j \in 1..0 : evs[j] = evs[j]  OBVIOUS
      <4> QED  BY <3>1, <3>2, <4>1, LeadsBack
    <3> QED  BY <3>1, <3>3 DEF none
  <2> QED  BY <2>1, <2>2
<1>7. fit => Len(opening) <= 1
  BY <1>5
<1> HIDE DEF opening, none
<1> QED  BY <1>2, <1>5, <1>6, <1>7 DEF opening, error

LEMMA GenerateKeepsAnswer ==
    ASSUME AnswerInv, NEW r \in Replicas, Alone(r), Generate(r)
    PROVE  AnswerInv'
<1> DEFINE i == page.tries + 1
           plain == StartsOver(page.cursor) \o (IF Fit(page) THEN << >> ELSE <<Event("error", << >>)>>)
           opening == Numbered(plain, page.cursor)
           w == [NoWork EXCEPT !.at = IF Fit(page) THEN "asking" ELSE "sending", !.on = r,
                               !.seq = page.cursor + Len(opening), !.todo = opening]
<1>1. /\ page.status = "waiting" /\ ~SlotTaken(r) /\ Connected(i)
      /\ work' = [work EXCEPT ![i] = w]
      /\ copy' = [copy EXCEPT ![r] = Extended(Begun(i), i, opening, ~Fit(page))]
  BY DEF Generate
<1>2. /\ page \in PageSet /\ page.cursor \in Nat /\ page.text \in Seq(Piece) /\ page.fit \in BOOLEAN
      /\ page.tries \in Nat /\ Tries \in Nat /\ page.tries < Tries /\ i \in Attempts
      /\ page.fit /\ page.cursor = 0 => page.text = << >>
      /\ DOMAIN copy = Replicas
  <2>1. page.fit /\ page.cursor = 0 => page.text = << >>
    BY <1>1 DEF AnswerInv, HandlersInv, Open
  <2>2. page \in PageSet /\ page.tries < Tries /\ DOMAIN copy = Replicas
    BY <1>1 DEF AnswerInv, TutorType, HandlersInv
  <2>3. page.tries \in 0..Tries /\ Tries \in Nat
    BY <2>2, TutorAssumption DEF PageSet
  <2> QED  BY <2>1, <2>2, <2>3 DEF PageSet, Attempts
<1>3. /\ plain \in Seq(EventSet) /\ Len(plain) <= 2 /\ (page.fit => Len(plain) <= 1)
      /\ \A j \in 1..Len(plain) : plain[j].kind \in {"reset", "error"}
      /\ page.fit => \A evs : (\A j \in 1..Len(plain) : evs[j].kind = plain[j].kind) =>
                        Leads(page.text, evs, Len(plain), Prefix(i, 0))
  <2> DEFINE fit == page.fit
             cursor == page.cursor
             text == page.text
  <2>1. fit \in BOOLEAN /\ cursor \in Nat /\ text \in Seq(Piece) /\ (fit /\ cursor = 0 => text = << >>)
    BY <1>2
  <2>2. Fit(page) = fit
    BY DEF Fit
  <2> DEFINE start == StartsOver(cursor) \o (IF fit THEN << >> ELSE <<Event("error", << >>)>>)
  <2>3. plain = start
    BY <2>2
  <2>4. i \in Attempts  BY <1>2
  <2> HIDE DEF fit, cursor, text, i, plain
  <2>5. /\ start \in Seq(EventSet) /\ Len(start) <= 2 /\ (fit => Len(start) <= 1)
        /\ \A j \in 1..Len(start) : start[j].kind \in {"reset", "error"}
        /\ fit => \A evs : (\A j \in 1..Len(start) : evs[j].kind = start[j].kind) =>
                          Leads(text, evs, Len(start), Prefix(i, 0))
    BY <2>1, <2>4, OpeningOfAStream
  <2> HIDE DEF start
  <2> QED  BY <2>3, <2>5 DEF fit, text
<1> HIDE DEF plain
<1>4. /\ opening \in Seq(EventSet) /\ Len(opening) = Len(plain)
      /\ \A j \in 1..Len(plain) : opening[j].id = page.cursor + j /\ opening[j].kind = plain[j].kind
  BY <1>2, <1>3, EventsAreNumbered
<1>5. /\ Len(opening) \in Nat /\ Len(opening) <= 2 /\ (page.fit => Len(opening) <= 1)
      /\ \A j \in 1..Len(opening) : /\ opening[j].id = page.cursor + j
                                    /\ opening[j].kind \in {"reset", "error"}
      /\ page.fit => Leads(page.text, opening, Len(opening), Prefix(i, 0))
  <2> HIDE DEF opening
  <2> QED  BY <1>3, <1>4
<1> HIDE DEF opening
<1>o. \A q \in Replicas : q # r => copy'[q] = None
  BY <1>1, <1>2 DEF Alone
<1>6. /\ DOMAIN copy' = Replicas /\ copy'[r] \in CopySet /\ copy'[r].epoch = i
      /\ copy'[r] # None => copy'[r].events = opening /\ copy'[r].complete = ~page.fit
  <2> DEFINE c == Begun(i)
             complete == ~page.fit
             new == Extended(c, i, opening, complete)
  <2>1. << >> \in Seq(EventSet) /\ Len(<< >>) = 0 /\ << >> \o opening = opening
    BY <1>4, ConcatEmptySeq
  <2>2. c \in CopySet /\ c.epoch = i /\ c.events = << >> /\ c.complete = FALSE
    BY <1>2, <2>1 DEF Begun, CopySet
  <2>3. complete \in BOOLEAN /\ Len(c.events) + Len(opening) <= MaxEvents
    <3>1. Len(<< >>) + Len(opening) <= MaxEvents
      BY <1>5, TutorAssumption
    <3> HIDE DEF c
    <3> QED  BY <3>1, <2>2
  <2>4. CASE c = None
    <3>1. new = c
      BY <2>4 DEF Extended
    <3> HIDE DEF c, new
    <3> QED  BY <1>1, <1>2, <2>2, <2>4, <3>1 DEF new, c, Fit
  <2>5. CASE c # None
    <3> HIDE DEF c, complete, i
    <3>1. new = [epoch |-> i, events |-> c.events \o opening, complete |-> c.complete \/ complete]
      BY <1>2, <1>4, <2>2, <2>3, <2>5, CopyIsExtended
    <3>2. new = [epoch |-> i, events |-> opening, complete |-> complete]
      BY <2>1, <2>2, <2>3, <3>1
    <3>3. new \in CopySet /\ new.epoch = i /\ new.events = opening /\ new.complete = complete
      BY <1>2, <1>4, <2>3, <3>2 DEF CopySet
    <3>4. copy' = [copy EXCEPT ![r] = new]
      BY <1>1 DEF c, complete, Fit
    <3> HIDE DEF new
    <3> QED  BY <1>2, <3>3, <3>4 DEF complete
  <2> QED  BY <2>4, <2>5
<1>7. /\ w \in WorkSet /\ w.on = r /\ w.todo = opening /\ w.seq = page.cursor + Len(opening)
      /\ w.shown = 0 /\ w.at = IF page.fit THEN "asking" ELSE "sending"
  <2>1. 0 \in 0..Parts /\ page.cursor + Len(opening) \in Nat
    BY <1>2, <1>5, TutorAssumption
  <2> QED  BY <2>1, <1>4 DEF NoWork, WorkSet, Fit
<1> HIDE DEF w
<1>8. /\ i \in Attempts /\ work'[i] = w /\ \A j \in Attempts \ {i} : work'[j] = work[j]
      /\ page' \in PageSet /\ page'.status = "reading" /\ page'.on = i /\ page'.tries = i
      /\ page'.text = page.text /\ page'.cursor = page.cursor /\ page'.fit = page.fit
      /\ TutorType' /\ HandlersInv' /\ CompleteInv'
  <2>1. w.at \in {"asking", "sending"}
    BY <1>7
  <2> QED  BY <1>1, <1>2, <1>o, <1>6, <1>7, <2>1, ConnectingKeepsHandlers
<1> HIDE DEF i
<1>9. \A j \in 1..Len(opening) : opening[j].kind # "done"
  BY <1>5
<1>10. UnfitInv'
  <2> SUFFICES ASSUME ~page.fit PROVE UnfitInv'
      BY <1>8 DEF UnfitInv
  <2>1. \A j \in Attempts : /\ work[j].at # "asking"
                            /\ \A k \in 1..Len(work[j].todo) : work[j].todo[k].kind # "done"
    BY DEF AnswerInv, UnfitInv
  <2>2. \A j \in Attempts : /\ work'[j].at # "asking"
                            /\ \A k \in 1..Len(work'[j].todo) : work'[j].todo[k].kind # "done"
    <3> TAKE j \in Attempts
    <3>1. CASE j = i  BY <3>1, <1>7, <1>8, <1>9
    <3>2. CASE j # i  BY <3>2, <1>8, <2>1
    <3> QED  BY <3>1, <3>2
  <2> QED  BY <2>2, <1>o, <1>6, <1>8, <1>9 DEF UnfitInv
<1>11. ReadingInv'
  <2> SUFFICES ASSUME page.fit
               PROVE  /\ \A j \in 1..Len(opening) : opening[j].id = page.cursor + j
                      /\ page.cursor + Len(opening) = w.seq
                      /\ Leads(page.text, opening, Len(opening), Prefix(i, w.shown))
      BY <1>7, <1>8 DEF ReadingInv
  <2> QED  BY <1>5, <1>7
<1>12. CopyInv'
  <2> SUFFICES ASSUME page.fit
               PROVE  LET rest == Unread(opening, w.seq, page.cursor)
                      IN  /\ \A j \in 1..Len(opening) : opening[j].id = w.seq - Len(opening) + j
                          /\ page.cursor \in (w.seq - Len(opening))..w.seq
                          /\ Len(opening) <= w.shown + 1
                          /\ Leads(page.text, rest, Len(rest), Prefix(i, w.shown))
                          /\ opening = rest
    <3>1. CASE ~page.fit \/ copy'[r] = None
      BY <3>1, <1>o, <1>8 DEF CopyInv
    <3>2. CASE page.fit /\ copy'[r] # None
      <4>1. copy'[r].epoch = i /\ copy'[r].events = opening /\ ~copy'[r].complete
        BY <3>2, <1>6
      <4>2. /\ w.at = "asking" /\ w.on = r /\ w.todo = opening /\ work'[i] = w
            /\ page'.cursor = page.cursor /\ page'.text = page.text /\ page'.on = i
        BY <3>2, <1>7, <1>8
      <4> QED  BY <3>2, <4>1, <4>2, <1>o DEF CopyInv
    <3> QED  BY <3>1, <3>2
  <2> DEFINE cursor == page.cursor
             n == Len(opening)
  <2>1. cursor \in Nat /\ n \in Nat /\ w.seq = cursor + n /\ w.shown = 0 /\ n <= 1
    BY <1>2, <1>5, <1>7
  <2>2. \A j \in 1..n : opening[j].id = cursor + j
    BY <1>5
  <2>3. Unread(opening, w.seq, cursor) = opening
    <3>1. w.seq \in Nat /\ cursor \in (w.seq - n)..w.seq /\ w.seq - cursor = n /\ n - n = 0
      <4> HIDE DEF cursor, n
      <4> QED  BY <2>1
    <3>2. /\ Unread(opening, w.seq, cursor) \in Seq(EventSet)
          /\ Len(Unread(opening, w.seq, cursor)) = n
          /\ \A j \in 1..n : Unread(opening, w.seq, cursor)[j] = opening[n - n + j]
      <4> DEFINE seq == w.seq
      <4>1. seq \in Nat /\ cursor \in Nat /\ cursor \in (seq - Len(opening))..seq /\ seq - cursor = n
        BY <3>1, <2>1
      <4> HIDE DEF seq, cursor
      <4>2. /\ Unread(opening, seq, cursor) \in Seq(EventSet)
            /\ Len(Unread(opening, seq, cursor)) = seq - cursor
            /\ \A j \in 1..(seq - cursor) :
                  Unread(opening, seq, cursor)[j] = opening[Len(opening) - (seq - cursor) + j]
        BY <4>1, <1>4, UnreadEvents
      <4> QED  BY <4>1, <4>2 DEF seq
    <3>3. \A j \in 1..n : n - n + j = j
      <4> HIDE DEF n
      <4> QED  BY <2>1
    <3> HIDE DEF cursor
    <3> QED  BY <3>2, <3>3, <1>4, SeqEqual
  <2>4. w.seq - n = cursor /\ cursor \in (w.seq - n)..w.seq /\ n <= w.shown + 1
    <3> HIDE DEF cursor, n
    <3> QED  BY <2>1
  <2> QED  BY <2>2, <2>3, <2>4, <1>5, <1>7
<1> QED  BY <1>8, <1>10, <1>11, <1>12 DEF AnswerInv

(***************************************************************************)
(* Requests that reach several processes.                                  *)
(***************************************************************************)

\* What holds of the page, its requests and the copies wherever these are.
StreamInv ==
    /\ TutorType
    /\ \A i \in Attempts : Runs(i) => work[i].on \in Replicas
    /\ page.status = "waiting" => page.tries < Tries
    /\ page.status = "idle" => page.tries = 0
    /\ \A i \in Attempts : i > page.tries => work[i].on = None
    /\ \A r \in Replicas : copy[r] # None => \E i \in Attempts : work[i].on = r

\* A request stays with the process it has reached.
OnStays == \A i \in Attempts : work[i].on # None => work'[i].on = work[i].on

LEMMA StreamInit == Init => StreamInv
<1> SUFFICES ASSUME Init PROVE StreamInv
    OBVIOUS
<1>1. TutorType
  BY AnswerInit DEF AnswerInv
<1>2. page = Blank /\ (\A i \in Attempts : work[i] = NoWork) /\ \A r \in Replicas : copy[r] = None
  BY DEF Init, TutorInit
<1> QED  BY <1>1, <1>2 DEF StreamInv, Blank, NoWork, Runs

\* A step in which no request reaches a process.
LEMMA NobodyConnects ==
    ASSUME StreamInv, TutorType', page.tries <= page'.tries,
           \A i \in Attempts : work'[i].on = work[i].on /\ (Runs(i)' => Runs(i)),
           page'.status = "waiting" => page'.tries < Tries,
           page'.status = "idle" => page'.tries = 0,
           \A r \in Replicas : copy'[r] # None => copy[r] # None
    PROVE  StreamInv' /\ OnStays
<1>1. page.tries \in Nat /\ page'.tries \in Nat
  BY TutorAssumption DEF StreamInv, TutorType, PageSet
<1>2. \A i \in Attempts : i > page'.tries => i > page.tries
  BY <1>1 DEF Attempts
<1> QED  BY <1>2 DEF StreamInv, OnStays

LEMMA EndingKeepsStream ==
    ASSUME StreamInv, NothingBegins
    PROVE  StreamInv' /\ OnStays
<1>1. TutorType'
  BY DEF StreamInv, NothingBegins, TutorType, LetsGo
<1>2. /\ page.tries <= page'.tries
      /\ page'.status = "waiting" => page'.tries < Tries
      /\ page'.status = "idle" => page'.tries = 0
  <2>1. page.tries \in Nat
    BY TutorAssumption DEF StreamInv, TutorType, PageSet
  <2> QED  BY <2>1 DEF StreamInv, NothingBegins, LetsGo
<1>3. \A i \in Attempts : work'[i].on = work[i].on /\ (Runs(i)' => Runs(i))
  <2> TAKE i \in Attempts
  <2>1. work[i] \in WorkSet  BY DEF StreamInv, TutorType
  <2>2. CASE work'[i] = work[i]  BY <2>2 DEF Runs
  <2>3. CASE Runs(i) /\ work'[i] = Ended(work[i])  BY <2>1, <2>3, EndedWork
  <2> QED  BY <2>2, <2>3 DEF NothingBegins
<1>4. \A r \in Replicas : copy'[r] # None => copy[r] # None
  BY DEF NothingBegins
<1> QED  BY <1>1, <1>2, <1>3, <1>4, NobodyConnects

LEMMA AskKeepsStream ==
    ASSUME StreamInv, Ask
    PROVE  StreamInv' /\ OnStays
<1>1. PICK fit \in BOOLEAN : page' = [page EXCEPT !.status = "waiting", !.fit = fit]
  BY DEF Ask
<1>2. page \in PageSet /\ page.tries = 0 /\ 0 < Tries
  BY TutorAssumption DEF Ask, StreamInv, TutorType
<1>3. page' \in PageSet /\ page'.status = "waiting" /\ page'.tries = 0
  BY <1>1, <1>2 DEF PageSet
<1>4. work' = work /\ copy' = copy
  BY DEF Ask
<1>5. TutorType'
  BY <1>3, <1>4 DEF StreamInv, TutorType
<1>6. \A i \in Attempts : work'[i].on = work[i].on /\ (Runs(i)' => Runs(i))
  BY <1>4 DEF Runs
<1> QED  BY <1>2, <1>3, <1>4, <1>5, <1>6, NobodyConnects

LEMMA PublishingKeepsStream ==
    ASSUME StreamInv, NEW i \in Attempts, NEW w \in WorkSet, NEW events \in Seq(EventSet),
           NEW complete \in BOOLEAN, Publishes(i, w, events, complete)
    PROVE  StreamInv' /\ OnStays
<1> DEFINE r == work[i].on
<1>1. /\ Asking(i) /\ page' = page /\ work' = [work EXCEPT ![i] = w] /\ w.on = work[i].on
      /\ copy' = [copy EXCEPT ![r] = Extended(copy[r], i, events, complete)]
  BY DEF Publishes, Publish
<1>2. /\ page \in PageSet /\ work \in [Attempts -> WorkSet] /\ DOMAIN copy = Replicas
      /\ r \in Replicas /\ Runs(i)
      /\ copy[r] # None => copy[r] \in CopySet
  <2>1. Runs(i)  BY <1>1 DEF Asking, Runs
  <2> QED  BY <2>1 DEF StreamInv, TutorType
<1> DEFINE new == Extended(copy[r], i, events, complete)
<1>r. r \in Replicas /\ copy' = [copy EXCEPT ![r] = new] /\ new = Extended(copy[r], i, events, complete)
  BY <1>1, <1>2
<1> HIDE DEF r, new
<1>3. /\ copy'[r] # None => copy'[r] \in CopySet /\ copy[r] # None
      /\ \A q \in Replicas : q # r => copy'[q] = copy[q]
  <2>1. copy'[r] = new /\ \A q \in Replicas : q # r => copy'[q] = copy[q]
    BY <1>2, <1>r
  <2>2. new # None => new \in CopySet /\ copy[r] # None
    BY <1>2, <1>r, CopyTyped
  <2> QED  BY <2>1, <2>2
<1>4. DOMAIN copy' = Replicas
  BY <1>2, <1>r
<1>w. work'[i] = w /\ \A j \in Attempts \ {i} : work'[j] = work[j]
  BY <1>1, <1>2
<1>5. TutorType'
  BY <1>1, <1>2, <1>3, <1>4 DEF StreamInv, TutorType
<1>6. \A j \in Attempts : work'[j].on = work[j].on /\ (Runs(j)' => Runs(j))
  <2> TAKE j \in Attempts
  <2>1. CASE j = i  BY <2>1, <1>1, <1>2, <1>w
  <2>2. CASE j # i  BY <2>2, <1>w DEF Runs
  <2> QED  BY <2>1, <2>2
<1>7. \A q \in Replicas : copy'[q] # None => copy[q] # None
  BY <1>3
<1>8. page.tries <= page.tries
  BY <1>2, TutorAssumption DEF PageSet
<1> QED  BY <1>1, <1>5, <1>6, <1>7, <1>8, NobodyConnects DEF StreamInv

LEMMA SendKeepsStream ==
    ASSUME StreamInv, NEW i \in Attempts, Send(i)
    PROVE  StreamInv' /\ OnStays
<1> DEFINE todo == work[i].todo
           w == [work[i] EXCEPT !.todo = Tail(@)]
<1>1. /\ page \in PageSet /\ work \in [Attempts -> WorkSet] /\ work[i] \in WorkSet
      /\ todo \in Seq(EventSet) /\ todo # << >> /\ copy' = copy
  BY DEF Send, StreamInv, TutorType, WorkSet
<1>2. Head(todo) \in EventSet /\ Tail(todo) \in Seq(EventSet)
  BY <1>1, HeadTailProperties
<1>3. work' = [work EXCEPT ![i] = w]
  BY <1>1 DEF Send
<1>4. w \in WorkSet /\ w.on = work[i].on /\ w.at = work[i].at
  BY <1>1, <1>2 DEF WorkSet
<1>5. page' = page \/ page' = Received(page, Head(todo))
  BY DEF Send
<1> HIDE DEF w
<1>6. /\ page' \in PageSet /\ page'.tries = page.tries
      /\ page'.status \in {page.status, "complete", "error"}
  <2>1. Head(todo).kind \in {"token", "reset", "done", "error"}
    BY <1>2 DEF EventSet
  <2> HIDE DEF todo
  <2> QED  BY <2>1, <1>1, <1>2, <1>5, ReceivedEvent
<1>7. TutorType'
  BY <1>1, <1>3, <1>4, <1>6 DEF StreamInv, TutorType
<1>8. \A j \in Attempts : work'[j].on = work[j].on /\ (Runs(j)' => Runs(j))
  <2> TAKE j \in Attempts
  <2>1. CASE j = i  BY <2>1, <1>1, <1>3, <1>4 DEF Runs
  <2>2. CASE j # i  BY <2>2, <1>1, <1>3 DEF Runs
  <2> QED  BY <2>1, <2>2
<1>9. page.tries <= page.tries
  BY <1>1, TutorAssumption DEF PageSet
<1> QED  BY <1>1, <1>6, <1>7, <1>8, <1>9, NobodyConnects DEF StreamInv

\* The i-th request reaches the process r.
Reaches(i, r, w) ==
    /\ page.status = "waiting" /\ i = page.tries + 1 /\ Connected(i)
    /\ w.on = r /\ work' = [work EXCEPT ![i] = w]
    /\ DOMAIN copy' = Replicas /\ (copy'[r] # None => copy'[r] \in CopySet)
    /\ \A q \in Replicas : q # r => copy'[q] = copy[q]

LEMMA ConnectingKeepsStream ==
    ASSUME StreamInv, NEW r \in Replicas, NEW i, NEW w \in WorkSet, Reaches(i, r, w)
    PROVE  StreamInv' /\ OnStays /\ i \in Attempts /\ work'[i].on = r
<1> USE DEF Reaches
<1>1. /\ page \in PageSet /\ work \in [Attempts -> WorkSet] /\ page.tries < Tries
      /\ page.tries \in Nat /\ Tries \in Nat
  BY TutorAssumption DEF StreamInv, TutorType, PageSet
<1>2. i \in Attempts /\ i \in 0..Tries /\ i > page.tries /\ i \in Nat
  BY <1>1 DEF Attempts
<1>3. page' \in PageSet /\ page'.status = "reading" /\ page'.tries = i
  BY <1>1, <1>2 DEF Connected, PageSet
<1>4. work'[i] = w /\ \A j \in Attempts \ {i} : work'[j] = work[j]
  BY <1>1, <1>2
<1>5. TutorType'
  BY <1>1, <1>2, <1>3 DEF StreamInv, TutorType
<1>6. OnStays
  BY <1>2, <1>4 DEF StreamInv, OnStays
<1>7. \A j \in Attempts : Runs(j)' => work'[j].on \in Replicas
  <2> TAKE j \in Attempts
  <2>1. CASE j = i  BY <2>1, <1>4
  <2>2. CASE j # i  BY <2>2, <1>4 DEF StreamInv, Runs
  <2> QED  BY <2>1, <2>2
<1>8. \A j \in Attempts : j > i => work'[j].on = None
  <2> TAKE j \in Attempts
  <2> HAVE j > i
  <2>1. j > page.tries /\ j # i
    BY <1>1, <1>2 DEF Attempts
  <2> QED  BY <2>1, <1>4 DEF StreamInv
<1>9. \A q \in Replicas : copy'[q] # None => \E j \in Attempts : work'[j].on = q
  <2> TAKE q \in Replicas
  <2> HAVE copy'[q] # None
  <2>1. CASE q = r  BY <2>1, <1>2, <1>4
  <2>2. CASE q # r
    <3>1. PICK j \in Attempts : work[j].on = q
      BY <2>2 DEF StreamInv
    <3>2. q # None  BY AssetsAssumption DEF Processes
    <3> QED  BY <3>1, <3>2, <1>6 DEF OnStays
  <2> QED  BY <2>1, <2>2
<1> QED  BY <1>2, <1>3, <1>4, <1>5, <1>6, <1>7, <1>8, <1>9 DEF StreamInv

LEMMA ReplayKeepsStream ==
    ASSUME StreamInv, NEW r \in Replicas, Replay(r)
    PROVE  StreamInv' /\ OnStays /\ page.tries + 1 \in Attempts /\ work'[page.tries + 1].on = r
<1> DEFINE i == page.tries + 1
           log == Backlog(copy[r], page.cursor)
           w == [NoWork EXCEPT !.at = "sending", !.on = r, !.todo = log]
<1>1. /\ page.status = "waiting" /\ copy[r] # None /\ Connected(i)
      /\ work' = [work EXCEPT ![i] = w] /\ copy' = copy
  BY DEF Replay, HasAnswer
<1>2. copy[r] \in CopySet /\ page.cursor \in Nat /\ DOMAIN copy = Replicas
  BY <1>1 DEF StreamInv, TutorType, PageSet
<1>3. log \in Seq(EventSet)
  BY <1>2, BacklogIsOfTheCopy
<1> HIDE DEF log
<1>4. w \in WorkSet /\ w.on = r
  <2>1. 0 \in 0..Parts /\ 0 \in Nat  BY TutorAssumption
  <2> QED  BY <2>1, <1>3 DEF NoWork, WorkSet
<1> HIDE DEF w, i
<1>5. i = page.tries + 1  BY DEF i
<1>6. Reaches(i, r, w)
  BY <1>1, <1>2, <1>4, <1>5 DEF Reaches
<1>7. StreamInv' /\ OnStays /\ i \in Attempts /\ work'[i].on = r
  BY <1>4, <1>6, ConnectingKeepsStream
<1> QED  BY <1>5, <1>7

LEMMA GenerateKeepsStream ==
    ASSUME StreamInv, NEW r \in Replicas, Generate(r)
    PROVE  StreamInv' /\ OnStays /\ page.tries + 1 \in Attempts /\ work'[page.tries + 1].on = r
<1> DEFINE i == page.tries + 1
           fit == page.fit
           plain == StartsOver(page.cursor) \o (IF fit THEN << >> ELSE <<Event("error", << >>)>>)
           opening == Numbered(plain, page.cursor)
           new == Extended(Begun(i), i, opening, ~fit)
           w == [NoWork EXCEPT !.at = IF fit THEN "asking" ELSE "sending", !.on = r,
                               !.seq = page.cursor + Len(opening), !.todo = opening]
<1>1. /\ page.status = "waiting" /\ Connected(i) /\ work' = [work EXCEPT ![i] = w]
      /\ copy' = [copy EXCEPT ![r] = new]
  BY DEF Generate, Fit
<1>2. /\ page.cursor \in Nat /\ fit \in BOOLEAN /\ page.tries \in Nat /\ i \in Attempts
      /\ DOMAIN copy = Replicas
  <2>1. page \in PageSet /\ page.tries < Tries /\ DOMAIN copy = Replicas
    BY <1>1 DEF StreamInv, TutorType
  <2>2. page.tries \in 0..Tries /\ Tries \in Nat
    BY <2>1, TutorAssumption DEF PageSet
  <2> QED  BY <2>1, <2>2 DEF PageSet, Attempts
<1>3. opening \in Seq(EventSet) /\ Len(opening) \in Nat
  <2> DEFINE cursor == page.cursor
             text == << >>
  <2>1. cursor \in Nat /\ text \in Seq(Piece) /\ fit \in BOOLEAN /\ (fit /\ cursor = 0 => text = << >>)
    BY <1>2
  <2>2. i \in Attempts  BY <1>2
  <2> HIDE DEF cursor, text, fit, i
  <2>3. StartsOver(cursor) \o (IF fit THEN << >> ELSE <<Event("error", << >>)>>) \in Seq(EventSet)
    BY <2>1, <2>2, OpeningOfAStream
  <2>4. plain \in Seq(EventSet)
    BY <2>3 DEF cursor
  <2> HIDE DEF plain
  <2>5. opening \in Seq(EventSet)
    BY <2>4, <1>2, EventsAreNumbered
  <2> QED  BY <2>5
<1> HIDE DEF plain, opening
<1>4. Begun(i) \in CopySet
  <2>1. << >> \in Seq(EventSet)  OBVIOUS
  <2> QED  BY <1>2, <2>1 DEF Begun, CopySet
<1>5. new = None \/ new \in CopySet
  <2> DEFINE over == ~fit
  <2>1. over \in BOOLEAN  BY <1>2
  <2> HIDE DEF i, over
  <2>2. Extended(Begun(i), i, opening, over) = None \/ Extended(Begun(i), i, opening, over) \in CopySet
    BY <1>2, <1>3, <1>4, <2>1, CopyTyped
  <2> QED  BY <2>2 DEF over
<1>6. copy'[r] = new /\ \A q \in Replicas : q # r => copy'[q] = copy[q]
  <2> HIDE DEF new
  <2> QED  BY <1>1, <1>2
<1>7. w \in WorkSet /\ w.on = r
  <2>1. 0 \in 0..Parts /\ page.cursor + Len(opening) \in Nat
    BY <1>2, <1>3, TutorAssumption
  <2> QED  BY <2>1, <1>3 DEF NoWork, WorkSet
<1> HIDE DEF w, i, new
<1>8. i = page.tries + 1  BY DEF i
<1>d. DOMAIN copy' = Replicas  BY <1>1, <1>2
<1>9. StreamInv' /\ OnStays /\ i \in Attempts /\ work'[i].on = r
  <2>1. copy'[r] # None => copy'[r] \in CopySet
    BY <1>5, <1>6
  <2>2. \A q \in Replicas : q # r => copy'[q] = copy[q]
    BY <1>6
  <2>3. page.status = "waiting" /\ Connected(i) /\ work' = [work EXCEPT ![i] = w]
    BY <1>1
  <2>4. Reaches(i, r, w)
    BY <2>1, <2>2, <2>3, <1>7, <1>8, <1>d DEF Reaches
  <2> QED  BY <2>4, <1>7, ConnectingKeepsStream
<1> QED  BY <1>8, <1>9

\* Where the requests have reached one process, it has the only copy.
LEMMA ServedAlone ==
    ASSUME StreamInv, OnStays, ServedByOne', NEW r \in Replicas, NEW i \in Attempts, work'[i].on = r
    PROVE  Alone(r)
<1>1. None \notin Replicas
  BY AssetsAssumption DEF Processes
<1>2. ASSUME NEW j \in Attempts PROVE work[j].on \in {None, r}
  <2> SUFFICES ASSUME work[j].on # None PROVE work[j].on = r
      OBVIOUS
  <2>1. work[j].on \in Replicas /\ work'[j].on = work[j].on
    BY DEF StreamInv, TutorType, WorkSet, OnStays
  <2> QED  BY <2>1 DEF ServedByOne
<1>3. ASSUME NEW q \in Replicas, q # r PROVE copy[q] = None
  <2> SUFFICES ASSUME copy[q] # None PROVE FALSE
      OBVIOUS
  <2>1. PICK j \in Attempts : work[j].on = q
    BY DEF StreamInv
  <2> QED  BY <2>1, <1>1, <1>2, <1>3
<1> QED  BY <1>2, <1>3 DEF Alone

\* The steps of the pages, of their requests, of the threads and of the records
\* leave the stream alone; one request at a time reaches a process.
LEMMA StreamStep ==
    ASSUME StreamInv, [Next]_vars
    PROVE  StreamInv' /\ OnStays
<1> USE DEF StreamInv
<1>1. CASE UNCHANGED tutorVars
  BY <1>1 DEF tutorVars, TutorType, Runs, OnStays
<1>2. CASE Ask
  BY <1>2, AskKeepsStream
<1>3. CASE Drop \/ GiveUp \/ \E r \in Replicas : Refuse(r) \/ Evict(r)
  BY <1>3, ConnectionsEnd, EndingKeepsStream
<1>4. ASSUME NEW r \in Replicas, Replay(r) \/ Generate(r) PROVE StreamInv' /\ OnStays
  BY <1>4, ReplayKeepsStream, GenerateKeepsStream
<1>5. ASSUME NEW i \in Attempts, Show(i) PROVE StreamInv' /\ OnStays
  <2>1. PICK w \in WorkSet, events \in Seq(EventSet) : Publishes(i, w, events, FALSE)
    BY <1>5, ShowPublishes
  <2> QED  BY <2>1, PublishingKeepsStream
<1>6. ASSUME NEW i \in Attempts, Send(i) \/ End(i) \/ Cancel(i) PROVE StreamInv' /\ OnStays
  BY <1>6, SendKeepsStream, HandlersEnd, EndingKeepsStream
<1>7. ASSUME NEW keep \in BOOLEAN, NEW result \in SaveResults, NEW r \in Replicas,
             AnswerPlainly(r, keep, result)
      PROVE  StreamInv' /\ OnStays
  BY <1>1, <1>7 DEF AnswerPlainly
<1>8. ASSUME NEW keep \in BOOLEAN, NEW result \in SaveResults, NEW i \in Attempts,
             NEW replaced \in BOOLEAN, Finish(i, replaced, keep, result)
      PROVE  StreamInv' /\ OnStays
  <2>1. PICK w \in WorkSet, events \in Seq(EventSet) : Publishes(i, w, events, TRUE)
    BY <1>8, FinishPublishes
  <2> QED  BY <2>1, PublishingKeepsStream
<1>9. ASSUME NEW r \in Replicas, RestartTutor(r) PROVE StreamInv' /\ OnStays
  BY <1>9, RestartEnds, EndingKeepsStream
<1>10. CASE TutorNext
  BY <1>2, <1>3, <1>4, <1>5, <1>6, <1>7, <1>8, <1>10 DEF TutorNext
<1> QED  BY <1>1, <1>9, <1>10 DEF Next, vars

LEMMA AnswerStep ==
    ASSUME StreamInv, AnswerInv, ServedByOne', [Next]_vars
    PROVE  AnswerInv'
<1>0. OnStays
  BY StreamStep
<1>1. CASE UNCHANGED tutorVars
  BY <1>1 DEF tutorVars, AnswerInv, TutorType, HandlersInv, UnfitInv, ReadingInv, CopyInv, CompleteInv,
              Open, Live, Runs
<1>2. CASE Ask
  BY <1>2, AskKeepsAnswer
<1>3. CASE Drop \/ GiveUp \/ \E r \in Replicas : Refuse(r) \/ Evict(r)
  BY <1>3, ConnectionsEnd, EndingKeepsAnswer DEF AnswerInv, HandlersInv
<1>4. ASSUME NEW r \in Replicas, Replay(r) \/ Generate(r) PROVE AnswerInv'
  <2>1. page.tries + 1 \in Attempts /\ work'[page.tries + 1].on = r
    BY <1>4, ReplayKeepsStream, GenerateKeepsStream
  <2>2. Alone(r)
    BY <2>1, <1>0, ServedAlone
  <2> QED  BY <2>2, <1>4, ReplayKeepsAnswer, GenerateKeepsAnswer
<1>5. ASSUME NEW i \in Attempts, Runs(i) PROVE Alone(work[i].on)
  <2>1. work[i].on \in Replicas /\ work'[i].on = work[i].on
    BY <1>0, <1>5, AssetsAssumption DEF StreamInv, OnStays, Processes
  <2> QED  BY <2>1, <1>0, ServedAlone
<1>6. ASSUME NEW i \in Attempts, Show(i) PROVE AnswerInv'
  <2>1. PICK w \in WorkSet, events \in Seq(EventSet) : Publishes(i, w, events, FALSE)
    BY <1>6, ShowPublishes DEF AnswerInv
  <2>2. Runs(i) /\ work[i].on \in Replicas
    BY <1>6 DEF Show, Asking, Runs, StreamInv
  <2> QED  BY <2>1, <2>2, <1>5, PublishingKeepsAnswer
<1>7. ASSUME NEW i \in Attempts, Send(i) PROVE AnswerInv'
  <2>1. Runs(i) /\ work[i].on \in Replicas
    BY <1>7 DEF Send, StreamInv
  <2> QED  BY <2>1, <1>5, <1>7, SendToNobody, SendToPage
<1>8. ASSUME NEW i \in Attempts, End(i) \/ Cancel(i) PROVE AnswerInv'
  BY <1>8, HandlersEnd, EndingKeepsAnswer DEF AnswerInv
<1>9. ASSUME NEW keep \in BOOLEAN, NEW result \in SaveResults, NEW r \in Replicas,
             AnswerPlainly(r, keep, result)
      PROVE  AnswerInv'
  BY <1>1, <1>9 DEF AnswerPlainly
<1>10. ASSUME NEW keep \in BOOLEAN, NEW result \in SaveResults, NEW i \in Attempts,
              NEW replaced \in BOOLEAN, Finish(i, replaced, keep, result)
       PROVE  AnswerInv'
  <2>1. PICK w \in WorkSet, events \in Seq(EventSet) : Publishes(i, w, events, TRUE)
    BY <1>10, FinishPublishes DEF AnswerInv
  <2>2. Runs(i) /\ work[i].on \in Replicas
    BY <1>10 DEF Finish, Asking, Runs, StreamInv
  <2> QED  BY <2>1, <2>2, <1>5, PublishingKeepsAnswer
<1>11. ASSUME NEW r \in Replicas, RestartTutor(r) PROVE AnswerInv'
  BY <1>11, RestartEnds, EndingKeepsAnswer DEF AnswerInv
<1>12. CASE TutorNext
  BY <1>2, <1>3, <1>4, <1>6, <1>7, <1>8, <1>9, <1>10, <1>12 DEF TutorNext
<1> QED  BY <1>1, <1>11, <1>12 DEF Next, vars

\* A message the page calls complete is the whole checked answer of one
\* generation, if its requests reached one of the processes, for any number of
\* processes, of requests and of parts of the answer: however often the stream
\* broke, was refused, started over or was replayed, and whatever else the
\* devices, threads and workers did.
THEOREM AnswersAreWhole == Spec => []AnswerIsWhole
<1> DEFINE Inv == StreamInv /\ (ServedByOne => AnswerInv)
<1>1. Init => Inv
  BY StreamInit, AnswerInit
<1>2. Inv /\ [Next]_vars => Inv'
  <2> SUFFICES ASSUME Inv, [Next]_vars PROVE StreamInv' /\ (ServedByOne' => AnswerInv')
      OBVIOUS
  <2>1. StreamInv' /\ OnStays
    BY StreamStep
  <2>2. ServedByOne' => ServedByOne
    BY <2>1, AssetsAssumption DEF ServedByOne, OnStays, Processes
  <2> QED  BY <2>1, <2>2, AnswerStep
<1>3. Inv => AnswerIsWhole
  <2> SUFFICES ASSUME AnswerInv PROVE CompleteIsWhole
      BY DEF AnswerIsWhole
  <2> QED  BY DEF AnswerInv, CompleteInv, CompleteIsWhole
<1> HIDE DEF Inv
<1> QED  BY <1>1, <1>2, <1>3, PTL DEF Spec
=============================================================================
