------------------------ MODULE CoursePlanningProofs ------------------------
(***************************************************************************)
(* Proofs about CoursePlanning for every set of courses, contexts, hours   *)
(* and difficulties: the order a planner keeps, the cost of a journey as   *)
(* mastery grows, that the paths the planners choose are the cheapest, and *)
(* that the reduction of an imported graph is exact.                       *)
(***************************************************************************)
EXTENDS CoursePlanning, FiniteSetTheorems, SequenceTheorems, WellFoundedInduction, TLAPS

-----------------------------------------------------------------------------
(* Recursive functions and concatenations. *)

(* What holds at lo and is handed on by every step holds up to n. *)
LEMMA UpTo ==
    ASSUME NEW lo \in Nat, NEW n \in Nat, NEW P,
           lo \in P, \A i \in lo .. n - 1 : i \in P => i + 1 \in P
    PROVE  \A i \in lo .. n : i \in P
<1>1. SUFFICES ASSUME \E i \in lo .. n : i \notin P
               PROVE  FALSE
  OBVIOUS
<1> DEFINE Left == {i \in lo .. n : i \notin P}
<1>2. PICK k \in Left : \A i \in Left : ~(i < k)
  <2>1. Left \subseteq Nat /\ Left # {}
    BY <1>1
  <2>2. \E x \in Left : \A y \in Left : ~ (<<y, x>> \in OpToRel(<, Nat))
    BY <2>1, NatLessThanWellFounded, WFMin
  <2> QED
    BY <2>1, <2>2 DEF OpToRel
<1>3. k # lo /\ k - 1 \in lo .. n - 1
  BY <1>2
<1>4. k - 1 \in P
  BY <1>2, <1>3
<1> QED
  BY <1>2, <1>3, <1>4

(* A function that is defined from its value at the number before exists. *)
Unrolls(f, lo, n, b, step) == f = [i \in lo .. n |-> IF i = lo THEN b ELSE step[<<i, f[i - 1]>>]]

LEMMA Recursion ==
    ASSUME NEW S, NEW b \in S, NEW lo \in Nat, NEW n \in Nat, lo =< n,
           NEW step \in [(lo .. n) \X S -> S]
    PROVE  \E f \in [lo .. n -> S] : Unrolls(f, lo, n, b, step)
<1> DEFINE Good(m, f) == \A i \in lo .. m : f[i] = IF i = lo THEN b ELSE step[<<i, f[i - 1]>>]
           P == {m \in lo .. n : \E f \in [lo .. m -> S] : Good(m, f)}
<1>1. lo \in P
  <2> DEFINE f == [i \in lo .. lo |-> b]
  <2>1. f \in [lo .. lo -> S] /\ Good(lo, f)
    OBVIOUS
  <2> HIDE DEF f
  <2> QED
    BY <2>1
<1>2. ASSUME NEW m \in lo .. n - 1, m \in P
      PROVE  m + 1 \in P
  <2>1. PICK f \in [lo .. m -> S] : Good(m, f)
    BY <1>2
  <2> DEFINE g == [i \in lo .. m + 1 |-> IF i = m + 1 THEN step[<<m + 1, f[m]>>] ELSE f[i]]
  <2>2. step[<<m + 1, f[m]>>] \in S
    <3>1. f[m] \in S /\ m + 1 \in lo .. n
      OBVIOUS
    <3> QED
      BY <3>1
  <2>3. g \in [lo .. m + 1 -> S]
    BY <2>2
  <2>4. ASSUME NEW i \in lo .. m + 1
        PROVE  g[i] = IF i = lo THEN b ELSE step[<<i, g[i - 1]>>]
    <3>1. CASE i = m + 1
      <4>1. i # lo /\ i - 1 = m /\ g[m] = f[m] /\ g[i] = step[<<m + 1, f[m]>>]
        BY <3>1
      <4> QED
        BY <3>1, <4>1
    <3>2. CASE i \in lo .. m
      <4>1. g[i] = f[i] /\ (i # lo => g[i - 1] = f[i - 1])
        BY <3>2
      <4> QED
        BY <2>1, <3>2, <4>1
    <3> QED
      BY <3>1, <3>2
  <2> HIDE DEF g
  <2> QED
    BY <2>3, <2>4
<1>3. n \in P
  <2> HIDE DEF P
  <2>1. \A i \in lo .. n : i \in P
    BY <1>1, <1>2, UpTo
  <2> QED
    BY <2>1
<1>4. PICK f \in [lo .. n -> S] : Good(n, f)
  BY <1>3
<1>5. Unrolls(f, lo, n, b, step)
  BY <1>4 DEF Unrolls
<1> QED
  BY <1>5

Joins(f, seqs, n) == f = [i \in 1 .. n |-> IF i = 1 THEN seqs[i] ELSE f[i - 1] \o seqs[i]]

LEMMA FlattenLast ==
    ASSUME NEW T, NEW n \in Nat, 1 =< n, NEW seqs \in [1 .. n -> T], Len(seqs) = n,
           \A s, t \in T : s \o t \in T
    PROVE  \E f \in [1 .. n -> T] : Joins(f, seqs, n) /\ FlattenSeq(seqs) = f[n]
<1> DEFINE step == [x \in (1 .. n) \X T |-> x[2] \o seqs[x[1]]]
           Eq(h) == h = [i \in 1 .. n |-> IF i = 1 THEN seqs[i] ELSE h[i - 1] \o seqs[i]]
<1>1. \A i \in 1 .. n : seqs[i] \in T
  OBVIOUS
<1>2. step \in [(1 .. n) \X T -> T]
  BY <1>1
<1>3. \A i \in 1 .. n : \A s \in T : step[<<i, s>>] = s \o seqs[i]
  OBVIOUS
<1> HIDE DEF step
<1>4. PICK g \in [1 .. n -> T] : Unrolls(g, 1, n, seqs[1], step)
  <2>1. 1 \in Nat /\ seqs[1] \in T
    BY <1>1
  <2> QED
    BY <1>2, <2>1, Recursion
<1>6. Eq(g)
  <2>1. \A i \in 1 .. n : g[i] = IF i = 1 THEN seqs[i] ELSE g[i - 1] \o seqs[i]
    <3> TAKE i \in 1 .. n
    <3>1. g[i] = IF i = 1 THEN seqs[1] ELSE step[<<i, g[i - 1]>>]
      BY <1>4 DEF Unrolls
    <3>2. i # 1 => i \in 1 .. n /\ g[i - 1] \in T
      BY <1>1, <1>4
    <3> QED
      BY <1>3, <3>1, <3>2
  <2> QED
    BY <1>4, <2>1
<1> DEFINE c == CHOOSE h : Eq(h)
<1>7. Eq(c)
  BY <1>6
<1>8. FlattenSeq(seqs) = c[n]
  BY DEF FlattenSeq
<1> HIDE DEF c
<1>9. c \in [1 .. n -> T]
  <2> DEFINE P == {i \in 1 .. n : c[i] \in T}
  <2>1. \A i \in 1 .. n : c[i] = IF i = 1 THEN seqs[i] ELSE c[i - 1] \o seqs[i]
    BY <1>7
  <2>2. 1 \in P
    BY <1>1, <2>1
  <2>3. \A i \in 1 .. n - 1 : i \in P => i + 1 \in P
    <3> TAKE i \in 1 .. n - 1
    <3>1. i \in 1 .. n /\ i + 1 \in 1 .. n /\ i + 1 # 1 /\ (i + 1) - 1 = i
      OBVIOUS
    <3>2. c[i + 1] = c[i] \o seqs[i + 1]
      BY <2>1, <3>1
    <3> QED
      BY <1>1, <3>1, <3>2
  <2>4. \A i \in 1 .. n : i \in P
    <3> HIDE DEF P
    <3> QED
      BY <1>1, <2>2, <2>3, UpTo
  <2> QED
    BY <1>7, <2>4
<1> QED
  BY <1>7, <1>8, <1>9 DEF Joins

(* A concatenation: every entry comes from one place of one of the parts, *)
(* in the order of the parts, and nothing is lost.                        *)
Origin(seqs, n, t, from, at) ==
    /\ from \in [1 .. Len(t) -> 1 .. n] /\ at \in [1 .. Len(t) -> Nat]
    /\ \A p \in 1 .. Len(t) : at[p] \in 1 .. Len(seqs[from[p]]) /\ t[p] = seqs[from[p]][at[p]]
    /\ \A p, q \in 1 .. Len(t) : p < q => from[p] < from[q] \/ (from[p] = from[q] /\ at[p] < at[q])
    /\ \A i \in 1 .. n : \A k \in 1 .. Len(seqs[i]) : \E p \in 1 .. Len(t) : from[p] = i /\ at[p] = k

LEMMA OriginExtends ==
    ASSUME NEW S, NEW n \in Nat, NEW seqs, NEW m \in 0 .. n - 1,
           \A i \in 1 .. n : seqs[i] \in Seq(S),
           NEW t \in Seq(S), NEW from, NEW at, Origin(seqs, m, t, from, at)
    PROVE  \E newFrom, newAt : Origin(seqs, m + 1, t \o seqs[m + 1], newFrom, newAt)
<1> DEFINE s == seqs[m + 1]
           u == t \o s
           f == [p \in 1 .. Len(u) |-> IF p =< Len(t) THEN from[p] ELSE m + 1]
           a == [p \in 1 .. Len(u) |-> IF p =< Len(t) THEN at[p] ELSE p - Len(t)]
<1>1. s \in Seq(S) /\ Len(s) \in Nat /\ Len(t) \in Nat
  OBVIOUS
<1>2. /\ Len(u) = Len(t) + Len(s)
      /\ \A p \in 1 .. Len(u) : u[p] = IF p =< Len(t) THEN t[p] ELSE s[p - Len(t)]
  BY <1>1
<1>3. /\ \A i \in 1 .. m : Len(seqs[i]) \in Nat
      /\ \A p \in 1 .. Len(t) : from[p] \in 1 .. m /\ at[p] \in Nat
  BY DEF Origin
<1> HIDE DEF u, s
<1>4. \A p \in 1 .. Len(u) : p =< Len(t) => p \in 1 .. Len(t)
  BY <1>1, <1>2
<1>5. \A p \in 1 .. Len(u) : ~(p =< Len(t)) => p - Len(t) \in 1 .. Len(s)
  BY <1>1, <1>2
<1>6. f \in [1 .. Len(u) -> 1 .. m + 1] /\ a \in [1 .. Len(u) -> Nat]
  <2>1. \A p \in 1 .. Len(u) : f[p] \in 1 .. m + 1 /\ a[p] \in Nat
    BY <1>3, <1>4, <1>5, <1>1
  <2> QED
    BY <2>1
<1>7. \A p \in 1 .. Len(u) : /\ p =< Len(t) => f[p] = from[p] /\ a[p] = at[p]
                             /\ ~(p =< Len(t)) => f[p] = m + 1 /\ a[p] = p - Len(t)
  OBVIOUS
<1> HIDE DEF f, a
<1>8. \A p \in 1 .. Len(u) : a[p] \in 1 .. Len(seqs[f[p]]) /\ u[p] = seqs[f[p]][a[p]]
  <2> TAKE p \in 1 .. Len(u)
  <2>1. CASE p =< Len(t)
    <3>1. p \in 1 .. Len(t) /\ f[p] = from[p] /\ a[p] = at[p] /\ u[p] = t[p]
      BY <2>1, <1>2, <1>4, <1>7
    <3>2. at[p] \in 1 .. Len(seqs[from[p]]) /\ t[p] = seqs[from[p]][at[p]]
      BY <3>1 DEF Origin
    <3> QED
      BY <3>1, <3>2
  <2>2. CASE ~(p =< Len(t))
    <3>1. f[p] = m + 1 /\ a[p] = p - Len(t) /\ u[p] = s[p - Len(t)] /\ a[p] \in 1 .. Len(s)
      BY <2>2, <1>2, <1>5, <1>7
    <3> QED
      BY <3>1 DEF s
  <2> QED
    BY <2>1, <2>2
<1>9. \A p, q \in 1 .. Len(u) : p < q => f[p] < f[q] \/ (f[p] = f[q] /\ a[p] < a[q])
  <2> TAKE p, q \in 1 .. Len(u)
  <2> HAVE p < q
  <2>1. CASE q =< Len(t)
    <3>1. p =< Len(t) /\ p \in 1 .. Len(t) /\ q \in 1 .. Len(t)
      BY <2>1, <1>1, <1>4
    <3>2. from[p] < from[q] \/ (from[p] = from[q] /\ at[p] < at[q])
      BY <3>1 DEF Origin
    <3> QED
      BY <2>1, <3>1, <3>2, <1>7
  <2>2. CASE ~(q =< Len(t)) /\ p =< Len(t)
    <3>1. from[p] \in 1 .. m
      BY <2>2, <1>3, <1>4
    <3> QED
      BY <2>2, <3>1, <1>7
  <2>3. CASE ~(q =< Len(t)) /\ ~(p =< Len(t))
    BY <2>3, <1>1, <1>7
  <2> QED
    BY <2>1, <2>2, <2>3
<1>10. \A i \in 1 .. m + 1 : \A k \in 1 .. Len(seqs[i]) : \E p \in 1 .. Len(u) : f[p] = i /\ a[p] = k
  <2> TAKE i \in 1 .. m + 1
  <2> TAKE k \in 1 .. Len(seqs[i])
  <2>1. CASE i = m + 1
    <3> DEFINE p == Len(t) + k
    <3>1. k \in 1 .. Len(s)
      BY <2>1 DEF s
    <3>2. p \in 1 .. Len(u) /\ ~(p =< Len(t)) /\ p - Len(t) = k
      BY <3>1, <1>1, <1>2
    <3> HIDE DEF p
    <3> QED
      BY <2>1, <3>2, <1>7
  <2>2. CASE i \in 1 .. m
    <3>1. PICK p \in 1 .. Len(t) : from[p] = i /\ at[p] = k
      BY <2>2 DEF Origin
    <3>2. p \in 1 .. Len(u) /\ p =< Len(t)
      BY <1>1, <1>2
    <3> QED
      BY <3>1, <3>2, <1>7
  <2> QED
    BY <2>1, <2>2
<1>11. Origin(seqs, m + 1, u, f, a)
  BY <1>6, <1>8, <1>9, <1>10 DEF Origin
<1> QED
  BY <1>11 DEF u, s

LEMMA OriginFirst ==
    ASSUME NEW S, NEW n \in Nat, 1 =< n, NEW seqs, \A i \in 1 .. n : seqs[i] \in Seq(S)
    PROVE  \E from, at : Origin(seqs, 1, seqs[1], from, at)
<1> DEFINE f == [p \in 1 .. Len(seqs[1]) |-> 1]
           a == [p \in 1 .. Len(seqs[1]) |-> p]
<1>1. Len(seqs[1]) \in Nat
  OBVIOUS
<1>2. Origin(seqs, 1, seqs[1], f, a)
  BY <1>1 DEF Origin
<1> HIDE DEF f, a
<1> QED
  BY <1>2

LEMMA FlattenOrigin ==
    ASSUME NEW S, NEW n \in Nat, NEW seqs \in [1 .. n -> Seq(S)]
    PROVE  FlattenSeq(seqs) \in Seq(S) /\ \E from, at : Origin(seqs, n, FlattenSeq(seqs), from, at)
<1>0. Len(seqs) = n /\ \A i \in 1 .. n : seqs[i] \in Seq(S)
  <2> DEFINE T == Seq(S)
  <2>1. seqs \in [1 .. n -> T]
    OBVIOUS
  <2> HIDE DEF T
  <2>2. Len(seqs) = n
    BY <2>1
  <2> QED
    BY <2>2
<1>1. CASE n = 0
  <2>1. seqs = <<>>
    BY <1>0, <1>1
  <2>2. FlattenSeq(seqs) = <<>>
    BY <2>1, <1>0, <1>1 DEF FlattenSeq
  <2> DEFINE f == [p \in 1 .. 0 |-> 1]
  <2>3. Origin(seqs, 0, <<>>, f, f)
    BY DEF Origin
  <2> HIDE DEF f
  <2> QED
    BY <2>2, <2>3, <1>1
<1>2. CASE n # 0
  <2> DEFINE T == Seq(S)
  <2>1. 1 =< n /\ seqs \in [1 .. n -> T] /\ \A s, t \in T : s \o t \in T
    BY <1>2
  <2> HIDE DEF T
  <2>2. PICK c \in [1 .. n -> T] : Joins(c, seqs, n) /\ FlattenSeq(seqs) = c[n]
    BY <2>1, <1>0, FlattenLast
  <2>3. \A i \in 1 .. n : c[i] = IF i = 1 THEN seqs[i] ELSE c[i - 1] \o seqs[i]
    BY <2>2 DEF Joins
  <2> DEFINE P == {i \in 1 .. n : \E from, at : Origin(seqs, i, c[i], from, at)}
  <2>4. 1 \in P
    <3>1. c[1] = seqs[1] /\ 1 \in 1 .. n
      BY <2>1, <2>3
    <3>2. \E from, at : Origin(seqs, 1, seqs[1], from, at)
      BY <2>1, <1>0, OriginFirst
    <3> QED
      BY <3>1, <3>2
  <2>5. \A i \in 1 .. n - 1 : i \in P => i + 1 \in P
    <3> TAKE i \in 1 .. n - 1
    <3> HAVE i \in P
    <3>1. i \in 1 .. n /\ i + 1 \in 1 .. n /\ i + 1 # 1 /\ (i + 1) - 1 = i /\ i \in 0 .. n - 1
      OBVIOUS
    <3>2. c[i + 1] = c[i] \o seqs[i + 1] /\ c[i] \in Seq(S)
      BY <2>3, <3>1 DEF T
    <3>3. PICK from, at : Origin(seqs, i, c[i], from, at)
      OBVIOUS
    <3>4. \E newFrom, newAt : Origin(seqs, i + 1, c[i] \o seqs[i + 1], newFrom, newAt)
      BY <1>0, <3>1, <3>2, <3>3, OriginExtends
    <3> QED
      BY <3>1, <3>2, <3>4
  <2>6. \A i \in 1 .. n : i \in P
    <3> HIDE DEF P
    <3> QED
      BY <2>1, <2>4, <2>5, UpTo
  <2>7. n \in 1 .. n
    BY <2>1
  <2> QED
    BY <2>2, <2>6, <2>7 DEF T
<1> QED
  BY <1>1, <1>2

-----------------------------------------------------------------------------
(* Sequences that are sifted, and sequences without repetition. *)

(* What is left of a sequence after a selection of its positions. *)
Picks(s, keep, t, from) ==
    /\ from \in [1 .. Len(t) -> 1 .. Len(s)]
    /\ \A p \in 1 .. Len(t) : from[p] \in keep /\ t[p] = s[from[p]]
    /\ \A p, q \in 1 .. Len(t) : p < q => from[p] < from[q]
    /\ \A i \in 1 .. Len(s) : i \in keep => \E p \in 1 .. Len(t) : from[p] = i

LEMMA SiftPicks ==
    ASSUME NEW S, NEW s \in Seq(S), NEW keep
    PROVE  Sift(s, keep) \in Seq(S) /\ \E from : Picks(s, keep, Sift(s, keep), from)
<1> DEFINE n == Len(s)
           seqs == [i \in 1 .. n |-> IF i \in keep THEN <<s[i]>> ELSE <<>>]
           t == Sift(s, keep)
<1>1. n \in Nat /\ DOMAIN s = 1 .. n /\ \A i \in 1 .. n : s[i] \in S
  OBVIOUS
<1>2. t = FlattenSeq(seqs)
  BY <1>1 DEF Sift
<1>3. \A i \in 1 .. n : seqs[i] \in Seq(S)
  <2> TAKE i \in 1 .. n
  <2>1. <<s[i]>> \in Seq(S) /\ <<>> \in Seq(S)
    BY <1>1
  <2> QED
    BY <2>1
<1>4. seqs \in [1 .. n -> Seq(S)]
  BY <1>3
<1>5. \A i \in 1 .. n : /\ i \in keep => Len(seqs[i]) = 1 /\ seqs[i][1] = s[i]
                        /\ i \notin keep => Len(seqs[i]) = 0
  OBVIOUS
<1> HIDE DEF n, seqs, t
<1>6. t \in Seq(S) /\ \E from, at : Origin(seqs, n, t, from, at)
  BY <1>1, <1>2, <1>4, FlattenOrigin
<1>7. PICK from, at : Origin(seqs, n, t, from, at)
  BY <1>6
<1>8. \A p \in 1 .. Len(t) : /\ from[p] \in 1 .. n /\ from[p] \in keep /\ at[p] = 1
                             /\ t[p] = s[from[p]]
  <2> TAKE p \in 1 .. Len(t)
  <2>1. /\ from[p] \in 1 .. n /\ at[p] \in 1 .. Len(seqs[from[p]])
        /\ t[p] = seqs[from[p]][at[p]]
    BY <1>7 DEF Origin
  <2> QED
    BY <2>1, <1>5
<1>9. from \in [1 .. Len(t) -> 1 .. n]
  BY <1>7 DEF Origin
<1>10. \A p, q \in 1 .. Len(t) : p < q => from[p] < from[q]
  BY <1>7, <1>8 DEF Origin
<1>11. \A i \in 1 .. n : i \in keep => \E p \in 1 .. Len(t) : from[p] = i
  <2> TAKE i \in 1 .. n
  <2> HAVE i \in keep
  <2>1. 1 \in 1 .. Len(seqs[i])
    BY <1>5
  <2> QED
    BY <2>1, <1>7 DEF Origin
<1>12. Picks(s, keep, t, from)
  BY <1>8, <1>9, <1>10, <1>11 DEF Picks, n
<1> QED
  BY <1>6, <1>12 DEF t

(* A selection of distinct entries has no entry twice. *)
LEMMA SiftDistinct ==
    ASSUME NEW S, NEW s \in Seq(S), NEW keep,
           \A i, j \in 1 .. Len(s) : i \in keep /\ j \in keep /\ i # j => s[i] # s[j]
    PROVE  /\ \A p, q \in 1 .. Len(Sift(s, keep)) : p # q => Sift(s, keep)[p] # Sift(s, keep)[q]
           /\ ToSet(Sift(s, keep)) = {s[i] : i \in (1 .. Len(s)) \cap keep}
<1> DEFINE t == Sift(s, keep)
<1>1. t \in Seq(S) /\ \E from : Picks(s, keep, t, from)
  BY SiftPicks
<1> HIDE DEF t
<1>2. PICK from : Picks(s, keep, t, from)
  BY <1>1
<1>3. \A p, q \in 1 .. Len(t) : p # q => t[p] # t[q]
  <2> TAKE p, q \in 1 .. Len(t)
  <2> HAVE p # q
  <2>1. Len(t) \in Nat /\ (p < q \/ q < p)
    BY <1>1
  <2> DEFINE a == from[p]
             b == from[q]
  <2>2. a \in 1 .. Len(s) /\ b \in 1 .. Len(s) /\ a # b
    BY <2>1, <1>2 DEF Picks
  <2>3. a \in keep /\ b \in keep /\ t[p] = s[a] /\ t[q] = s[b]
    BY <1>2 DEF Picks
  <2> HIDE DEF a, b
  <2>4. s[a] # s[b]
    BY <2>2, <2>3
  <2> QED
    BY <2>3, <2>4
<1>4. ToSet(t) = {s[i] : i \in (1 .. Len(s)) \cap keep}
  <2>1. DOMAIN t = 1 .. Len(t)
    BY <1>1
  <2>2. ToSet(t) \subseteq {s[i] : i \in (1 .. Len(s)) \cap keep}
    BY <2>1, <1>2 DEF ToSet, Picks
  <2>3. ASSUME NEW i \in (1 .. Len(s)) \cap keep
        PROVE  s[i] \in ToSet(t)
    <3>1. PICK p \in 1 .. Len(t) : from[p] = i
      BY <1>2 DEF Picks
    <3> QED
      BY <3>1, <2>1, <1>2 DEF ToSet, Picks
  <2> QED
    BY <2>2, <2>3
<1> QED
  BY <1>3, <1>4 DEF t

(* Sequences without repetition. *)
Apart(s) == \A p, q \in 1 .. Len(s) : p # q => s[p] # s[q]

LEMMA EntriesOf ==
    ASSUME NEW S, NEW s \in Seq(S)
    PROVE  /\ ToSet(s) \subseteq S /\ \A p \in 1 .. Len(s) : s[p] \in ToSet(s)
           /\ \A v \in ToSet(s) : \E p \in 1 .. Len(s) : s[p] = v
           /\ DOMAIN s = 1 .. Len(s) /\ Len(s) \in Nat
  BY DEF ToSet

LEMMA ApartAppend ==
    ASSUME NEW S, NEW s \in Seq(S), Apart(s), NEW e \in S, e \notin ToSet(s)
    PROVE  /\ Append(s, e) \in Seq(S) /\ Apart(Append(s, e)) /\ ToSet(Append(s, e)) = ToSet(s) \union {e}
           /\ Len(Append(s, e)) = Len(s) + 1 /\ Append(s, e)[Len(s) + 1] = e
           /\ \A p \in 1 .. Len(s) : Append(s, e)[p] = s[p]
<1> DEFINE t == Append(s, e)
<1>1. /\ t \in Seq(S) /\ Len(t) = Len(s) + 1 /\ t[Len(s) + 1] = e
      /\ \A p \in 1 .. Len(s) : t[p] = s[p]
  BY AppendProperties
<1>2. Len(s) \in Nat /\ DOMAIN s = 1 .. Len(s) /\ DOMAIN t = 1 .. Len(t)
  BY <1>1, EntriesOf
<1> HIDE DEF t
<1>3. \A p \in 1 .. Len(s) : s[p] # e
  BY <1>2 DEF ToSet
<1>4. Apart(t)
  <2> SUFFICES ASSUME NEW p \in 1 .. Len(t), NEW q \in 1 .. Len(t), p # q
               PROVE  t[p] # t[q]
    BY DEF Apart
  <2>1. CASE p = Len(s) + 1
    BY <2>1, <1>1, <1>2, <1>3
  <2>2. CASE q = Len(s) + 1
    BY <2>2, <1>1, <1>2, <1>3
  <2>3. CASE p # Len(s) + 1 /\ q # Len(s) + 1
    <3>1. p \in 1 .. Len(s) /\ q \in 1 .. Len(s)
      BY <2>3, <1>1, <1>2
    <3> QED
      BY <3>1, <1>1 DEF Apart
  <2> QED
    BY <2>1, <2>2, <2>3
<1>5. ToSet(t) = ToSet(s) \union {e}
  <2>1. \A p \in 1 .. Len(t) : p \in 1 .. Len(s) \/ p = Len(s) + 1
    BY <1>1, <1>2
  <2>2. \A p \in 1 .. Len(s) : p \in 1 .. Len(t)
    BY <1>1, <1>2
  <2>3. Len(s) + 1 \in 1 .. Len(t)
    BY <1>1, <1>2
  <2> QED
    BY <1>1, <1>2, <2>1, <2>2, <2>3 DEF ToSet
<1> QED
  BY <1>1, <1>4, <1>5 DEF t

LEMMA ApartTail ==
    ASSUME NEW S, NEW s \in Seq(S), Apart(s), s # <<>>
    PROVE  /\ Tail(s) \in Seq(S) /\ Apart(Tail(s)) /\ ToSet(Tail(s)) = ToSet(s) \ {Head(s)}
           /\ Head(s) \in ToSet(s) /\ Head(s) \in S
<1> DEFINE t == Tail(s)
<1>1. /\ t \in Seq(S) /\ Len(t) = Len(s) - 1 /\ Head(s) = s[1] /\ Len(s) >= 1
      /\ \A i \in 1 .. Len(t) : t[i] = s[i + 1]
  BY HeadTailProperties
<1>2. Len(s) \in Nat /\ DOMAIN s = 1 .. Len(s) /\ DOMAIN t = 1 .. Len(t) /\ 1 \in 1 .. Len(s)
  BY <1>1, EntriesOf
<1> HIDE DEF t
<1>3. \A i \in 1 .. Len(t) : i + 1 \in 1 .. Len(s) /\ i + 1 # 1
  BY <1>1, <1>2
<1>4. Apart(t)
  <2> SUFFICES ASSUME NEW p \in 1 .. Len(t), NEW q \in 1 .. Len(t), p # q
               PROVE  t[p] # t[q]
    BY DEF Apart
  <2>1. p + 1 # q + 1
    BY <1>2
  <2> QED
    BY <2>1, <1>1, <1>3 DEF Apart
<1>5. ToSet(t) = ToSet(s) \ {Head(s)}
  <2>1. \A i \in 1 .. Len(t) : t[i] \in ToSet(s) /\ t[i] # s[1]
    BY <1>1, <1>2, <1>3 DEF ToSet, Apart
  <2>2. ASSUME NEW i \in 1 .. Len(s), s[i] # s[1]
        PROVE  s[i] \in ToSet(t)
    <3>1. i - 1 \in 1 .. Len(t) /\ (i - 1) + 1 = i
      BY <2>2, <1>1, <1>2
    <3> QED
      BY <3>1, <1>1, <1>2 DEF ToSet
  <2>3. ToSet(t) \subseteq ToSet(s) \ {s[1]}
    BY <2>1, <1>2 DEF ToSet
  <2>4. ToSet(s) \ {s[1]} \subseteq ToSet(t)
    <3> SUFFICES ASSUME NEW v \in ToSet(s), v # s[1]
                 PROVE  v \in ToSet(t)
      OBVIOUS
    <3>1. PICK i \in 1 .. Len(s) : s[i] = v
      BY <1>2 DEF ToSet
    <3> QED
      BY <2>2, <3>1
  <2> QED
    BY <2>3, <2>4, <1>1
<1>6. Head(s) \in ToSet(s) /\ Head(s) \in S
  BY <1>1, <1>2 DEF ToSet
<1> QED
  BY <1>1, <1>4, <1>5, <1>6 DEF t

LEMMA ApartConcat ==
    ASSUME NEW S, NEW s \in Seq(S), NEW t \in Seq(S), Apart(s), Apart(t), ToSet(s) \cap ToSet(t) = {}
    PROVE  s \o t \in Seq(S) /\ Apart(s \o t) /\ ToSet(s \o t) = ToSet(s) \union ToSet(t)
<1> DEFINE u == s \o t
<1>1. /\ u \in Seq(S) /\ Len(u) = Len(s) + Len(t) /\ Len(s) \in Nat /\ Len(t) \in Nat
      /\ DOMAIN s = 1 .. Len(s) /\ DOMAIN t = 1 .. Len(t) /\ DOMAIN u = 1 .. Len(u)
  BY ConcatProperties, EntriesOf
<1>2. \A p \in 1 .. Len(u) : u[p] = IF p =< Len(s) THEN s[p] ELSE t[p - Len(s)]
  BY <1>1, ConcatProperties
<1> HIDE DEF u
<1>3. \A p \in 1 .. Len(u) : /\ p =< Len(s) => p \in 1 .. Len(s) /\ u[p] = s[p] /\ u[p] \in ToSet(s)
                             /\ ~(p =< Len(s)) => /\ p - Len(s) \in 1 .. Len(t) /\ u[p] = t[p - Len(s)]
                                                  /\ u[p] \in ToSet(t)
  <2> TAKE p \in 1 .. Len(u)
  <2>1. CASE p =< Len(s)
    <3>1. p \in 1 .. Len(s)
      BY <1>1, <2>1
    <3>2. u[p] = s[p]
      BY <1>2, <2>1
    <3>3. s[p] \in ToSet(s)
      BY <3>1, EntriesOf
    <3> QED
      BY <2>1, <3>1, <3>2, <3>3
  <2>2. CASE ~(p =< Len(s))
    <3>1. p - Len(s) \in 1 .. Len(t)
      BY <2>2, <1>1
    <3> QED
      BY <2>2, <3>1, <1>1, <1>2 DEF ToSet
  <2> QED
    BY <2>1, <2>2
<1>4. Apart(u)
  <2> SUFFICES ASSUME NEW p \in 1 .. Len(u), NEW q \in 1 .. Len(u), p # q
               PROVE  u[p] # u[q]
    BY DEF Apart
  <2>1. CASE p =< Len(s) /\ q =< Len(s)
    BY <2>1, <1>3 DEF Apart
  <2>2. CASE ~(p =< Len(s)) /\ ~(q =< Len(s))
    <3>1. p - Len(s) # q - Len(s)
      BY <1>1
    <3> QED
      BY <2>2, <3>1, <1>3 DEF Apart
  <2>3. CASE p =< Len(s) /\ ~(q =< Len(s))
    BY <2>3, <1>3
  <2>4. CASE ~(p =< Len(s)) /\ q =< Len(s)
    BY <2>4, <1>3
  <2> QED
    BY <2>1, <2>2, <2>3, <2>4
<1>5. ToSet(u) = ToSet(s) \union ToSet(t)
  <2>1. ToSet(u) \subseteq ToSet(s) \union ToSet(t)
    BY <1>1, <1>3 DEF ToSet
  <2>2. ASSUME NEW i \in 1 .. Len(s)
        PROVE  s[i] \in ToSet(u)
    <3>1. i \in 1 .. Len(u) /\ i =< Len(s)
      BY <1>1
    <3> QED
      BY <3>1, <1>1, <1>2 DEF ToSet
  <2>3. ASSUME NEW i \in 1 .. Len(t)
        PROVE  t[i] \in ToSet(u)
    <3>1. i + Len(s) \in 1 .. Len(u) /\ ~(i + Len(s) =< Len(s)) /\ (i + Len(s)) - Len(s) = i
      BY <1>1
    <3>2. u[i + Len(s)] = t[i]
      BY <3>1, <1>2
    <3> QED
      BY <3>1, <3>2, <1>1 DEF ToSet
  <2> QED
    BY <2>1, <2>2, <2>3, <1>1 DEF ToSet
<1> QED
  BY <1>1, <1>4, <1>5 DEF u

-----------------------------------------------------------------------------
(* Kahn's order. *)

(* A course graph as the planners see it: two lists, and no edge that ends *)
(* outside the nodes.                                                      *)
IsGraph(g) ==
    /\ g.nodes \in Seq(NodeSet(g)) /\ g.edges \in Seq(ToSet(g.edges))
    /\ \A i \in DOMAIN g.edges : g.edges[i].src \in NodeSet(g) /\ g.edges[i].tgt \in NodeSet(g)

LEMMA GraphIsFinite ==
    ASSUME NEW g, IsGraph(g)
    PROVE  /\ DOMAIN g.nodes = 1 .. Len(g.nodes) /\ Len(g.nodes) \in Nat
           /\ DOMAIN g.edges = 1 .. Len(g.edges) /\ Len(g.edges) \in Nat
           /\ IsFiniteSet(NodeSet(g)) /\ Cardinality(NodeSet(g)) \in Nat
           /\ \A I : I \subseteq DOMAIN g.edges => IsFiniteSet(I) /\ Cardinality(I) \in Nat
<1>1. /\ DOMAIN g.nodes = 1 .. Len(g.nodes) /\ Len(g.nodes) \in Nat
      /\ DOMAIN g.edges = 1 .. Len(g.edges) /\ Len(g.edges) \in Nat
  BY DEF IsGraph
<1>2. IsFiniteSet(NodeSet(g))
  <2> DEFINE n == Len(g.nodes)
             f == [i \in 1 .. n |-> g.nodes[i]]
  <2>1. f \in Surjection(1 .. n, NodeSet(g))
    BY <1>1 DEF Surjection, NodeSet, ToSet
  <2>2. IsFiniteSet(1 .. n)
    BY <1>1, FS_Interval
  <2> HIDE DEF f, n
  <2> QED
    BY <2>1, <2>2, FS_Surjection
<1>3. IsFiniteSet(DOMAIN g.edges)
  BY <1>1, FS_Interval
<1> QED
  BY <1>1, <1>2, <1>3, FS_CardinalityType, FS_Subset

KahnStates(g) == [degree : [NodeSet(g) -> Int], queue : Seq(NodeSet(g)), topo : Seq(NodeSet(g))]

(* the edges into v whose source has not been taken yet *)
Waiting(g, done, v) == {i \in DOMAIN g.edges : g.edges[i].tgt = v /\ g.edges[i].src \notin done}

KahnInv(g, st) ==
    /\ st \in KahnStates(g)
    /\ Apart(st.topo) /\ Apart(st.queue) /\ ToSet(st.topo) \cap ToSet(st.queue) = {}
    /\ \A v \in NodeSet(g) : st.degree[v] = Cardinality(Waiting(g, ToSet(st.topo), v))
    /\ \A v \in ToSet(st.queue) : Waiting(g, ToSet(st.topo), v) = {}
    /\ \A k \in 1 .. Len(st.topo) : \A i \in DOMAIN g.edges :
           g.edges[i].tgt = st.topo[k] => \E j \in 1 .. k - 1 : st.topo[j] = g.edges[i].src

LEMMA KahnStarts ==
    ASSUME NEW g, IsGraph(g)
    PROVE  KahnInv(g, KahnStart(g))
<1> DEFINE V == NodeSet(g)
           s == g.nodes
           fresh == {i \in DOMAIN s : \A j \in 1 .. i - 1 : s[j] # s[i]}
           keep == {i \in fresh : InDegree(g, s[i]) = 0}
           q == Sift(s, keep)
           d == [v \in V |-> InDegree(g, v)]
           st == KahnStart(g)
<1>1. s \in Seq(V) /\ DOMAIN s = 1 .. Len(s) /\ Len(s) \in Nat
  BY GraphIsFinite DEF IsGraph
<1>2. st = [degree |-> d, queue |-> q, topo |-> <<>>]
  BY DEF KahnStart
<1>3. q \in Seq(V)
  BY <1>1, SiftPicks
<1>4. Apart(q) /\ ToSet(q) = {s[i] : i \in (1 .. Len(s)) \cap keep}
  <2>1. \A i, j \in 1 .. Len(s) : i \in keep /\ j \in keep /\ i # j => s[i] # s[j]
    <3> TAKE i, j \in 1 .. Len(s)
    <3> HAVE i \in keep /\ j \in keep /\ i # j
    <3>1. i \in 1 .. j - 1 \/ j \in 1 .. i - 1
      BY <1>1
    <3> QED
      BY <3>1
  <2> HIDE DEF keep
  <2>2. /\ \A m, p \in 1 .. Len(Sift(s, keep)) : m # p => Sift(s, keep)[m] # Sift(s, keep)[p]
        /\ ToSet(Sift(s, keep)) = {s[i] : i \in (1 .. Len(s)) \cap keep}
    BY <2>1, <1>1, SiftDistinct
  <2> QED
    BY <2>2 DEF Apart
<1>5. \A v \in V : Waiting(g, {}, v) \subseteq DOMAIN g.edges /\ d[v] = Cardinality(Waiting(g, {}, v))
  BY DEF Waiting, InDegree
<1>6. \A v \in V : d[v] \in Nat /\ (d[v] = 0 => Waiting(g, {}, v) = {})
  <2> TAKE v \in V
  <2>1. IsFiniteSet(Waiting(g, {}, v)) /\ Cardinality(Waiting(g, {}, v)) \in Nat
    BY <1>5, GraphIsFinite
  <2> QED
    BY <2>1, <1>5, FS_EmptySet
<1>7. \A v \in ToSet(q) : v \in V /\ d[v] = 0
  <2> TAKE v \in ToSet(q)
  <2>1. PICK i \in (1 .. Len(s)) \cap keep : v = s[i]
    BY <1>4
  <2> QED
    BY <2>1, <1>1
<1> HIDE DEF q, d, st, V
<1>8. d \in [V -> Int]
  <2>1. DOMAIN d = V /\ d = [v \in V |-> d[v]]
    BY DEF d
  <2> QED
    BY <2>1, <1>6
<1>9. st \in KahnStates(g)
  BY <1>2, <1>3, <1>8 DEF KahnStates, V
<1>10. ToSet(<<>>) = {} /\ Len(<<>>) = 0 /\ Apart(<<>>)
  BY DEF ToSet, Apart
<1>11. st.degree = d /\ st.queue = q /\ st.topo = <<>>
  BY <1>2
<1>12. KahnInv(g, st)
  <2>1. \A v \in NodeSet(g) : st.degree[v] = Cardinality(Waiting(g, ToSet(st.topo), v))
    BY <1>5, <1>10, <1>11 DEF V
  <2>2. \A v \in ToSet(st.queue) : Waiting(g, ToSet(st.topo), v) = {}
    BY <1>6, <1>7, <1>10, <1>11
  <2>3. Apart(st.topo) /\ Apart(st.queue) /\ ToSet(st.topo) \cap ToSet(st.queue) = {} /\ Len(st.topo) = 0
    BY <1>4, <1>10, <1>11
  <2> QED
    BY <1>9, <2>1, <2>2, <2>3 DEF KahnInv
<1> QED
  BY <1>12 DEF st

LEMMA KahnSteps ==
    ASSUME NEW g, IsGraph(g), NEW st, KahnInv(g, st)
    PROVE  KahnInv(g, KahnStep(g, st))
<1> DEFINE V == NodeSet(g)
           E == g.edges
           T == ToSet(st.topo)
           Q == ToSet(st.queue)
           u == Head(st.queue)
           d == [v \in V |-> st.degree[v] - Cardinality(Between(E, u, v))]
           freeing == {i \in DOMAIN E : /\ E[i].src = u /\ d[E[i].tgt] = 0
                                        /\ \A j \in Between(E, u, E[i].tgt) : j =< i}
           targets == [i \in DOMAIN E |-> E[i].tgt]
           freed == Sift(targets, freeing)
           q == Tail(st.queue) \o freed
           t == Append(st.topo, u)
           new == KahnStep(g, st)
<1>1. CASE st.queue = <<>>
  BY <1>1 DEF KahnStep
<1>2. CASE st.queue # <<>>
  <2>1. new = [degree |-> d, queue |-> q, topo |-> t]
    BY <1>2 DEF KahnStep
  <2>2. /\ st.degree \in [V -> Int] /\ st.queue \in Seq(V) /\ st.topo \in Seq(V)
        /\ Apart(st.topo) /\ Apart(st.queue) /\ T \cap Q = {}
    BY DEF KahnInv, KahnStates
  <2>3. /\ Tail(st.queue) \in Seq(V) /\ Apart(Tail(st.queue)) /\ ToSet(Tail(st.queue)) = Q \ {u}
        /\ u \in Q /\ u \in V
    BY <1>2, <2>2, ApartTail
  <2>4. u \notin T
    BY <2>2, <2>3
  <2>5. /\ t \in Seq(V) /\ Apart(t) /\ ToSet(t) = T \union {u} /\ Len(t) = Len(st.topo) + 1
        /\ t[Len(st.topo) + 1] = u /\ Len(st.topo) \in Nat
        /\ \A p \in 1 .. Len(st.topo) : t[p] = st.topo[p]
    BY <2>2, <2>3, <2>4, ApartAppend, EntriesOf
  <2>20. \A v \in T : \E p \in 1 .. Len(st.topo) : st.topo[p] = v
    BY <2>2, EntriesOf
  <2>6. /\ \A v \in V : st.degree[v] = Cardinality(Waiting(g, T, v))
        /\ \A v \in Q : Waiting(g, T, v) = {}
    BY DEF KahnInv
  <2>7. \A i \in DOMAIN E : E[i].src \in V /\ E[i].tgt \in V
    BY DEF IsGraph
  <2>8. \A v \in V : /\ Between(E, u, v) \subseteq Waiting(g, T, v)
                     /\ Waiting(g, T, v) \ Between(E, u, v) = Waiting(g, T \union {u}, v)
    BY <2>4 DEF Between, Waiting, Pair
  <2>9. \A v \in V : d[v] \in Nat /\ d[v] = Cardinality(Waiting(g, T \union {u}, v))
                     /\ (d[v] = 0 => Waiting(g, T \union {u}, v) = {})
    <3> TAKE v \in V
    <3> DEFINE W == Waiting(g, T, v)
               B == Between(E, u, v)
    <3>1. W \subseteq DOMAIN E /\ B \subseteq DOMAIN E
      BY DEF Waiting, Between
    <3>2. IsFiniteSet(W) /\ Cardinality(W) \in Nat /\ Cardinality(B) \in Nat
      BY <3>1, GraphIsFinite
    <3>3. d[v] = Cardinality(W) - Cardinality(B)
      BY <2>6
    <3>4. B \subseteq W /\ W \ B = Waiting(g, T \union {u}, v)
      BY <2>8
    <3> HIDE DEF W, B, d
    <3>5. W \cap B = B
      BY <3>4
    <3>6. IsFiniteSet(W \ B) /\ Cardinality(W \ B) = Cardinality(W) - Cardinality(W \cap B)
      BY <3>2, FS_Difference
    <3>7. Cardinality(W \ B) \in Nat /\ (Cardinality(W \ B) = 0 <=> W \ B = {})
      BY <3>6, FS_CardinalityType, FS_EmptySet
    <3> QED
      BY <3>3, <3>4, <3>5, <3>6, <3>7
  <2>10. freed \in Seq(V) /\ Apart(freed) /\ ToSet(freed) = {targets[i] : i \in (1 .. Len(targets)) \cap freeing}
    <3>1. targets \in Seq(V) /\ DOMAIN targets = DOMAIN E
      <4>1. DOMAIN E = 1 .. Len(E) /\ Len(E) \in Nat
        BY GraphIsFinite
      <4> QED
        BY <4>1, <2>7
    <3>2. \A i, j \in 1 .. Len(targets) : i \in freeing /\ j \in freeing /\ i # j => targets[i] # targets[j]
      <4> TAKE i, j \in 1 .. Len(targets)
      <4> HAVE i \in freeing /\ j \in freeing /\ i # j
      <4>1. SUFFICES ASSUME targets[i] = targets[j] PROVE FALSE
        OBVIOUS
      <4>2. i \in DOMAIN E /\ j \in DOMAIN E /\ E[i].tgt = E[j].tgt /\ E[i].src = u /\ E[j].src = u
        BY <4>1
      <4>3. j \in Between(E, u, E[i].tgt) /\ i \in Between(E, u, E[j].tgt)
        BY <4>2 DEF Between, Pair
      <4>4. j =< i /\ i =< j
        BY <4>3
      <4> QED
        BY <4>4
    <3> HIDE DEF freeing, targets
    <3>3. Sift(targets, freeing) \in Seq(V)
      BY <3>1, SiftPicks
    <3>4. /\ \A m, p \in 1 .. Len(Sift(targets, freeing)) :
                 m # p => Sift(targets, freeing)[m] # Sift(targets, freeing)[p]
          /\ ToSet(Sift(targets, freeing)) = {targets[i] : i \in (1 .. Len(targets)) \cap freeing}
      BY <3>1, <3>2, SiftDistinct
    <3> QED
      BY <3>3, <3>4 DEF Apart
  <2>11. \A v \in ToSet(freed) : \E i \in DOMAIN E : E[i].tgt = v /\ E[i].src = u /\ d[v] = 0
    <3> TAKE v \in ToSet(freed)
    <3> HIDE DEF freed
    <3>1. PICK i \in freeing : v = targets[i]
      BY <2>10
    <3> QED
      BY <3>1
  <2>12. \A v \in ToSet(freed) : v \in V /\ v \notin Q /\ v \notin T
    <3> TAKE v \in ToSet(freed)
    <3> HIDE DEF freed
    <3>1. PICK i \in DOMAIN E : E[i].tgt = v /\ E[i].src = u
      BY <2>11
    <3>2. i \in Waiting(g, T, v)
      BY <3>1, <2>4 DEF Waiting
    <3>3. v \notin Q
      BY <3>2, <2>6
    <3>4. v \notin T
      <4>1. SUFFICES ASSUME v \in T PROVE FALSE
        OBVIOUS
      <4>2. PICK k \in 1 .. Len(st.topo) : st.topo[k] = v
        BY <4>1, <2>2, EntriesOf
      <4>3. PICK j \in 1 .. k - 1 : st.topo[j] = u
        BY <4>2, <3>1 DEF KahnInv
      <4>4. j \in 1 .. Len(st.topo)
        BY <2>5
      <4> QED
        BY <4>3, <4>4, <2>2, <2>4, EntriesOf
    <3> QED
      BY <3>1, <3>3, <3>4, <2>7
  <2> HIDE DEF d, freed, t, V, T, Q, u
  <2>13. q \in Seq(V) /\ Apart(q) /\ ToSet(q) = (Q \ {u}) \union ToSet(freed)
    <3>1. ToSet(Tail(st.queue)) \cap ToSet(freed) = {}
      BY <2>3, <2>12
    <3> DEFINE r == Tail(st.queue)
    <3>2. /\ r \in Seq(V) /\ freed \in Seq(V) /\ Apart(r) /\ Apart(freed)
          /\ ToSet(r) \cap ToSet(freed) = {} /\ ToSet(r) = Q \ {u}
      BY <2>3, <2>10, <3>1
    <3> HIDE DEF r
    <3>3. r \o freed \in Seq(V) /\ Apart(r \o freed) /\ ToSet(r \o freed) = ToSet(r) \union ToSet(freed)
      BY <3>2, ApartConcat
    <3> QED
      BY <3>2, <3>3 DEF r
  <2> HIDE DEF q, new
  <2>14. d \in [V -> Int]
    <3>1. d = [v \in V |-> d[v]]
      BY DEF d
    <3> QED
      BY <3>1, <2>9
  <2>15. new \in KahnStates(g) /\ new.degree = d /\ new.queue = q /\ new.topo = t
    BY <2>1, <2>5, <2>13, <2>14 DEF KahnStates, V
  <2>16. ToSet(t) \cap ToSet(q) = {}
    <3> SUFFICES ASSUME NEW v \in ToSet(t), v \in ToSet(q)
                 PROVE  FALSE
      OBVIOUS
    <3>1. v \in T \/ v = u
      BY <2>5
    <3>2. (v \in Q /\ v # u) \/ v \in ToSet(freed)
      BY <2>13
    <3> QED
      BY <2>2, <2>3, <2>12, <3>1, <3>2
  <2>17. \A v \in ToSet(q) : Waiting(g, ToSet(t), v) = {}
    <3> TAKE v \in ToSet(q)
    <3>1. CASE v \in Q
      <4>1. Waiting(g, T, v) = {}
        BY <3>1, <2>6
      <4> QED
        BY <4>1, <2>5 DEF Waiting
    <3>2. CASE v \in ToSet(freed)
      <4>1. d[v] = 0 /\ v \in V
        BY <3>2, <2>11, <2>12
      <4> QED
        BY <4>1, <2>5, <2>9
    <3> QED
      BY <3>1, <3>2, <2>13
  <2>18. \A k \in 1 .. Len(t) : \A i \in DOMAIN E : E[i].tgt = t[k] => \E j \in 1 .. k - 1 : t[j] = E[i].src
    <3> TAKE k \in 1 .. Len(t)
    <3> TAKE i \in DOMAIN E
    <3> HAVE E[i].tgt = t[k]
    <3>1. CASE k \in 1 .. Len(st.topo)
      <4>1. PICK j \in 1 .. k - 1 : st.topo[j] = E[i].src
        BY <3>1, <2>5 DEF KahnInv
      <4>2. j \in 1 .. Len(st.topo)
        BY <2>5, <3>1
      <4> QED
        BY <4>1, <4>2, <2>5
    <3>2. CASE k = Len(st.topo) + 1
      <4>1. Waiting(g, T, u) = {} /\ E[i].tgt = u
        BY <3>2, <2>3, <2>5, <2>6
      <4>2. E[i].src \in T
        BY <4>1 DEF Waiting
      <4>3. PICK j \in 1 .. Len(st.topo) : st.topo[j] = E[i].src
        BY <4>2, <2>20
      <4>4. j \in 1 .. k - 1
        BY <3>2, <2>5
      <4> QED
        BY <4>3, <4>4, <2>5
    <3> QED
      BY <3>1, <3>2, <2>5
  <2>19. \A v \in NodeSet(g) : d[v] = Cardinality(Waiting(g, ToSet(t), v))
    BY <2>5, <2>9 DEF V
  <2>21. KahnInv(g, new)
    <3>1. Apart(new.topo) /\ Apart(new.queue) /\ ToSet(new.topo) \cap ToSet(new.queue) = {}
      BY <2>5, <2>13, <2>15, <2>16
    <3>2. \A v \in NodeSet(g) : new.degree[v] = Cardinality(Waiting(g, ToSet(new.topo), v))
      BY <2>15, <2>19
    <3>3. \A v \in ToSet(new.queue) : Waiting(g, ToSet(new.topo), v) = {}
      BY <2>15, <2>17
    <3>4. \A k \in 1 .. Len(new.topo) : \A i \in DOMAIN g.edges :
             g.edges[i].tgt = new.topo[k] => \E j \in 1 .. k - 1 : new.topo[j] = g.edges[i].src
      BY <2>15, <2>18
    <3> QED
      BY <2>15, <3>1, <3>2, <3>3, <3>4 DEF KahnInv
  <2> QED
    BY <2>21 DEF new
<1> QED
  BY <1>1, <1>2

(* A complete order of the nodes in which every edge leads forward. *)
IsOrder(g, topo) ==
    /\ topo \in Seq(NodeSet(g)) /\ Apart(topo) /\ ToSet(topo) = NodeSet(g)
    /\ \A k \in 1 .. Len(topo) : \A i \in DOMAIN g.edges :
           g.edges[i].tgt = topo[k] => \E j \in 1 .. k - 1 : topo[j] = g.edges[i].src

KahnRuns(run, g, n) ==
    run = [k \in 0 .. n |-> IF k = 0 THEN KahnStart(g) ELSE KahnStep(g, run[k - 1])]

LEMMA KahnEnds ==
    ASSUME NEW g, IsGraph(g)
    PROVE  \E st : KahnInv(g, st) /\ Kahn(g) = st.topo
<1> DEFINE n == Cardinality(NodeSet(g))
           S == {st \in KahnStates(g) : KahnInv(g, st)}
           step == [x \in (0 .. n) \X S |-> KahnStep(g, x[2])]
           b == KahnStart(g)
<1>1. n \in Nat /\ 0 \in Nat /\ 0 =< n
  BY GraphIsFinite
<1>2. b \in S
  BY KahnStarts DEF KahnInv
<1>3. \A st \in S : KahnStep(g, st) \in S
  <2> TAKE st \in S
  <2>1. KahnInv(g, st)
    OBVIOUS
  <2>2. KahnInv(g, KahnStep(g, st))
    BY <2>1, KahnSteps
  <2> QED
    BY <2>2 DEF KahnInv
<1>4. step \in [(0 .. n) \X S -> S] /\ \A k \in 0 .. n : \A st \in S : step[<<k, st>>] = KahnStep(g, st)
  BY <1>3
<1>5. \A st \in S : KahnInv(g, st)
  OBVIOUS
<1>6. Kahn(g) = (CHOOSE run : KahnRuns(run, g, n))[n].topo
  BY DEF Kahn, KahnRuns
<1> HIDE DEF S, step, b, n
<1>7. PICK f \in [0 .. n -> S] : Unrolls(f, 0, n, b, step)
  BY <1>1, <1>2, <1>4, Recursion
<1>8. KahnRuns(f, g, n)
  <2>1. \A k \in 0 .. n : f[k] = IF k = 0 THEN KahnStart(g) ELSE KahnStep(g, f[k - 1])
    <3> TAKE k \in 0 .. n
    <3>1. f[k] = IF k = 0 THEN b ELSE step[<<k, f[k - 1]>>]
      BY <1>7 DEF Unrolls
    <3>2. k # 0 => f[k - 1] \in S
      BY <1>1, <1>7
    <3> QED
      BY <3>1, <3>2, <1>4 DEF b
  <2>2. DOMAIN f = 0 .. n /\ f = [k \in 0 .. n |-> f[k]]
    BY <1>7
  <2> QED
    BY <2>1, <2>2 DEF KahnRuns
<1> DEFINE c == CHOOSE run : KahnRuns(run, g, n)
<1>9. KahnRuns(c, g, n)
  BY <1>8
<1> HIDE DEF c
<1>10. c[n] \in S
  <2> DEFINE P == {k \in 0 .. n : c[k] \in S}
  <2>1. \A k \in 0 .. n : c[k] = IF k = 0 THEN b ELSE KahnStep(g, c[k - 1])
    BY <1>9 DEF KahnRuns, b
  <2>2. 0 \in P
    BY <2>1, <1>1, <1>2
  <2>3. \A k \in 0 .. n - 1 : k \in P => k + 1 \in P
    <3> TAKE k \in 0 .. n - 1
    <3>1. k + 1 \in 0 .. n /\ k + 1 # 0 /\ (k + 1) - 1 = k /\ k \in 0 .. n
      BY <1>1
    <3>2. c[k + 1] = KahnStep(g, c[k])
      BY <2>1, <3>1
    <3> QED
      BY <3>1, <3>2, <1>3
  <2>4. \A k \in 0 .. n : k \in P
    <3> HIDE DEF P
    <3> QED
      BY <1>1, <2>2, <2>3, UpTo
  <2> QED
    BY <2>4, <1>1
<1> QED
  BY <1>5, <1>6, <1>10 DEF c

(* Kahn's order, when it does not fail, is an order of the graph. *)
LEMMA KahnOrders ==
    ASSUME NEW g, IsGraph(g), ComputeTopologicalOrder(g) # Failed
    PROVE  IsOrder(g, ComputeTopologicalOrder(g))
<1>1. PICK st : KahnInv(g, st) /\ Kahn(g) = st.topo
  BY KahnEnds
<1> DEFINE topo == Kahn(g)
<1>2. ComputeTopologicalOrder(g) = topo /\ Len(topo) = Cardinality(NodeSet(g))
  BY DEF ComputeTopologicalOrder
<1>3. /\ topo \in Seq(NodeSet(g)) /\ Apart(topo)
      /\ \A k \in 1 .. Len(topo) : \A i \in DOMAIN g.edges :
             g.edges[i].tgt = topo[k] => \E j \in 1 .. k - 1 : topo[j] = g.edges[i].src
  BY <1>1 DEF KahnInv, KahnStates
<1> HIDE DEF topo
<1>4. ToSet(topo) = NodeSet(g)
  <2> DEFINE n == Len(topo)
             f == [i \in 1 .. n |-> topo[i]]
  <2>1. DOMAIN topo = 1 .. n /\ n \in Nat /\ ToSet(topo) \subseteq NodeSet(g)
    BY <1>3, EntriesOf
  <2>2. f \in Bijection(1 .. n, ToSet(topo))
    <3>1. f \in [1 .. n -> ToSet(topo)]
      BY <2>1 DEF ToSet
    <3>2. \A i, j \in 1 .. n : i # j => f[i] # f[j]
      BY <1>3 DEF Apart
    <3>3. \A v \in ToSet(topo) : \E i \in 1 .. n : f[i] = v
      BY <2>1 DEF ToSet
    <3> HIDE DEF f, n
    <3> QED
      BY <3>1, <3>2, <3>3 DEF Bijection, Injection, Surjection, IsInjective
  <2>3. ExistsBijection(1 .. n, ToSet(topo))
    <3> HIDE DEF f
    <3> QED
      BY <2>2 DEF ExistsBijection
  <2>4. Cardinality(ToSet(topo)) = n
    BY <2>1, <2>3, FS_CountingElements
  <2>5. IsFiniteSet(NodeSet(g))
    BY GraphIsFinite
  <2> QED
    BY <1>2, <2>1, <2>4, <2>5, FS_Subset
<1> QED
  BY <1>2, <1>3, <1>4 DEF IsOrder

LEMMA RankIs ==
    ASSUME NEW g, NEW topo, IsOrder(g, topo)
    PROVE  /\ Len(topo) \in Nat
           /\ \A v \in NodeSet(g) : Rank(topo, v) \in 1 .. Len(topo) /\ topo[Rank(topo, v)] = v
           /\ \A k \in 1 .. Len(topo) : topo[k] \in NodeSet(g) /\ Rank(topo, topo[k]) = k
           /\ \A v : v \notin NodeSet(g) => Rank(topo, v) = 0
<1>1. /\ topo \in Seq(NodeSet(g)) /\ Apart(topo) /\ ToSet(topo) = NodeSet(g)
      /\ DOMAIN topo = 1 .. Len(topo) /\ Len(topo) \in Nat
  BY EntriesOf DEF IsOrder
<1>2. ASSUME NEW v \in NodeSet(g)
      PROVE  Rank(topo, v) \in 1 .. Len(topo) /\ topo[Rank(topo, v)] = v
  <2>1. \E i \in DOMAIN topo : topo[i] = v
    BY <1>1, EntriesOf
  <2>2. Rank(topo, v) = CHOOSE i \in DOMAIN topo : topo[i] = v
    BY <1>1 DEF Rank
  <2> QED
    BY <2>1, <2>2, <1>1
<1>3. ASSUME NEW k \in 1 .. Len(topo)
      PROVE  topo[k] \in NodeSet(g) /\ Rank(topo, topo[k]) = k
  <2>1. topo[k] \in NodeSet(g)
    BY <1>1
  <2>2. Rank(topo, topo[k]) \in 1 .. Len(topo) /\ topo[Rank(topo, topo[k])] = topo[k]
    BY <2>1, <1>2
  <2> QED
    BY <2>1, <2>2, <1>1 DEF Apart
<1>4. \A v : v \notin NodeSet(g) => Rank(topo, v) = 0
  BY <1>1 DEF Rank
<1> QED
  BY <1>1, <1>2, <1>3, <1>4

LEMMA EdgesLeadForward ==
    ASSUME NEW g, IsGraph(g), NEW topo, IsOrder(g, topo), NEW i \in DOMAIN g.edges
    PROVE  Rank(topo, g.edges[i].src) < Rank(topo, g.edges[i].tgt)
<1> DEFINE u == g.edges[i].src
           v == g.edges[i].tgt
           k == Rank(topo, v)
<1>1. u \in NodeSet(g) /\ v \in NodeSet(g)
  BY DEF IsGraph
<1>2. k \in 1 .. Len(topo) /\ topo[k] = v /\ Len(topo) \in Nat
  BY <1>1, RankIs
<1>3. PICK j \in 1 .. k - 1 : topo[j] = u
  BY <1>2 DEF IsOrder
<1> HIDE DEF u, v, k
<1>4. j \in 1 .. Len(topo) /\ j < k
  BY <1>2
<1>5. Rank(topo, topo[j]) = j
  BY <1>4, RankIs
<1>6. Rank(topo, u) < k
  BY <1>3, <1>4, <1>5
<1> QED
  BY <1>6 DEF u, v, k

(* The order of relaxation: exactly the edges between the two ranks, the *)
(* edges of a node after all those of the nodes before it.               *)
LEMMA ScheduleIs ==
    ASSUME NEW g, IsGraph(g), NEW topo, IsOrder(g, topo),
           NEW source \in NodeSet(g), NEW last \in 1 .. Len(topo), Rank(topo, source) =< last
    PROVE  LET sched == Schedule(g, topo, source, last)
               E == g.edges
           IN  /\ sched \in Seq(DOMAIN E)
               /\ \A k \in 1 .. Len(sched) : /\ Rank(topo, source) =< Rank(topo, E[sched[k]].src)
                                             /\ Rank(topo, E[sched[k]].tgt) =< last
               /\ \A i \in DOMAIN E : Rank(topo, source) =< Rank(topo, E[i].src) /\ Rank(topo, E[i].tgt) =< last
                      => \E k \in 1 .. Len(sched) : sched[k] = i
               /\ \A k, l \in 1 .. Len(sched) : k < l =>
                      Rank(topo, E[sched[k]].src) =< Rank(topo, E[sched[l]].src)
<1> DEFINE E == g.edges
           first == Rank(topo, source)
           m == last - first + 1
           numbers == [i \in DOMAIN E |-> i]
           Leaving(u) == {i \in DOMAIN E : E[i].src = u /\ Rank(topo, E[i].tgt) =< last}
           seqs == [k \in 1 .. m |-> Sift(numbers, Leaving(topo[first + k - 1]))]
           sched == Schedule(g, topo, source, last)
<1>1. sched = FlattenSeq(seqs)
  BY DEF Schedule
<1>2. first \in 1 .. Len(topo) /\ Len(topo) \in Nat /\ m \in Nat
  BY RankIs
<1>3. numbers \in Seq(DOMAIN E) /\ Len(numbers) = Len(E) /\ DOMAIN E = 1 .. Len(E) /\ Len(E) \in Nat
      /\ \A i \in DOMAIN E : numbers[i] = i
  <2>1. DOMAIN E = 1 .. Len(E) /\ Len(E) \in Nat
    BY GraphIsFinite
  <2> QED
    BY <2>1
<1> HIDE DEF numbers, first, m, E
<1>4. \A k \in 1 .. m : seqs[k] \in Seq(DOMAIN E) /\ seqs[k] = Sift(numbers, Leaving(topo[first + k - 1]))
  BY <1>3, SiftPicks
<1>5. seqs \in [1 .. m -> Seq(DOMAIN E)]
  BY <1>4
<1> HIDE DEF seqs, Leaving
<1>6. \A k \in 1 .. m : \A p \in 1 .. Len(seqs[k]) : seqs[k][p] \in Leaving(topo[first + k - 1])
  <2> TAKE k \in 1 .. m
  <2>1. PICK from : Picks(numbers, Leaving(topo[first + k - 1]), seqs[k], from)
    BY <1>3, <1>4, SiftPicks
  <2>2. \A p \in 1 .. Len(seqs[k]) : from[p] \in 1 .. Len(numbers) /\ from[p] \in Leaving(topo[first + k - 1])
                                     /\ seqs[k][p] = numbers[from[p]]
    BY <2>1 DEF Picks
  <2> QED
    BY <2>2, <1>3
<1>7. \A k \in 1 .. m : \A i \in Leaving(topo[first + k - 1]) : \E p \in 1 .. Len(seqs[k]) : seqs[k][p] = i
  <2> TAKE k \in 1 .. m
  <2> TAKE i \in Leaving(topo[first + k - 1])
  <2>1. PICK from : Picks(numbers, Leaving(topo[first + k - 1]), seqs[k], from)
    BY <1>3, <1>4, SiftPicks
  <2>2. i \in 1 .. Len(numbers) /\ numbers[i] = i
    BY <1>3 DEF Leaving
  <2> QED
    BY <2>1, <2>2 DEF Picks
<1>8. sched \in Seq(DOMAIN E) /\ \E from, at : Origin(seqs, m, sched, from, at)
  BY <1>1, <1>2, <1>5, FlattenOrigin
<1>9. PICK from, at : Origin(seqs, m, sched, from, at)
  BY <1>8
<1> HIDE DEF sched
<1>10. \A k \in 1 .. m : first + k - 1 \in 1 .. Len(topo) /\ Rank(topo, topo[first + k - 1]) = first + k - 1
  <2> TAKE k \in 1 .. m
  <2>1. first + k - 1 \in 1 .. Len(topo)
    BY <1>2 DEF m
  <2> QED
    BY <2>1, RankIs
<1>11. \A k \in 1 .. Len(sched) : /\ from[k] \in 1 .. m /\ sched[k] \in Leaving(topo[first + from[k] - 1])
                                  /\ sched[k] \in DOMAIN E
                                  /\ Rank(topo, E[sched[k]].src) = first + from[k] - 1
                                  /\ Rank(topo, E[sched[k]].tgt) =< last
  <2> TAKE k \in 1 .. Len(sched)
  <2>1. from[k] \in 1 .. m /\ at[k] \in 1 .. Len(seqs[from[k]]) /\ sched[k] = seqs[from[k]][at[k]]
    BY <1>9 DEF Origin
  <2>2. sched[k] \in Leaving(topo[first + from[k] - 1])
    BY <2>1, <1>6
  <2>3. sched[k] \in DOMAIN E /\ E[sched[k]].src = topo[first + from[k] - 1] /\ Rank(topo, E[sched[k]].tgt) =< last
    BY <2>2 DEF Leaving
  <2> QED
    BY <2>1, <2>2, <2>3, <1>10
<1>12. \A k \in 1 .. Len(sched) : first =< Rank(topo, E[sched[k]].src) /\ Rank(topo, E[sched[k]].tgt) =< last
  BY <1>2, <1>11
<1>13. ASSUME NEW i \in DOMAIN E, first =< Rank(topo, E[i].src), Rank(topo, E[i].tgt) =< last
       PROVE  \E k \in 1 .. Len(sched) : sched[k] = i
  <2> DEFINE r == Rank(topo, E[i].src)
             k == r - first + 1
  <2>1. E[i].src \in NodeSet(g) /\ E[i].tgt \in NodeSet(g)
    BY DEF IsGraph, E
  <2>2. r \in 1 .. Len(topo) /\ topo[r] = E[i].src /\ Rank(topo, E[i].tgt) \in 1 .. Len(topo)
    BY <2>1, RankIs
  <2>3. r < Rank(topo, E[i].tgt)
    BY EdgesLeadForward DEF E
  <2>4. k \in 1 .. m /\ first + k - 1 = r
    BY <1>2, <1>13, <2>2, <2>3 DEF m
  <2>5. i \in Leaving(topo[first + k - 1])
    BY <1>13, <2>2, <2>4 DEF Leaving
  <2> HIDE DEF r, k
  <2>6. PICK p \in 1 .. Len(seqs[k]) : seqs[k][p] = i
    BY <2>4, <2>5, <1>7
  <2>7. PICK l \in 1 .. Len(sched) : from[l] = k /\ at[l] = p
    BY <2>4, <2>6, <1>9 DEF Origin
  <2>8. sched[l] = seqs[k][p]
    BY <2>7, <1>9 DEF Origin
  <2> QED
    BY <2>6, <2>8
<1>14. \A k, l \in 1 .. Len(sched) : k < l => Rank(topo, E[sched[k]].src) =< Rank(topo, E[sched[l]].src)
  <2> TAKE k, l \in 1 .. Len(sched)
  <2> HAVE k < l
  <2>1. from[k] < from[l] \/ (from[k] = from[l] /\ at[k] < at[l])
    BY <1>9 DEF Origin
  <2>2. from[k] \in 1 .. m /\ from[l] \in 1 .. m
    BY <1>11
  <2>3. from[k] =< from[l]
    BY <1>2, <2>1, <2>2
  <2> QED
    BY <2>2, <2>3, <1>2, <1>11
<1> QED
  BY <1>8, <1>12, <1>13, <1>14 DEF sched, E, first

-----------------------------------------------------------------------------
(* The store, and what is exported from it. *)

(* The first and the last of some numbers. *)
LEMMA FirstOf ==
    ASSUME NEW I, I \subseteq Nat, I # {}
    PROVE  \E i \in I : \A j \in I : i =< j
<1>1. \E x \in I : \A y \in I : ~ (<<y, x>> \in OpToRel(<, Nat))
  BY NatLessThanWellFounded, WFMin
<1>2. PICK x \in I : \A y \in I : ~(y < x)
  BY <1>1 DEF OpToRel
<1> QED
  BY <1>2

LEMMA LastOf ==
    ASSUME NEW n \in Nat, NEW I, I \subseteq 1 .. n, I # {}
    PROVE  \E i \in I : \A j \in I : j =< i
<1> DEFINE J == {n - i : i \in I}
<1>1. J \subseteq Nat /\ J # {}
  <2>1. \A i \in I : n - i \in Nat
    OBVIOUS
  <2>2. PICK i : i \in I
    OBVIOUS
  <2>3. n - i \in J
    BY <2>2
  <2> QED
    BY <2>1, <2>3
<1> HIDE DEF J
<1>2. PICK x \in J : \A y \in J : x =< y
  BY <1>1, FirstOf
<1>3. PICK i \in I : x = n - i
  BY <1>2 DEF J
<1>4. \A j \in I : n - j \in J
  BY DEF J
<1> QED
  BY <1>2, <1>3, <1>4

LEMMA ProductOfCopies ==
    ASSUME NEW a \in Nat, NEW b \in Nat
    PROVE  a * b \in Nat /\ (a * b > 0 => a > 0 /\ b > 0)
<1>1. CASE a = 0
  BY <1>1
<1>2. CASE b = 0
  BY <1>2
<1>3. CASE a > 0 /\ b > 0
  BY <1>3
<1> QED
  BY <1>1, <1>2, <1>3

(* What the store holds of a course: a relationship between two nodes that *)
(* is returned at all is an edge of the course, and both its nodes are there. *)
Places == ToSet(course.nodes)
Relations == [edge : ToSet(course.edges), n : Nat]

StoreOf(db) ==
    /\ db \in [up : BOOLEAN, copies : [Places -> Nat], loose : [Places -> Nat], rels : {db.rels}]
    /\ db.rels \in [DOMAIN db.rels -> Relations]
    /\ \A p \in DOMAIN db.rels :
           /\ Pair(db.rels[p].edge) = p
           /\ db.rels[p].n > 0 => db.copies[p[1]] > 0 /\ db.copies[p[2]] > 0

CourseOK == course \in Courses

LEMMA CourseFacts ==
    ASSUME CourseOK
    PROVE  /\ course.nodes \in Seq(Places) /\ 0 \notin Places /\ Places \subseteq DOMAIN Difficulty
           /\ course.edges \in Seq(ToSet(course.edges))
           /\ \A e \in ToSet(course.edges) : e.src \in Places /\ e.tgt \in Places /\ e.weight \in Nat
           /\ course.mastery \in [DOMAIN course.mastery -> Masteries] /\ course.grades \subseteq Masteries
           /\ course.seeded \subseteq Nat
<1>1. course.nodes \in Seq(DOMAIN Difficulty)
  BY CoursesAssumption DEF CourseOK
<1>2. course.nodes \in Seq(Places) /\ Places \subseteq DOMAIN Difficulty
  <2>1. Places \subseteq DOMAIN Difficulty /\ \A p \in 1 .. Len(course.nodes) : course.nodes[p] \in Places
    BY <1>1, EntriesOf DEF Places
  <2> QED
    BY <1>1, <2>1
<1> QED
  BY <1>2, CoursesAssumption DEF CourseOK, Places

LEMMA CreatesNodes ==
    ASSUME CourseOK, NEW db, StoreOf(db), NEW nodes
    PROVE  StoreOf(CreateKnowledgeNodes(db, nodes))
<1> DEFINE new == CreateKnowledgeNodes(db, nodes)
           c == [v \in DOMAIN db.copies |-> IF v \in ToSet(nodes) THEN db.copies[v] + 1 ELSE db.copies[v]]
<1>1. new = [db EXCEPT !.copies = c]
  BY DEF CreateKnowledgeNodes
<1>2. c \in [Places -> Nat] /\ \A v \in Places : c[v] >= db.copies[v]
  BY DEF StoreOf
<1> HIDE DEF c, new
<1>3. new \in [up : BOOLEAN, copies : [Places -> Nat], loose : [Places -> Nat], rels : {db.rels}]
      /\ new.copies = c /\ new.rels = db.rels
  BY <1>1, <1>2 DEF StoreOf
<1>4. ASSUME NEW p \in DOMAIN db.rels, db.rels[p].n > 0
      PROVE  c[p[1]] > 0 /\ c[p[2]] > 0
  <2>1. db.copies[p[1]] > 0 /\ db.copies[p[2]] > 0
    BY <1>4 DEF StoreOf
  <2>2. Pair(db.rels[p].edge) = p /\ db.rels[p].edge \in ToSet(course.edges)
    BY DEF StoreOf, Relations
  <2>3. p[1] \in Places /\ p[2] \in Places
    BY <2>2, CourseFacts DEF Pair
  <2>4. db.copies[p[1]] \in Nat /\ db.copies[p[2]] \in Nat /\ c[p[1]] \in Nat /\ c[p[2]] \in Nat
    BY <2>3, <1>2 DEF StoreOf
  <2> QED
    BY <2>1, <2>3, <2>4, <1>2
<1> QED
  BY <1>3, <1>4 DEF StoreOf, new

LEMMA MergesNodes ==
    ASSUME CourseOK, NEW db, StoreOf(db), NEW nodes
    PROVE  StoreOf(MergeKnowledgeNodes(db, nodes))
<1> DEFINE new == MergeKnowledgeNodes(db, nodes)
           c == [v \in DOMAIN db.loose |-> IF v \in ToSet(nodes) \ Stored(db) THEN 1 ELSE db.loose[v]]
<1>1. new = [db EXCEPT !.loose = c]
  BY DEF MergeKnowledgeNodes
<1>2. c \in [Places -> Nat]
  BY DEF StoreOf
<1> HIDE DEF c, new
<1>3. new \in [up : BOOLEAN, copies : [Places -> Nat], loose : [Places -> Nat], rels : {db.rels}]
      /\ new.copies = db.copies /\ new.rels = db.rels
  BY <1>1, <1>2 DEF StoreOf
<1> QED
  BY <1>3 DEF StoreOf, new

LEMMA CreatesEdges ==
    ASSUME CourseOK, NEW db, StoreOf(db), NEW edges \in Seq(ToSet(course.edges))
    PROVE  StoreOf(CreateDependencyEdges(db, edges))
<1> DEFINE matched == {i \in DOMAIN edges : {edges[i].src, edges[i].tgt} \subseteq Stored(db)}
           merged == {Pair(edges[i]) : i \in matched}
           Latest(p) == edges[CHOOSE i \in Between(edges, p[1], p[2]) :
                                  \A j \in Between(edges, p[1], p[2]) : j =< i]
           rels == [p \in DOMAIN db.rels \union merged |->
                IF p \in merged THEN [edge |-> Latest(p), n |-> db.copies[p[1]] * db.copies[p[2]]] ELSE db.rels[p]]
           new == CreateDependencyEdges(db, edges)
<1>1. new = [db EXCEPT !.rels = rels]
  BY DEF CreateDependencyEdges
<1>2. DOMAIN edges = 1 .. Len(edges) /\ Len(edges) \in Nat /\ \A i \in DOMAIN edges : edges[i] \in ToSet(course.edges)
  OBVIOUS
<1>3. ASSUME NEW p \in merged
      PROVE  /\ Latest(p) \in ToSet(course.edges) /\ Pair(Latest(p)) = p
             /\ p[1] \in Places /\ p[2] \in Places
  <2> DEFINE B == Between(edges, p[1], p[2])
  <2>1. PICK i \in DOMAIN edges : p = Pair(edges[i])
    OBVIOUS
  <2>2. i \in B /\ p = <<p[1], p[2]>>
    BY <2>1 DEF Between, Pair
  <2>3. B \subseteq 1 .. Len(edges)
    BY <1>2 DEF Between
  <2> HIDE DEF B
  <2>4. \E k \in B : \A j \in B : j =< k
    BY <1>2, <2>2, <2>3, LastOf
  <2> DEFINE k == CHOOSE k \in B : \A j \in B : j =< k
  <2>5. k \in B /\ Latest(p) = edges[k]
    BY <2>4 DEF B
  <2> HIDE DEF k
  <2>6. Pair(edges[k]) = p /\ edges[k] \in ToSet(course.edges)
    BY <2>2, <2>5, <1>2 DEF B, Between
  <2> QED
    BY <2>5, <2>6, CourseFacts DEF Pair
<1>4. \A p \in merged : /\ db.copies[p[1]] * db.copies[p[2]] \in Nat
                        /\ db.copies[p[1]] * db.copies[p[2]] > 0 => db.copies[p[1]] > 0 /\ db.copies[p[2]] > 0
  <2> TAKE p \in merged
  <2>1. db.copies[p[1]] \in Nat /\ db.copies[p[2]] \in Nat
    BY <1>3 DEF StoreOf
  <2> QED
    BY <2>1, ProductOfCopies
<1>5. \A p \in DOMAIN db.rels \union merged :
          /\ p \in merged => rels[p] = [edge |-> Latest(p), n |-> db.copies[p[1]] * db.copies[p[2]]]
          /\ p \notin merged => rels[p] = db.rels[p] /\ p \in DOMAIN db.rels
  OBVIOUS
<1>6. DOMAIN rels = DOMAIN db.rels \union merged
  OBVIOUS
<1> HIDE DEF merged, Latest, rels, new
<1>7. new \in [up : BOOLEAN, copies : [Places -> Nat], loose : [Places -> Nat], rels : {new.rels}]
      /\ new.copies = db.copies /\ new.rels = rels
  BY <1>1 DEF StoreOf
<1>8. \A p \in DOMAIN rels : /\ rels[p] \in Relations /\ Pair(rels[p].edge) = p
                             /\ rels[p].n > 0 => db.copies[p[1]] > 0 /\ db.copies[p[2]] > 0
  <2> TAKE p \in DOMAIN rels
  <2>1. CASE p \in merged
    <3> DEFINE x == Latest(p)
               m == db.copies[p[1]] * db.copies[p[2]]
    <3>1. rels[p] = [edge |-> x, n |-> m]
      BY <2>1, <1>5, <1>6
    <3>2. x \in ToSet(course.edges) /\ Pair(x) = p
      BY <2>1, <1>3
    <3>3. m \in Nat /\ (m > 0 => db.copies[p[1]] > 0 /\ db.copies[p[2]] > 0)
      BY <2>1, <1>4
    <3> HIDE DEF x, m
    <3>4. rels[p].edge = x /\ rels[p].n = m /\ rels[p] \in Relations
      BY <3>1, <3>2, <3>3 DEF Relations
    <3> QED
      BY <3>2, <3>3, <3>4
  <2>2. CASE p \notin merged
    BY <2>2, <1>5, <1>6 DEF StoreOf
  <2> QED
    BY <2>1, <2>2
<1>9. rels \in [DOMAIN rels -> Relations]
  <2>1. rels = [p \in DOMAIN rels |-> rels[p]]
    BY DEF rels
  <2> QED
    BY <2>1, <1>8
<1> QED
  BY <1>7, <1>8, <1>9 DEF StoreOf, new

LEMMA ShortenIs ==
    ASSUME NEW S, NEW s \in Seq(S), NEW n \in Nat
    PROVE  /\ Shorten(s, n) \in Seq(S)
           /\ Len(Shorten(s, n)) = IF Len(s) > n THEN n ELSE Len(s)
           /\ \A i \in 1 .. Len(Shorten(s, n)) : Shorten(s, n)[i] = s[i]
<1> DEFINE k == IF Len(s) > n THEN n ELSE Len(s)
<1>1. k \in 0 .. Len(s) /\ Len(s) \in Nat
  OBVIOUS
<1>2. Shorten(s, n) = SubSeq(s, 1, k)
  BY DEF Shorten
<1> HIDE DEF k
<1>3. SubSeq(s, 1, k) \in Seq(S) /\ Len(SubSeq(s, 1, k)) = k /\ \A i \in 1 .. k : SubSeq(s, 1, k)[i] = s[i]
  <2>1. \A i \in 1 .. k : s[i] \in S
    BY <1>1
  <2> QED
    BY <1>1, <2>1
<1> QED
  BY <1>2, <1>3 DEF k

LEMMA SeedsStore ==
    ASSUME CourseOK, NEW db, StoreOf(db), NEW k \in Nat
    PROVE  StoreOf(SeedNeo4j(db, k))
<1> DEFINE nodes == Shorten(course.nodes, k)
           l == AtLeast(0, k - Len(course.nodes))
           edges == Shorten(course.edges, l)
<1>1. course.edges \in Seq(ToSet(course.edges)) /\ Len(course.nodes) \in Nat
  BY CourseFacts
<1>2. l \in Nat
  BY <1>1 DEF AtLeast
<1> HIDE DEF l, nodes
<1>3. edges \in Seq(ToSet(course.edges))
  BY <1>1, <1>2, ShortenIs
<1>4. StoreOf(CreateKnowledgeNodes(db, nodes))
  BY CreatesNodes
<1> HIDE DEF edges
<1>5. StoreOf(CreateDependencyEdges(CreateKnowledgeNodes(db, nodes), edges))
  BY <1>3, <1>4, CreatesEdges
<1> QED
  BY <1>5 DEF SeedNeo4j, nodes, edges, l

LEMMA BuildsOwnEdges ==
    ASSUME CourseOK, NEW strategy
    PROVE  BuildGraph(course.edges, strategy).final \in Seq(ToSet(course.edges))
<1>1. course.edges \in Seq(ToSet(course.edges))
  BY CourseFacts
<1>2. ASSUME NEW es \in Seq(ToSet(course.edges)), NEW pairs
      PROVE  DropPairs(es, pairs) \in Seq(ToSet(course.edges))
  BY SiftPicks DEF DropPairs
<1> QED
  BY <1>1, <1>2 DEF BuildGraph

Present(db) == {v \in Places : db.copies[v] > 0}
EdgesOf(db) == {e \in ToSet(course.edges) : e.src \in Present(db) /\ e.tgt \in Present(db)}

LEMMA ExportsNodes ==
    ASSUME CourseOK, NEW db, StoreOf(db)
    PROVE  ExportNodes(db) \in Seq(Places) /\ ToSet(ExportNodes(db)) = Present(db)
<1> DEFINE n == Len(course.nodes)
           parts == [i \in 1 .. n |-> [j \in 1 .. db.copies[course.nodes[i]] |-> course.nodes[i]]]
           out == ExportNodes(db)
<1>1. /\ n \in Nat /\ DOMAIN course.nodes = 1 .. n /\ \A i \in 1 .. n : course.nodes[i] \in Places
      /\ \A v \in Places : \E i \in 1 .. n : course.nodes[i] = v
  <2>1. course.nodes \in Seq(Places)
    BY CourseFacts
  <2> QED
    BY <2>1, EntriesOf DEF Places
<1>2. \A v \in Places : db.copies[v] \in Nat
  BY DEF StoreOf
<1>3. \A i \in 1 .. n : /\ parts[i] \in Seq(Places) /\ Len(parts[i]) = db.copies[course.nodes[i]]
                        /\ \A j \in 1 .. Len(parts[i]) : parts[i][j] = course.nodes[i]
  <2> TAKE i \in 1 .. n
  <2> DEFINE v == course.nodes[i]
             m == db.copies[v]
  <2>1. v \in Places /\ m \in Nat
    BY <1>1, <1>2
  <2> HIDE DEF v, m
  <2>2. [j \in 1 .. m |-> v] \in Seq(Places) /\ Len([j \in 1 .. m |-> v]) = m
    BY <2>1
  <2> QED
    BY <2>2 DEF v, m
<1>4. out = FlattenSeq(parts)
  BY <1>1 DEF ExportNodes
<1>5. parts \in [1 .. n -> Seq(Places)]
  BY <1>3
<1> HIDE DEF parts, out, n
<1>6. out \in Seq(Places) /\ \E from, at : Origin(parts, n, out, from, at)
  BY <1>1, <1>4, <1>5, FlattenOrigin
<1>7. PICK from, at : Origin(parts, n, out, from, at)
  BY <1>6
<1>8. ASSUME NEW v \in ToSet(out)
      PROVE  v \in Present(db)
  <2>1. PICK p \in 1 .. Len(out) : out[p] = v
    BY <1>6, EntriesOf
  <2>2. from[p] \in 1 .. n /\ at[p] \in 1 .. Len(parts[from[p]]) /\ v = parts[from[p]][at[p]]
    BY <1>7, <2>1 DEF Origin
  <2> DEFINE i == from[p]
             j == at[p]
  <2>4. i \in 1 .. n /\ j \in 1 .. Len(parts[i]) /\ v = parts[i][j]
    BY <2>2
  <2> HIDE DEF i, j
  <2>6. v = course.nodes[i]
    BY <1>3, <2>4
  <2>7. Len(parts[i]) = db.copies[course.nodes[i]]
    BY <1>3, <2>4
  <2>8. v \in Places
    BY <1>1, <2>4, <2>6
  <2>5. v = course.nodes[i] /\ v \in Places /\ db.copies[v] \in Nat /\ Len(parts[i]) = db.copies[v]
    BY <1>2, <2>6, <2>7, <2>8
  <2>3. v = course.nodes[from[p]] /\ v \in Places /\ db.copies[v] \in Nat /\ Len(parts[from[p]]) = db.copies[v]
    BY <2>5 DEF i
  <2> QED
    BY <2>2, <2>3 DEF Present
<1>9. ASSUME NEW v \in Present(db)
      PROVE  v \in ToSet(out)
  <2>1. PICK i \in 1 .. n : course.nodes[i] = v
    BY <1>1 DEF Present
  <2>2. 1 \in 1 .. Len(parts[i]) /\ parts[i][1] = v
    BY <1>2, <1>3, <2>1 DEF Present
  <2>3. PICK p \in 1 .. Len(out) : from[p] = i /\ at[p] = 1
    BY <1>7, <2>2 DEF Origin
  <2>4. out[p] = v
    BY <1>7, <2>2, <2>3 DEF Origin
  <2> QED
    BY <1>6, <2>4, EntriesOf
<1> QED
  BY <1>6, <1>8, <1>9 DEF out

LEMMA ExportsEdges ==
    ASSUME CourseOK, NEW db, StoreOf(db)
    PROVE  ExportEdges(db) \in Seq(EdgesOf(db))
<1> DEFINE n == Len(course.nodes)
           S == EdgesOf(db)
           Rows(u, v) == IF <<u, v>> \notin DOMAIN db.rels THEN <<>>
                         ELSE [j \in 1 .. db.rels[<<u, v>>].n |-> db.rels[<<u, v>>].edge]
           From(u) == FlattenSeq([i \in 1 .. n |-> Rows(u, course.nodes[i])])
<1>1. n \in Nat /\ DOMAIN course.nodes = 1 .. n
  BY CourseFacts, EntriesOf
<1>2. ASSUME NEW u, NEW v
      PROVE  Rows(u, v) \in Seq(S)
  <2>1. CASE <<u, v>> \notin DOMAIN db.rels
    BY <2>1
  <2>2. CASE <<u, v>> \in DOMAIN db.rels
    <3> DEFINE e == db.rels[<<u, v>>].edge
               m == db.rels[<<u, v>>].n
    <3>1. e \in ToSet(course.edges) /\ m \in Nat /\ e.src = u /\ e.tgt = v
      BY <2>2 DEF StoreOf, Relations, Pair
    <3>2. m > 0 => u \in Present(db) /\ v \in Present(db)
      BY <2>2, <3>1, CourseFacts DEF StoreOf, Present
    <3>3. Rows(u, v) = [j \in 1 .. m |-> e]
      BY <2>2
    <3> HIDE DEF e, m, Rows
    <3>4. m > 0 => e \in S
      BY <3>1, <3>2 DEF EdgesOf
    <3> HIDE DEF S
    <3>5. \A j \in 1 .. m : e \in S
      BY <3>1, <3>4
    <3>6. [j \in 1 .. m |-> e] \in Seq(S)
      BY <3>1, <3>5
    <3> QED
      BY <3>3, <3>6
  <2> QED
    BY <2>1, <2>2
<1> HIDE DEF Rows, S
<1>3. ASSUME NEW u
      PROVE  From(u) \in Seq(S)
  <2> DEFINE parts == [i \in 1 .. n |-> Rows(u, course.nodes[i])]
  <2>1. parts \in [1 .. n -> Seq(S)]
    BY <1>2
  <2> HIDE DEF parts
  <2>2. FlattenSeq(parts) \in Seq(S)
    BY <1>1, <2>1, FlattenOrigin
  <2> QED
    BY <2>2 DEF parts
<1>4. ExportEdges(db) = FlattenSeq([i \in 1 .. n |-> From(course.nodes[i])])
  BY <1>1 DEF ExportEdges, Rows
<1> HIDE DEF From
<1> DEFINE parts == [i \in 1 .. n |-> From(course.nodes[i])]
<1>5. parts \in [1 .. n -> Seq(S)]
  BY <1>3
<1> HIDE DEF parts
<1>6. FlattenSeq(parts) \in Seq(S)
  BY <1>1, <1>5, FlattenOrigin
<1> QED
  BY <1>4, <1>6 DEF parts, S

LEMMA OwnEntries ==
    ASSUME NEW S, NEW s \in Seq(S)
    PROVE  s \in Seq(ToSet(s))
<1>1. \A p \in 1 .. Len(s) : s[p] \in ToSet(s)
  BY EntriesOf
<1> QED
  BY <1>1

LEMMA WiderSeq ==
    ASSUME NEW S, NEW T, S \subseteq T, NEW s \in Seq(S)
    PROVE  s \in Seq(T)
  OBVIOUS

(* A graph made of the course, whose edges have their ends among its nodes. *)
OfCourse(g) == g \in [nodes : Seq(Places), edges : Seq(ToSet(course.edges))]

LEMMA CourseGraphs ==
    ASSUME CourseOK, NEW g, OfCourse(g), Ends(g.edges) \subseteq NodeSet(g)
    PROVE  IsGraph(g)
<1>1. g.nodes \in Seq(Places) /\ g.edges \in Seq(ToSet(course.edges))
  BY DEF OfCourse
<1>2. g.nodes \in Seq(NodeSet(g)) /\ g.edges \in Seq(ToSet(g.edges))
  BY <1>1, OwnEntries DEF NodeSet
<1>3. \A i \in DOMAIN g.edges : g.edges[i].src \in NodeSet(g) /\ g.edges[i].tgt \in NodeSet(g)
  BY DEF Ends
<1> QED
  BY <1>2, <1>3 DEF IsGraph

LEMMA ExportedGraph ==
    ASSUME CourseOK, NEW db, StoreOf(db)
    PROVE  OfCourse(Export(db)) /\ IsGraph(Export(db))
<1> DEFINE g == Export(db)
<1>1. /\ ExportNodes(db) \in Seq(Places) /\ ToSet(ExportNodes(db)) = Present(db)
      /\ ExportEdges(db) \in Seq(EdgesOf(db))
  BY ExportsNodes, ExportsEdges
<1>2. EdgesOf(db) \subseteq ToSet(course.edges)
  BY DEF EdgesOf
<1>3. ExportEdges(db) \in Seq(ToSet(course.edges))
  BY <1>1, <1>2, WiderSeq
<1>4. OfCourse(g) /\ NodeSet(g) = Present(db) /\ g.edges = ExportEdges(db)
  BY <1>1, <1>3 DEF OfCourse, Export, NodeSet
<1> HIDE DEF g
<1>5. Ends(g.edges) \subseteq NodeSet(g)
  BY <1>1, <1>4 DEF Ends, EdgesOf
<1> QED
  BY <1>4, <1>5, CourseGraphs DEF g

(* The planner holds a graph of the course, and an order only of that graph. *)
PlannerOf(p) ==
    /\ p \in [graph : [nodes : Seq(Places), edges : Seq(ToSet(course.edges))], topo : {p.topo}]
    /\ p.topo # NoOrder => IsGraph(p.graph) /\ IsOrder(p.graph, p.topo)

LEMMA NewPlanner ==
    ASSUME CourseOK, NEW g, OfCourse(g)
    PROVE  PlannerOf([graph |-> g, topo |-> NoOrder])
  BY DEF PlannerOf, OfCourse

LEMMA EmptyPlanner ==
    ASSUME CourseOK
    PROVE  PlannerOf(NoPlanner)
<1>1. OfCourse([nodes |-> <<>>, edges |-> <<>>])
  BY DEF OfCourse
<1> QED
  BY <1>1, NewPlanner DEF NoPlanner

LEMMA PlannerEdits ==
    ASSUME CourseOK, NEW p, PlannerOf(p), NEW e \in ToSet(course.edges)
    PROVE  PlannerOf(InvalidateCache([p EXCEPT !.graph.edges = Append(@, e)]))
<1> DEFINE es == Append(p.graph.edges, e)
           new == InvalidateCache([p EXCEPT !.graph.edges = Append(@, e)])
<1>1. p.graph.edges \in Seq(ToSet(course.edges)) /\ p.graph.nodes \in Seq(Places)
  BY DEF PlannerOf
<1>2. es \in Seq(ToSet(course.edges))
  BY <1>1
<1> HIDE DEF es
<1>3. new = [[p EXCEPT !.graph.edges = es] EXCEPT !.topo = NoOrder]
  BY DEF InvalidateCache, es
<1> HIDE DEF new
<1>4. new = [graph |-> [nodes |-> p.graph.nodes, edges |-> es], topo |-> NoOrder]
  BY <1>3 DEF PlannerOf
<1>5. OfCourse([nodes |-> p.graph.nodes, edges |-> es])
  BY <1>1, <1>2 DEF OfCourse
<1> QED
  BY <1>4, <1>5, NewPlanner DEF new

LEMMA CachedOrders ==
    ASSUME CourseOK, NEW p, PlannerOf(p), IsGraph(p.graph), CachedOrder(p) # Failed
    PROVE  IsOrder(p.graph, CachedOrder(p))
<1>1. CASE p.topo # NoOrder
  BY <1>1 DEF PlannerOf, CachedOrder
<1>2. CASE p.topo = NoOrder
  BY <1>2, KahnOrders DEF CachedOrder
<1> QED
  BY <1>1, <1>2

LEMMA PlannerSearches ==
    ASSUME CourseOK, NEW p, PlannerOf(p), Ends(p.graph.edges) \subseteq NodeSet(p.graph)
    PROVE  PlannerOf(Remember(p))
<1>1. IsGraph(p.graph)
  BY CourseGraphs DEF PlannerOf, OfCourse
<1>2. CASE CachedOrder(p) = Failed
  BY <1>2 DEF Remember
<1>3. CASE CachedOrder(p) # Failed
  <2> DEFINE t == CachedOrder(p)
             new == Remember(p)
  <2>1. new = [p EXCEPT !.topo = t] /\ IsOrder(p.graph, t)
    BY <1>1, <1>3, CachedOrders DEF Remember
  <2> HIDE DEF t, new
  <2>2. new = [graph |-> p.graph, topo |-> t]
    BY <2>1 DEF PlannerOf
  <2> QED
    BY <2>1, <2>2, <1>1 DEF PlannerOf, new
<1> QED
  BY <1>2, <1>3

-----------------------------------------------------------------------------
(* The kept order. *)

(* What every state of the planning keeps: the store, the planner and the  *)
(* masteries speak of the course that was given.                           *)
CourseKept ==
    /\ CourseOK /\ StoreOf(remote) /\ PlannerOf(planner)
    /\ mastery \in [DOMAIN mastery -> Masteries]

LEMMA CourseStays == [Next]_vars => course' = course
<1> SUFFICES ASSUME [Next]_vars PROVE course' = course
  OBVIOUS
<1>1. CASE StartManager
  BY <1>1 DEF StartManager
<1>2. CASE StopManager
  BY <1>2 DEF StopManager
<1>3. CASE SeedCourse
  BY <1>3 DEF SeedCourse
<1>4. CASE RemoteFlips
  BY <1>4 DEF RemoteFlips
<1>5. CASE CreatePathPlanner
  BY <1>5 DEF CreatePathPlanner
<1>6. ASSUME NEW strategy, Build(strategy)
      PROVE  course' = course
  BY <1>6 DEF Build
<1>7. ASSUME NEW e, AddEdge(e)
      PROVE  course' = course
  BY <1>7 DEF AddEdge
<1>8. ASSUME NEW asked, FindPath(asked)
      PROVE  course' = course
  BY <1>8 DEF FindPath
<1>9. ASSUME NEW current, NEW target, NEW hours, RunPlanner(current, target, hours)
      PROVE  course' = course
  BY <1>9 DEF RunPlanner
<1>10. ASSUME NEW v, Learn(v)
      PROVE  course' = course
  BY <1>10 DEF Learn
<1>11. CASE UNCHANGED vars
  BY <1>11 DEF vars
<1> QED
  BY <1>1, <1>2, <1>3, <1>4, <1>5, <1>6, <1>7, <1>8, <1>9, <1>10, <1>11 DEF Next

LEMMA CourseKeptInit == Init => CourseKept
<1> SUFFICES ASSUME Init PROVE CourseKept
  OBVIOUS
<1>1. CourseOK
  BY DEF Init, CourseOK
<1>2. StoreOf(remote)
  <2> DEFINE zero == [v \in Places |-> 0]
             none == <<>>
  <2>1. remote = [up |-> TRUE, copies |-> zero, loose |-> zero, rels |-> none]
    BY DEF Init, Places
  <2>2. zero \in [Places -> Nat] /\ DOMAIN none = {} /\ none \in [DOMAIN none -> Relations]
    OBVIOUS
  <2> HIDE DEF zero, none
  <2> QED
    BY <2>1, <2>2 DEF StoreOf
<1>3. PlannerOf(planner)
  BY <1>1, EmptyPlanner DEF Init
<1>4. mastery \in [DOMAIN mastery -> Masteries]
  BY <1>1, CourseFacts DEF Init
<1> QED
  BY <1>1, <1>2, <1>3, <1>4 DEF CourseKept

LEMMA CourseKeptNext == CourseKept /\ [Next]_vars => CourseKept'
<1> SUFFICES ASSUME CourseKept, [Next]_vars PROVE CourseKept'
  OBVIOUS
<1>1. CourseOK /\ StoreOf(remote) /\ PlannerOf(planner) /\ mastery \in [DOMAIN mastery -> Masteries]
  BY DEF CourseKept
<1>2. course' = course
  BY CourseStays
<1>3. CourseOK' /\ Places' = Places /\ Relations' = Relations
  BY <1>1, <1>2 DEF CourseOK, Places, Relations
<1>4. ASSUME StoreOf(remote'), PlannerOf(planner'), mastery' \in [DOMAIN mastery' -> Masteries]
      PROVE  CourseKept'
  <2>1. StoreOf(remote)'
    BY <1>2, <1>3, <1>4 DEF StoreOf
  <2>2. PlannerOf(planner)'
    BY <1>2, <1>3, <1>4 DEF PlannerOf
  <2> QED
    BY <1>3, <1>4, <2>1, <2>2 DEF CourseKept
<1>5. CASE StartManager
  <2>1. planner' = planner /\ mastery' = mastery
    BY <1>5 DEF StartManager
  <2>2. CASE remote' = remote
    BY <1>1, <1>4, <2>1, <2>2
  <2>3. CASE \E k \in course.seeded : remote' = SeedNeo4j(remote, k)
    <3>1. PICK k \in course.seeded : remote' = SeedNeo4j(remote, k)
      BY <2>3
    <3>2. k \in Nat
      BY <1>1, CourseFacts
    <3>3. StoreOf(remote')
      BY <1>1, <3>1, <3>2, SeedsStore
    <3> QED
      BY <1>1, <1>4, <2>1, <3>3
  <2> QED
    BY <1>5, <2>2, <2>3 DEF StartManager
<1>6. CASE StopManager
  <2>1. remote' = remote /\ planner' = NoPlanner /\ mastery' = mastery
    BY <1>6 DEF StopManager
  <2>2. PlannerOf(planner')
    BY <1>1, <2>1, EmptyPlanner
  <2> QED
    BY <1>1, <1>4, <2>1, <2>2
<1>7. CASE SeedCourse
  <2> DEFINE k == Len(course.nodes) + Len(course.edges)
  <2>1. k \in Nat
    <3>1. course.nodes \in Seq(Places) /\ course.edges \in Seq(ToSet(course.edges))
      BY <1>1, CourseFacts
    <3> DEFINE a == Len(course.nodes)
               b == Len(course.edges)
    <3>2. a \in Nat /\ b \in Nat
      BY <3>1, EntriesOf
    <3>3. k = a + b
      OBVIOUS
    <3> HIDE DEF a, b, k
    <3> QED
      BY <3>2, <3>3
  <2> HIDE DEF k
  <2>2. remote' = SeedNeo4j(remote, k) /\ planner' = planner /\ mastery' = mastery
    BY <1>7 DEF SeedCourse, k
  <2>3. StoreOf(remote')
    BY <1>1, <2>1, <2>2, SeedsStore
  <2> QED
    BY <1>1, <1>4, <2>2, <2>3
<1>8. CASE RemoteFlips
  <2>1. remote' = [remote EXCEPT !.up = ~remote.up] /\ planner' = planner /\ mastery' = mastery
    BY <1>8 DEF RemoteFlips
  <2> DEFINE b == ~remote.up
  <2>4. remote' = [remote EXCEPT !.up = b] /\ b \in BOOLEAN
    <3>1. b \in BOOLEAN
      BY Zenon
    <3> QED
      BY <2>1, <3>1
  <2> HIDE DEF b
  <2>5. StoreOf(remote')
    BY <1>1, <2>4 DEF StoreOf
  <2> QED
    BY <1>1, <1>4, <2>1, <2>5
<1>9. CASE CreatePathPlanner
  <2>1. remote' = remote /\ mastery' = mastery
    BY <1>9 DEF CreatePathPlanner
  <2>2. OfCourse([nodes |-> course.nodes, edges |-> course.edges])
    BY <1>1, CourseFacts DEF OfCourse
  <2>3. OfCourse(Export(remote))
    BY <1>1, ExportedGraph
  <2>4. OfCourse([nodes |-> ExportNodes(remote), edges |-> <<>>])
    BY <1>1, ExportsNodes DEF OfCourse
  <2>5. OfCourse([nodes |-> <<>>, edges |-> course.edges])
    BY <1>1, CourseFacts DEF OfCourse
  <2>6. \E g : OfCourse(g) /\ planner' = [graph |-> g, topo |-> NoOrder]
    BY <1>9, <2>2, <2>3, <2>4, <2>5 DEF CreatePathPlanner
  <2>7. PlannerOf(planner')
    BY <1>1, <2>6, NewPlanner
  <2> QED
    BY <1>1, <1>4, <2>1, <2>7
<1>10. ASSUME NEW strategy, Build(strategy)
       PROVE  CourseKept'
  <2> DEFINE built == BuildGraph(course.edges, strategy)
             merged == MergeKnowledgeNodes(remote, course.nodes)
  <2>1. planner' = planner /\ mastery' = mastery
        /\ remote' \in {remote, merged, CreateDependencyEdges(merged, built.final)}
    BY <1>10 DEF Build
  <2>2. built.final \in Seq(ToSet(course.edges)) /\ StoreOf(merged)
    BY <1>1, BuildsOwnEdges, MergesNodes
  <2> HIDE DEF built, merged
  <2>3. StoreOf(CreateDependencyEdges(merged, built.final))
    BY <1>1, <2>2, CreatesEdges
  <2>4. StoreOf(remote')
    BY <1>1, <2>1, <2>2, <2>3
  <2> QED
    BY <1>1, <1>4, <2>1, <2>4
<1>11. ASSUME NEW e \in ToSet(course.edges), AddEdge(e)
       PROVE  CourseKept'
  <2>1. remote' = remote /\ mastery' = mastery
        /\ planner' = InvalidateCache([planner EXCEPT !.graph.edges = Append(@, e)])
    BY <1>11 DEF AddEdge
  <2>2. PlannerOf(planner')
    BY <1>1, <2>1, PlannerEdits
  <2> QED
    BY <1>1, <1>4, <2>1, <2>2
<1>12. ASSUME NEW asked, FindPath(asked)
       PROVE  CourseKept'
  <2>1. remote' = remote /\ mastery' = mastery /\ planner' = Remember(planner)
        /\ Ends(planner.graph.edges) \subseteq NodeSet(planner.graph)
    BY <1>12 DEF FindPath
  <2>2. PlannerOf(planner')
    BY <1>1, <2>1, PlannerSearches
  <2> QED
    BY <1>1, <1>4, <2>1, <2>2
<1>13. ASSUME NEW current, NEW target, NEW hours, RunPlanner(current, target, hours)
       PROVE  CourseKept'
  BY <1>1, <1>4, <1>13 DEF RunPlanner
<1>14. ASSUME NEW v \in DOMAIN mastery, Learn(v)
       PROVE  CourseKept'
  <2>1. PICK grade \in course.grades : mastery' = [mastery EXCEPT ![v] = grade]
    BY <1>14 DEF Learn
  <2>2. remote' = remote /\ planner' = planner
    BY <1>14 DEF Learn
  <2>3. grade \in Masteries
    BY <1>1, CourseFacts
  <2>4. mastery' \in [DOMAIN mastery' -> Masteries]
    BY <1>1, <2>1, <2>3
  <2> QED
    BY <1>1, <1>4, <2>2, <2>4
<1>15. CASE UNCHANGED vars
  BY <1>1, <1>4, <1>15 DEF vars
<1> QED
  BY <1>5, <1>6, <1>7, <1>8, <1>9, <1>10, <1>11, <1>12, <1>13, <1>14, <1>15 DEF Next

LEMMA CourseIsKept == Spec => []CourseKept
  BY CourseKeptInit, CourseKeptNext, PTL DEF Spec

LEMMA KeptOrderIsCurrent == CourseKept => CachedOrderIsCurrent
<1> SUFFICES ASSUME CourseKept, planner.topo # NoOrder
             PROVE  /\ ToSet(planner.topo) = NodeSet(planner.graph)
                    /\ \A e \in ToSet(planner.graph.edges) : Rank(planner.topo, e.src) < Rank(planner.topo, e.tgt)
  BY DEF CachedOrderIsCurrent
<1> DEFINE g == planner.graph
           topo == planner.topo
<1>1. IsGraph(g) /\ IsOrder(g, topo)
  BY DEF CourseKept, PlannerOf
<1>2. ASSUME NEW e \in ToSet(g.edges)
      PROVE  Rank(topo, e.src) < Rank(topo, e.tgt)
  <2>1. PICK i \in DOMAIN g.edges : g.edges[i] = e
    BY DEF ToSet
  <2> HIDE DEF g, topo
  <2>2. Rank(topo, g.edges[i].src) < Rank(topo, g.edges[i].tgt)
    BY <1>1, EdgesLeadForward
  <2> QED
    BY <2>1, <2>2
<1> QED
  BY <1>1, <1>2 DEF IsOrder

(* The order the planner keeps is always an order of the graph it has. *)
THEOREM OrderStaysCurrent == Spec => []CachedOrderIsCurrent
  BY CourseIsKept, KeptOrderIsCurrent, PTL

-----------------------------------------------------------------------------
(* Relaxation, and what learning does to it. *)

LEMMA ProductGrows ==
    ASSUME NEW a \in Int, NEW b \in Int, a =< b, NEW w \in Nat
    PROVE  a * w =< b * w
<1>1. (b - a) * w >= 0
  OBVIOUS
<1>2. (b - a) * w = b * w - a * w
  OBVIOUS
<1> QED
  BY <1>1, <1>2

LEMMA QuotientGrows ==
    ASSUME NEW a \in Int, NEW b \in Int, a =< b
    PROVE  a \div 10 \in Int /\ b \div 10 \in Int /\ a \div 10 =< b \div 10
  OBVIOUS

LEMMA WeightsAreCosts ==
    ASSUME NEW strategy \in Strategies, NEW e, e.src \in DOMAIN Difficulty, e.tgt \in DOMAIN Difficulty,
           e.weight \in Nat
    PROVE  EdgeWeight(strategy, e) \in Nat
<1> DEFINE d == Difficulty[e.tgt]
           s == Difficulty[e.src]
           h == Hours[e.tgt]
           w == e.weight
<1>1. d \in 0 .. 100 /\ s \in 0 .. 100 /\ h \in Nat /\ w \in Nat
  BY NodesAssumption
<1> HIDE DEF d, s, h, w
<1>2. d * h \in Nat /\ 100 * w + d * h \in Nat
  BY <1>1, ProductOfCopies
<1>3. 100 + 3 * Abs(s - d) \in Nat
  BY <1>1 DEF Abs
<1>4. (100 + 3 * Abs(s - d)) * w \in Nat
  BY <1>1, <1>3, ProductOfCopies
<1>5. \A x \in Int : AtLeast(10, x) \in Nat
  BY DEF AtLeast
<1>6. (100 + IF d \in 30 .. 70 THEN -30 ELSE Abs(d - 50)) \in Nat
  BY <1>1 DEF Abs
<1>7. (100 + IF d \in 30 .. 70 THEN -30 ELSE Abs(d - 50)) * w \in Nat
  BY <1>1, <1>6, ProductOfCopies
<1>8. CASE strategy = "TOPO_MIN_WEIGHT"
  BY <1>8, <1>2 DEF EdgeWeight, d, h, w
<1>9. CASE strategy = "TOPO_MIN_HOPS"
  BY <1>9 DEF EdgeWeight
<1>10. CASE strategy = "TOPO_BALANCED"
  BY <1>10, <1>4 DEF EdgeWeight, d, s, w
<1>11. CASE strategy = "COLD_START_HEURISTIC"
  <2>1. EdgeWeight(strategy, e) = AtLeast(10, (100 + IF d \in 30 .. 70 THEN -30 ELSE Abs(d - 50)) * w)
    BY <1>11 DEF EdgeWeight, d, w
  <2> QED
    BY <2>1, <1>5, <1>7
<1> QED
  BY <1>8, <1>9, <1>10, <1>11 DEF Strategies

(* An edge costs less, or the same, once its source is mastered better. *)
LEMMA MasteryLowersCost ==
    ASSUME NEW e, e.tgt \in DOMAIN Difficulty, e.weight \in Nat, NEW low, NEW high,
           low[e.src] \in Masteries, high[e.src] \in Masteries, low[e.src] =< high[e.src]
    PROVE  EdgeCost(e, high) \in Nat /\ EdgeCost(e, low) \in Nat /\ EdgeCost(e, high) =< EdgeCost(e, low)
<1> DEFINE Factor(m) == IF m >= 80 THEN 3 ELSE IF m =< 20 THEN 20 ELSE 10
           Left(m) == (100 - m) * Factor(m)
           l == low[e.src]
           h == high[e.src]
           w == e.weight
           d == 10 * Difficulty[e.tgt]
<1>1. l \in 0 .. 100 /\ h \in 0 .. 100 /\ l =< h /\ w \in Nat /\ d \in Nat
  BY NodesAssumption DEF Masteries
<1>2. EdgeCost(e, low) = AtLeast(1, (Left(l) * w) \div 10 + d)
      /\ EdgeCost(e, high) = AtLeast(1, (Left(h) * w) \div 10 + d)
  BY DEF EdgeCost
<1> HIDE DEF l, h, w, d
<1>3. Left(l) \in Nat /\ Left(h) \in Nat /\ Left(h) =< Left(l)
  BY <1>1
<1> DEFINE a == Left(h) * w
           b == Left(l) * w
<1>4. a \in Int /\ b \in Int /\ a =< b
  <2> DEFINE x == Left(h)
             y == Left(l)
  <2> HIDE DEF Left
  <2>1. x \in Int /\ y \in Int /\ x =< y /\ x \in Nat /\ y \in Nat
    BY <1>3
  <2> HIDE DEF x, y
  <2>2. x * w =< y * w /\ x * w \in Nat /\ y * w \in Nat
    BY <2>1, <1>1, ProductGrows, ProductOfCopies
  <2> QED
    BY <2>2 DEF x, y
<1> HIDE DEF a, b
<1>5. a \div 10 \in Int /\ b \div 10 \in Int /\ a \div 10 =< b \div 10
  BY <1>4, QuotientGrows
<1> DEFINE p == a \div 10
           q == b \div 10
<1> HIDE DEF p, q
<1>6. p \in Int /\ q \in Int /\ p =< q
  BY <1>5 DEF p, q
<1>7. AtLeast(1, p + d) \in Nat /\ AtLeast(1, q + d) \in Nat /\ AtLeast(1, p + d) =< AtLeast(1, q + d)
  BY <1>1, <1>6 DEF AtLeast
<1> QED
  BY <1>2, <1>7 DEF a, b, p, q

Distances == Nat \union {Infinity}
Trees(g) == [dist : [NodeSet(g) -> Distances], pred : [NodeSet(g) -> NodeSet(g) \union {0}]]

(* One relaxation: only what is known of the target changes. *)
EdgeRelaxed(g, tree, e, c, after) ==
    /\ after \in Trees(g)
    /\ \A v \in NodeSet(g) : v # e.tgt => after.dist[v] = tree.dist[v] /\ after.pred[v] = tree.pred[v]
    /\ \/ /\ tree.dist[e.src] # Infinity /\ tree.dist[e.src] + c \in Nat
          /\ tree.dist[e.tgt] = Infinity \/ tree.dist[e.tgt] > tree.dist[e.src] + c
          /\ after.dist[e.tgt] = tree.dist[e.src] + c /\ after.pred[e.tgt] = e.src
       \/ /\ \/ tree.dist[e.src] = Infinity
             \/ /\ tree.dist[e.src] # Infinity /\ tree.dist[e.tgt] # Infinity
                /\ tree.dist[e.tgt] =< tree.dist[e.src] + c
          /\ after = tree

LEMMA RelaxEdgeIs ==
    ASSUME NEW g, NEW tree \in Trees(g), NEW e, e.src \in NodeSet(g), e.tgt \in NodeSet(g), NEW c \in Nat
    PROVE  RelaxEdge(tree, e, c) \in Trees(g) /\ EdgeRelaxed(g, tree, e, c, RelaxEdge(tree, e, c))
<1> DEFINE new == RelaxEdge(tree, e, c)
           V == NodeSet(g)
           through == tree.dist[e.src] + c
           u == e.src
           v == e.tgt
<1>1. tree.dist \in [V -> Distances] /\ tree.pred \in [V -> V \union {0}] /\ u \in V /\ v \in V
  BY DEF Trees
<1>2. CASE tree.dist[u] = Infinity
  BY <1>1, <1>2 DEF RelaxEdge, EdgeRelaxed
<1>3. CASE tree.dist[u] # Infinity
  <2>1. tree.dist[u] \in Nat /\ through \in Nat /\ Infinity \notin Int
    BY <1>1, <1>3, InfinityAssumption DEF Distances
  <2>2. tree.dist[v] \in Nat \/ tree.dist[v] = Infinity
    BY <1>1 DEF Distances
  <2> HIDE DEF through
  <2>3. CASE tree.dist[v] = Infinity \/ tree.dist[v] > through
    <3> DEFINE dist == [tree.dist EXCEPT ![v] = through]
               pred == [tree.pred EXCEPT ![v] = u]
    <3>1. new = [dist |-> dist, pred |-> pred]
      BY <1>3, <2>3 DEF RelaxEdge, Improves, through
    <3>2. dist \in [V -> Distances] /\ pred \in [V -> V \union {0}] /\ dist[v] = through /\ pred[v] = u
          /\ \A x \in V : x # v => dist[x] = tree.dist[x] /\ pred[x] = tree.pred[x]
      BY <1>1, <2>1 DEF Distances
    <3> HIDE DEF new, dist, pred, V
    <3>3. new \in Trees(g) /\ new.dist = dist /\ new.pred = pred
      BY <3>1, <3>2 DEF Trees, V
    <3> QED
      BY <1>3, <2>1, <2>3, <3>2, <3>3 DEF new, through, V, EdgeRelaxed
  <2>4. CASE ~(tree.dist[v] = Infinity \/ tree.dist[v] > through)
    <3>1. new = tree
      BY <2>4 DEF RelaxEdge, Improves, through
    <3>2. tree.dist[v] # Infinity /\ tree.dist[v] =< through
      BY <2>1, <2>2, <2>4
    <3> HIDE DEF new
    <3> QED
      BY <1>1, <1>3, <3>1, <3>2 DEF new, through, EdgeRelaxed
  <2> QED
    BY <2>3, <2>4
<1> QED
  BY <1>2, <1>3

TreeRuns(t, g, source, order, cost) ==
    t = [k \in 0 .. Len(order) |->
            IF k = 0 THEN Root(g, source) ELSE RelaxEdge(t[k - 1], g.edges[order[k]], cost[order[k]])]

LEMMA RootIsTree ==
    ASSUME NEW g, NEW source
    PROVE  Root(g, source) \in Trees(g)
  BY DEF Root, Trees, Distances

Relaxes(t, g, topo, source, last, cost) ==
    LET order == Schedule(g, topo, source, last)
    IN  /\ t[0] = Root(g, source) /\ t[Len(order)] = Relax(g, topo, source, last, cost)
        /\ \A k \in 0 .. Len(order) - 1 :
               t[k + 1] = RelaxEdge(t[k], g.edges[order[k + 1]], cost[order[k + 1]])

(* The relaxation is a sequence of trees, one relaxed edge apart. *)
LEMMA RelaxRun ==
    ASSUME NEW g, IsGraph(g), NEW source, NEW topo, NEW last,
           Schedule(g, topo, source, last) \in Seq(DOMAIN g.edges), NEW cost \in [DOMAIN g.edges -> Nat]
    PROVE  \E t \in [0 .. Len(Schedule(g, topo, source, last)) -> Trees(g)] :
               Relaxes(t, g, topo, source, last, cost)
<1> DEFINE order == Schedule(g, topo, source, last)
           n == Len(order)
           S == Trees(g)
           step == [x \in (0 .. n) \X S |->
                        IF x[1] = 0 THEN x[2] ELSE RelaxEdge(x[2], g.edges[order[x[1]]], cost[order[x[1]]])]
           b == Root(g, source)
<1>1. n \in Nat /\ 0 \in Nat /\ 0 =< n /\ \A k \in 1 .. n : order[k] \in DOMAIN g.edges
  BY EntriesOf
<1>2. b \in S
  BY RootIsTree
<1>3. Relax(g, topo, source, last, cost) = (CHOOSE t : TreeRuns(t, g, source, order, cost))[n]
  BY DEF Relax, TreeRuns
<1> HIDE DEF order, n, b
<1>4. ASSUME NEW k \in 1 .. n, NEW s \in S
      PROVE  RelaxEdge(s, g.edges[order[k]], cost[order[k]]) \in S
  <2> DEFINE e == g.edges[order[k]]
             c == cost[order[k]]
  <2>1. e.src \in NodeSet(g) /\ e.tgt \in NodeSet(g) /\ c \in Nat
    BY <1>1 DEF IsGraph
  <2> HIDE DEF e, c
  <2>2. RelaxEdge(s, e, c) \in Trees(g)
    BY <2>1, RelaxEdgeIs
  <2> QED
    BY <2>2 DEF e, c
<1> HIDE DEF S
<1>5. /\ step \in [(0 .. n) \X S -> S]
      /\ \A k \in 1 .. n : \A s \in S : step[<<k, s>>] = RelaxEdge(s, g.edges[order[k]], cost[order[k]])
  <2>1. \A k \in 0 .. n : \A s \in S :
            (IF k = 0 THEN s ELSE RelaxEdge(s, g.edges[order[k]], cost[order[k]])) \in S
    <3> TAKE k \in 0 .. n
    <3> TAKE s \in S
    <3>1. CASE k = 0
      BY <3>1
    <3>2. CASE k # 0
      <4>1. k \in 1 .. n
        BY <3>2, <1>1
      <4> QED
        BY <3>2, <4>1, <1>4
    <3> QED
      BY <3>1, <3>2
  <2>2. \A k \in 1 .. n : k \in 0 .. n /\ k # 0
    BY <1>1
  <2> QED
    BY <2>1, <2>2
<1> HIDE DEF step
<1>6. PICK f \in [0 .. n -> S] : Unrolls(f, 0, n, b, step)
  BY <1>1, <1>2, <1>5, Recursion
<1>7. TreeRuns(f, g, source, order, cost)
  <2>1. \A k \in 0 .. n : f[k] = IF k = 0 THEN Root(g, source)
                                 ELSE RelaxEdge(f[k - 1], g.edges[order[k]], cost[order[k]])
    <3> TAKE k \in 0 .. n
    <3>1. f[k] = IF k = 0 THEN b ELSE step[<<k, f[k - 1]>>]
      BY <1>6 DEF Unrolls
    <3>2. k # 0 => k \in 1 .. n /\ f[k - 1] \in S
      BY <1>1, <1>6
    <3> QED
      BY <3>1, <3>2, <1>5 DEF b
  <2>2. DOMAIN f = 0 .. n /\ f = [k \in 0 .. n |-> f[k]]
    BY <1>6
  <2> QED
    BY <2>1, <2>2 DEF TreeRuns, n
<1> DEFINE t == CHOOSE t : TreeRuns(t, g, source, order, cost)
<1>8. TreeRuns(t, g, source, order, cost)
  BY <1>7
<1>9. Relax(g, topo, source, last, cost) = t[n]
  BY <1>3
<1> HIDE DEF t
<1>10. \A k \in 0 .. n : t[k] = IF k = 0 THEN b ELSE RelaxEdge(t[k - 1], g.edges[order[k]], cost[order[k]])
  BY <1>8 DEF TreeRuns, n, b
<1>11. \A k \in 0 .. n - 1 : t[k + 1] = RelaxEdge(t[k], g.edges[order[k + 1]], cost[order[k + 1]])
  <2> TAKE k \in 0 .. n - 1
  <2>1. k + 1 \in 0 .. n /\ k + 1 # 0 /\ (k + 1) - 1 = k
    BY <1>1
  <2> QED
    BY <2>1, <1>10
<1>12. t \in [0 .. n -> S]
  <2> DEFINE P == {k \in 0 .. n : t[k] \in S}
  <2>1. 0 \in P
    BY <1>1, <1>2, <1>10
  <2>2. \A k \in 0 .. n - 1 : k \in P => k + 1 \in P
    <3> TAKE k \in 0 .. n - 1
    <3>1. k + 1 \in 1 .. n /\ k + 1 \in 0 .. n
      BY <1>1
    <3> QED
      BY <3>1, <1>4, <1>11
  <2>3. \A k \in 0 .. n : k \in P
    <3> HIDE DEF P
    <3> QED
      BY <1>1, <2>1, <2>2, UpTo
  <2>4. t = [k \in 0 .. n |-> t[k]]
    BY <1>8 DEF TreeRuns, n
  <2> QED
    BY <2>3, <2>4
<1>13. t[0] = b
  BY <1>1, <1>10
<1>14. Relaxes(t, g, topo, source, last, cost)
  BY <1>9, <1>11, <1>13 DEF Relaxes, n, order, b
<1> QED
  BY <1>12, <1>14 DEF n, order, S

(* With cheaper edges every node is at least as close. *)
Closer(g, a, b) ==
    \A v \in NodeSet(g) : b.dist[v] # Infinity => a.dist[v] # Infinity /\ a.dist[v] =< b.dist[v]

LEMMA RelaxKeepsCloser ==
    ASSUME NEW g, NEW a \in Trees(g), NEW b \in Trees(g), Closer(g, a, b),
           NEW e, e.src \in NodeSet(g), e.tgt \in NodeSet(g), NEW c \in Nat, NEW d \in Nat, c =< d
    PROVE  Closer(g, RelaxEdge(a, e, c), RelaxEdge(b, e, d))
<1> DEFINE x == RelaxEdge(a, e, c)
           y == RelaxEdge(b, e, d)
           u == e.src
           w == e.tgt
           p == a.dist[u] + c
           q == b.dist[u] + d
<1>1. /\ x \in Trees(g)
      /\ \A v \in NodeSet(g) : v # w => x.dist[v] = a.dist[v]
      /\ \/ /\ a.dist[u] # Infinity /\ p \in Nat
            /\ a.dist[w] = Infinity \/ a.dist[w] > p
            /\ x.dist[w] = p
         \/ /\ \/ a.dist[u] = Infinity
               \/ a.dist[u] # Infinity /\ a.dist[w] # Infinity /\ a.dist[w] =< p
            /\ x = a
  BY RelaxEdgeIs DEF EdgeRelaxed
<1>2. /\ y \in Trees(g)
      /\ \A v \in NodeSet(g) : v # w => y.dist[v] = b.dist[v]
      /\ \/ /\ b.dist[u] # Infinity /\ q \in Nat
            /\ b.dist[w] = Infinity \/ b.dist[w] > q
            /\ y.dist[w] = q
         \/ /\ \/ b.dist[u] = Infinity
               \/ b.dist[u] # Infinity /\ b.dist[w] # Infinity /\ b.dist[w] =< q
            /\ y = b
  BY RelaxEdgeIs DEF EdgeRelaxed
<1>3. \A v \in NodeSet(g) : /\ a.dist[v] # Infinity => a.dist[v] \in Nat
                            /\ b.dist[v] # Infinity => b.dist[v] \in Nat
                            /\ x.dist[v] # Infinity => x.dist[v] \in Nat
  BY <1>1 DEF Trees, Distances
<1>4. b.dist[u] # Infinity => a.dist[u] # Infinity /\ p =< q
  <2> SUFFICES ASSUME b.dist[u] # Infinity PROVE a.dist[u] # Infinity /\ p =< q
    OBVIOUS
  <2>1. a.dist[u] # Infinity /\ a.dist[u] =< b.dist[u]
    BY DEF Closer
  <2>2. a.dist[u] \in Nat /\ b.dist[u] \in Nat
    BY <2>1, <1>3
  <2> QED
    BY <2>1, <2>2
<1> HIDE DEF x, y, u, w, p, q
<1>5. w \in NodeSet(g) /\ u \in NodeSet(g)
  BY DEF w, u
<1>6. b.dist[w] # Infinity => a.dist[w] # Infinity /\ a.dist[w] =< b.dist[w]
  BY <1>5 DEF Closer
<1>7. Infinity \notin Nat
  BY InfinityAssumption
<1>8. y.dist[w] # Infinity => x.dist[w] # Infinity /\ x.dist[w] =< y.dist[w]
  <2> SUFFICES ASSUME y.dist[w] # Infinity PROVE x.dist[w] # Infinity /\ x.dist[w] =< y.dist[w]
    OBVIOUS
  <2>1. b.dist[u] # Infinity => x.dist[w] # Infinity /\ x.dist[w] \in Nat /\ x.dist[w] =< q /\ p \in Int /\ q \in Int
    <3> SUFFICES ASSUME b.dist[u] # Infinity
                 PROVE  x.dist[w] # Infinity /\ x.dist[w] \in Nat /\ x.dist[w] =< q /\ p \in Int /\ q \in Int
      OBVIOUS
    <3>1. p =< q /\ p \in Nat /\ q \in Nat
      BY <1>3, <1>4, <1>5 DEF p, q
    <3>2. x.dist[w] # Infinity /\ x.dist[w] =< p
      BY <1>1, <1>4, <1>7, <3>1
    <3>3. x.dist[w] \in Nat
      BY <1>3, <1>5, <3>2
    <3> QED
      BY <3>1, <3>2, <3>3
  <2>2. b.dist[w] # Infinity => x.dist[w] # Infinity /\ x.dist[w] =< b.dist[w]
    <3> SUFFICES ASSUME b.dist[w] # Infinity
                 PROVE  x.dist[w] # Infinity /\ x.dist[w] =< b.dist[w]
      OBVIOUS
    <3>1. a.dist[w] \in Nat /\ b.dist[w] \in Nat /\ a.dist[w] =< b.dist[w] /\ a.dist[w] # Infinity
      BY <1>3, <1>5, <1>6
    <3> QED
      BY <1>1, <1>7, <3>1
  <2> QED
    BY <1>2, <2>1, <2>2
<1>9. \A v \in NodeSet(g) : v # w => (y.dist[v] # Infinity => x.dist[v] # Infinity /\ x.dist[v] =< y.dist[v])
  BY <1>1, <1>2 DEF Closer
<1>10. Closer(g, x, y)
  BY <1>5, <1>8, <1>9 DEF Closer
<1> QED
  BY <1>10 DEF x, y

LEMMA CheaperEdges ==
    ASSUME NEW g, IsGraph(g), NEW source, NEW topo, NEW last,
           Schedule(g, topo, source, last) \in Seq(DOMAIN g.edges),
           NEW less \in [DOMAIN g.edges -> Nat], NEW more \in [DOMAIN g.edges -> Nat],
           \A i \in DOMAIN g.edges : less[i] =< more[i]
    PROVE  Closer(g, Relax(g, topo, source, last, less), Relax(g, topo, source, last, more))
<1> DEFINE order == Schedule(g, topo, source, last)
           n == Len(order)
<1>1. PICK a \in [0 .. n -> Trees(g)] : Relaxes(a, g, topo, source, last, less)
  BY RelaxRun
<1>2. PICK b \in [0 .. n -> Trees(g)] : Relaxes(b, g, topo, source, last, more)
  BY RelaxRun
<1>3. n \in Nat /\ 0 \in Nat /\ \A k \in 1 .. n : order[k] \in DOMAIN g.edges
  BY EntriesOf
<1>7. /\ a[0] = Root(g, source) /\ a[n] = Relax(g, topo, source, last, less)
      /\ \A k \in 0 .. n - 1 : a[k + 1] = RelaxEdge(a[k], g.edges[order[k + 1]], less[order[k + 1]])
  BY <1>1 DEF Relaxes
<1>8. /\ b[0] = Root(g, source) /\ b[n] = Relax(g, topo, source, last, more)
      /\ \A k \in 0 .. n - 1 : b[k + 1] = RelaxEdge(b[k], g.edges[order[k + 1]], more[order[k + 1]])
  BY <1>2 DEF Relaxes
<1> HIDE DEF order, n
<1> DEFINE P == {k \in 0 .. n : Closer(g, a[k], b[k])}
<1>4. 0 \in P
  <2>1. \A v \in NodeSet(g) : Root(g, source).dist[v] # Infinity => Root(g, source).dist[v] =< Root(g, source).dist[v]
    BY DEF Root
  <2> QED
    BY <1>3, <1>7, <1>8, <2>1 DEF Closer
<1>5. \A k \in 0 .. n - 1 : k \in P => k + 1 \in P
  <2> TAKE k \in 0 .. n - 1
  <2> HAVE k \in P
  <2> DEFINE e == g.edges[order[k + 1]]
             c == less[order[k + 1]]
             d == more[order[k + 1]]
  <2>1. k \in 0 .. n /\ k + 1 \in 0 .. n /\ k + 1 \in 1 .. n
    BY <1>3
  <2>2. e.src \in NodeSet(g) /\ e.tgt \in NodeSet(g) /\ c \in Nat /\ d \in Nat /\ c =< d
    BY <1>3, <2>1 DEF IsGraph
  <2>3. a[k + 1] = RelaxEdge(a[k], e, c) /\ b[k + 1] = RelaxEdge(b[k], e, d)
    BY <1>7, <1>8
  <2>4. a[k] \in Trees(g) /\ b[k] \in Trees(g) /\ Closer(g, a[k], b[k])
    BY <2>1
  <2> HIDE DEF e, c, d
  <2>5. Closer(g, RelaxEdge(a[k], e, c), RelaxEdge(b[k], e, d))
    BY <2>2, <2>4, RelaxKeepsCloser
  <2> QED
    BY <2>1, <2>3, <2>5
<1>6. \A k \in 0 .. n : k \in P
  <2> HIDE DEF P
  <2> QED
    BY <1>3, <1>4, <1>5, UpTo
<1> QED
  BY <1>3, <1>6, <1>7, <1>8

(* The edges of a course have their ends among the nodes that have a difficulty. *)
LEMMA EdgeFacts ==
    ASSUME CourseOK, NEW g, OfCourse(g), IsGraph(g)
    PROVE  /\ NodeSet(g) \subseteq Places /\ 0 \notin NodeSet(g)
           /\ \A i \in DOMAIN g.edges : /\ g.edges[i].src \in NodeSet(g) /\ g.edges[i].tgt \in NodeSet(g)
                                        /\ g.edges[i].src \in DOMAIN Difficulty
                                        /\ g.edges[i].tgt \in DOMAIN Difficulty
                                        /\ g.edges[i].weight \in Nat
<1>1. g.nodes \in Seq(Places) /\ g.edges \in Seq(ToSet(course.edges))
  BY DEF OfCourse
<1>2. NodeSet(g) \subseteq Places
  BY <1>1, EntriesOf DEF NodeSet
<1>3. \A i \in DOMAIN g.edges : g.edges[i] \in ToSet(course.edges)
  BY <1>1
<1> QED
  BY <1>2, <1>3, CourseFacts DEF IsGraph

(* What a learner costs each edge. *)
Costs(g, profile) == [i \in DOMAIN g.edges |-> EdgeCost(g.edges[i], MasteryMap(g, profile))]

LEMMA MoreMasteryCostsLess ==
    ASSUME CourseOK, NEW g, OfCourse(g), IsGraph(g),
           NEW D, NEW low \in [D -> Masteries], NEW high \in [D -> Masteries], \A v \in D : low[v] =< high[v]
    PROVE  /\ Costs(g, low) \in [DOMAIN g.edges -> Nat] /\ Costs(g, high) \in [DOMAIN g.edges -> Nat]
           /\ \A i \in DOMAIN g.edges : Costs(g, high)[i] =< Costs(g, low)[i]
<1> DEFINE l == MasteryMap(g, low)
           h == MasteryMap(g, high)
<1>1. \A v \in NodeSet(g) : l[v] \in Masteries /\ h[v] \in Masteries /\ l[v] =< h[v]
  <2> TAKE v \in NodeSet(g)
  <2>1. CASE v \in D
    BY <2>1 DEF MasteryMap
  <2>2. CASE v \notin D
    BY <2>2 DEF MasteryMap, Masteries
  <2> QED
    BY <2>1, <2>2
<1> HIDE DEF l, h
<1>2. \A i \in DOMAIN g.edges : /\ EdgeCost(g.edges[i], h) \in Nat /\ EdgeCost(g.edges[i], l) \in Nat
                                /\ EdgeCost(g.edges[i], h) =< EdgeCost(g.edges[i], l)
  <2> TAKE i \in DOMAIN g.edges
  <2> DEFINE e == g.edges[i]
  <2>1. e.src \in NodeSet(g) /\ e.tgt \in DOMAIN Difficulty /\ e.weight \in Nat
    BY EdgeFacts
  <2> HIDE DEF e
  <2>2. l[e.src] \in Masteries /\ h[e.src] \in Masteries /\ l[e.src] =< h[e.src]
    BY <1>1, <2>1
  <2>3. EdgeCost(e, h) \in Nat /\ EdgeCost(e, l) \in Nat /\ EdgeCost(e, h) =< EdgeCost(e, l)
    BY <2>1, <2>2, MasteryLowersCost
  <2> QED
    BY <2>3 DEF e
<1> QED
  BY <1>2 DEF Costs, l, h

(* What a planned journey between two nodes of a graph rests on. *)
LEMMA JourneyFacts ==
    ASSUME NEW g, IsGraph(g), NEW topo, topo = ComputeTopologicalOrder(g), topo # Failed,
           NEW source, NEW target, Rank(topo, source) # 0, Rank(topo, target) # 0,
           ~(Rank(topo, source) >= Rank(topo, target))
    PROVE  /\ IsOrder(g, topo) /\ source \in NodeSet(g) /\ target \in NodeSet(g)
           /\ Rank(topo, target) \in 1 .. Len(topo) /\ Rank(topo, source) =< Rank(topo, target)
           /\ Schedule(g, topo, source, Rank(topo, target)) \in Seq(DOMAIN g.edges)
<1>1. IsOrder(g, topo)
  BY KahnOrders
<1>2. source \in NodeSet(g) /\ target \in NodeSet(g)
  BY <1>1, RankIs
<1>3. Rank(topo, source) \in 1 .. Len(topo) /\ Rank(topo, target) \in 1 .. Len(topo)
  BY <1>1, <1>2, RankIs
<1>4. Rank(topo, source) =< Rank(topo, target)
  BY <1>3
<1> QED
  BY <1>1, <1>2, <1>3, <1>4, ScheduleIs

Journey(g, source, target, profile) ==
    Solve(g, ComputeTopologicalOrder(g), source, target, MasteryMap(g, profile))

LEMMA JourneyGetsCheaper ==
    ASSUME CourseOK, NEW g, OfCourse(g), IsGraph(g), NEW source, NEW target,
           NEW D, NEW low \in [D -> Masteries], NEW high \in [D -> Masteries], \A v \in D : low[v] =< high[v],
           Journey(g, source, target, low).cost # Infinity
    PROVE  /\ Journey(g, source, target, high).cost # Infinity
           /\ Journey(g, source, target, high).cost =< Journey(g, source, target, low).cost
<1> DEFINE topo == ComputeTopologicalOrder(g)
           last == Rank(topo, target)
           a == Relax(g, topo, source, last, Costs(g, high))
           b == Relax(g, topo, source, last, Costs(g, low))
           Blocked == topo = Failed \/ Rank(topo, source) = 0 \/ last = 0 \/ Rank(topo, source) >= last
<1>1. Journey(g, source, target, high).cost = IF Blocked \/ a.dist[target] = Infinity THEN Infinity ELSE a.dist[target]
  BY DEF Journey, Solve, Costs
<1>2. Journey(g, source, target, low).cost = IF Blocked \/ b.dist[target] = Infinity THEN Infinity ELSE b.dist[target]
  BY DEF Journey, Solve, Costs
<1> HIDE DEF a, b, topo
<1>3. ~Blocked /\ b.dist[target] # Infinity
  BY <1>2
<1>4. target \in NodeSet(g) /\ Schedule(g, topo, source, last) \in Seq(DOMAIN g.edges)
  BY <1>3, JourneyFacts DEF topo
<1>5. Closer(g, a, b)
  BY <1>4, MoreMasteryCostsLess, CheaperEdges DEF a, b
<1>6. a.dist[target] # Infinity /\ a.dist[target] =< b.dist[target]
  BY <1>3, <1>4, <1>5 DEF Closer
<1> QED
  BY <1>1, <1>2, <1>3, <1>6

(* A plan is the journey of the graph and the mastery it was made from, *)
(* and no mastery has gone down since.                                  *)
PlanKept ==
    plan # Unplanned =>
        /\ OfCourse(plan.graph) /\ IsGraph(plan.graph)
        /\ plan.mastery \in [DOMAIN mastery -> Masteries]
        /\ plan.cost = Journey(plan.graph, plan.asked[1], plan.asked[2], plan.mastery).cost

LEMMA PlanMade ==
    ASSUME CourseKept, NEW current, NEW target, NEW hours, RunPlanner(current, target, hours)
    PROVE  /\ OfCourse(plan'.graph) /\ IsGraph(plan'.graph)
           /\ plan'.mastery = mastery /\ mastery' = mastery /\ course' = course
           /\ plan'.asked[1] = current /\ plan'.asked[2] = target
           /\ plan'.cost = Journey(plan'.graph, current, target, mastery).cost
<1> DEFINE g == Export(remote)
           learner == [Unplanned.learner EXCEPT !.current = current, !.target = target]
           l == Plan(g, learner, mastery, 50, hours)
           c == Journey(g, current, target, mastery).cost
<1>1. plan' = [learner |-> l, graph |-> g, mastery |-> mastery, asked |-> <<current, target, hours>>, cost |-> c]
      /\ mastery' = mastery /\ course' = course
  BY DEF RunPlanner, Journey
<1>2. OfCourse(g) /\ IsGraph(g)
  BY ExportedGraph DEF CourseKept
<1> HIDE DEF g, l, c
<1>3. /\ plan'.graph = g /\ plan'.mastery = mastery /\ plan'.asked = <<current, target, hours>> /\ plan'.cost = c
  BY <1>1
<1> QED
  BY <1>1, <1>2, <1>3 DEF c

LEMMA PlanSteps ==
    ASSUME [Next]_vars
    PROVE  \/ UNCHANGED <<plan, mastery>>
           \/ \E current, target, hours : RunPlanner(current, target, hours)
           \/ \E v \in DOMAIN mastery : Learn(v)
<1>1. CASE UNCHANGED vars
  BY <1>1 DEF vars
<1>2. ASSUME StartManager \/ StopManager \/ SeedCourse \/ RemoteFlips \/ CreatePathPlanner
      PROVE  UNCHANGED <<plan, mastery>>
  BY <1>2 DEF StartManager, StopManager, SeedCourse, RemoteFlips, CreatePathPlanner
<1>3. ASSUME NEW strategy, Build(strategy)
      PROVE  UNCHANGED <<plan, mastery>>
  BY <1>3 DEF Build
<1>4. ASSUME NEW e, AddEdge(e)
      PROVE  UNCHANGED <<plan, mastery>>
  BY <1>4 DEF AddEdge
<1>5. ASSUME NEW asked, FindPath(asked)
      PROVE  UNCHANGED <<plan, mastery>>
  BY <1>5 DEF FindPath
<1> QED
  BY <1>1, <1>2, <1>3, <1>4, <1>5 DEF Next

LEMMA PlanKeptNext == CourseKept /\ PlanKept /\ [Next]_vars => PlanKept'
<1> SUFFICES ASSUME CourseKept, PlanKept, [Next]_vars PROVE PlanKept'
  OBVIOUS
<1>1. mastery \in [DOMAIN mastery -> Masteries]
  BY DEF CourseKept
<1>2. course' = course
  BY CourseStays
<1>3. CASE UNCHANGED <<plan, mastery>>
  BY <1>2, <1>3 DEF PlanKept, OfCourse, Places
<1>4. ASSUME NEW current, NEW target, NEW hours, RunPlanner(current, target, hours)
      PROVE  PlanKept'
  <2>1. /\ OfCourse(plan'.graph) /\ IsGraph(plan'.graph)
        /\ plan'.mastery = mastery /\ mastery' = mastery
        /\ plan'.asked[1] = current /\ plan'.asked[2] = target
        /\ plan'.cost = Journey(plan'.graph, current, target, mastery).cost
    BY <1>4, PlanMade
  <2>2. OfCourse(plan.graph)'
    BY <1>2, <2>1 DEF OfCourse, Places
  <2> QED
    BY <1>1, <2>1, <2>2 DEF PlanKept
<1>5. ASSUME NEW v \in DOMAIN mastery, Learn(v)
      PROVE  PlanKept'
  <2>1. PICK grade \in course.grades : mastery' = [mastery EXCEPT ![v] = grade]
    BY <1>5 DEF Learn
  <2>2. plan' = plan /\ DOMAIN mastery' = DOMAIN mastery
    BY <1>5, <2>1 DEF Learn
  <2> QED
    BY <1>2, <2>2 DEF PlanKept, OfCourse, Places
<1> QED
  BY <1>3, <1>4, <1>5, PlanSteps

LEMMA PlansAreKept == Spec => [](CourseKept /\ PlanKept)
<1>1. Init => PlanKept
  BY DEF Init, PlanKept
<1> QED
  BY <1>1, CourseKeptInit, CourseKeptNext, PlanKeptNext, PTL DEF Spec

(* Having learnt more never makes the same journey through the same graph *)
(* dearer, nor does it lose it.                                           *)
THEOREM LearningNeverCosts == Spec => MasteryNeverRaisesCost
<1>1. CourseKept /\ PlanKept /\ [Next]_vars =>
          [/\ plan # Unplanned /\ plan' # plan
           /\ plan.asked = plan'.asked /\ plan.graph = plan'.graph /\ plan.cost # Infinity
           /\ \A v \in DOMAIN plan.mastery : plan.mastery[v] =< plan'.mastery[v]
           => plan'.cost # Infinity /\ plan'.cost =< plan.cost]_vars
  <2> SUFFICES ASSUME CourseKept, PlanKept, [Next]_vars, plan # Unplanned, plan' # plan,
                      plan.asked = plan'.asked, plan.graph = plan'.graph, plan.cost # Infinity,
                      \A v \in DOMAIN plan.mastery : plan.mastery[v] =< plan'.mastery[v]
               PROVE  plan'.cost # Infinity /\ plan'.cost =< plan.cost
    OBVIOUS
  <2>1. PICK current, target, hours : RunPlanner(current, target, hours)
    BY PlanSteps DEF Learn
  <2> DEFINE g == plan.graph
  <2>2. /\ OfCourse(g) /\ IsGraph(g)
        /\ plan.mastery \in [DOMAIN mastery -> Masteries] /\ mastery \in [DOMAIN mastery -> Masteries]
        /\ plan.cost = Journey(g, plan.asked[1], plan.asked[2], plan.mastery).cost
    BY DEF PlanKept, CourseKept
  <2>3. plan'.cost = Journey(g, plan.asked[1], plan.asked[2], mastery).cost
    BY <2>1, PlanMade
  <2> DEFINE D == DOMAIN mastery
             low == plan.mastery
             u == plan.asked[1]
             v == plan.asked[2]
  <2>4. CourseOK /\ low \in [D -> Masteries] /\ mastery \in [D -> Masteries]
        /\ \A w \in D : low[w] =< mastery[w]
    <3>1. plan'.mastery = mastery /\ DOMAIN plan.mastery = D
      BY <2>1, <2>2, PlanMade
    <3> QED
      BY <2>2, <3>1 DEF CourseKept
  <2>5. Journey(g, u, v, low).cost # Infinity /\ plan.cost = Journey(g, u, v, low).cost
    BY <2>2
  <2> HIDE DEF D, low, u, v, g
  <2>6. /\ Journey(g, u, v, mastery).cost # Infinity
        /\ Journey(g, u, v, mastery).cost =< Journey(g, u, v, low).cost
    BY <2>2, <2>4, <2>5, JourneyGetsCheaper DEF g
  <2> QED
    BY <2>3, <2>5, <2>6 DEF u, v, g
<1> QED
  BY <1>1, PlansAreKept, PTL DEF Spec, MasteryNeverRaisesCost

-----------------------------------------------------------------------------
(* Relaxation finds the distances. *)

(* The tree after k relaxations: a node that is reached was reached over one *)
(* of those edges, and none of those edges improves the tree any more.       *)
Reached(g, source, order, cost, k, tree) ==
    \A v \in NodeSet(g) : v # source /\ tree.dist[v] # Infinity =>
        \E l \in 1 .. k : /\ g.edges[order[l]].tgt = v /\ g.edges[order[l]].src = tree.pred[v]
                          /\ tree.dist[tree.pred[v]] # Infinity
                          /\ tree.dist[v] = tree.dist[tree.pred[v]] + cost[order[l]]

Settled(tree, e, c) ==
    tree.dist[e.src] # Infinity => tree.dist[e.tgt] # Infinity /\ tree.dist[e.tgt] =< tree.dist[e.src] + c

TreeInv(g, source, order, cost, k, tree) ==
    /\ tree.dist[source] = 0 /\ tree.pred[source] = 0
    /\ Reached(g, source, order, cost, k, tree)
    /\ \A l \in 1 .. k : Settled(tree, g.edges[order[l]], cost[order[l]])

LEMMA TreeSteps ==
    ASSUME NEW g, IsGraph(g), NEW source \in NodeSet(g), NEW order \in Seq(DOMAIN g.edges),
           NEW cost \in [DOMAIN g.edges -> Nat], NEW k \in 0 .. Len(order) - 1, NEW tree \in Trees(g),
           TreeInv(g, source, order, cost, k, tree),
           g.edges[order[k + 1]].tgt # source,
           \A l \in 1 .. k + 1 : g.edges[order[l]].src # g.edges[order[k + 1]].tgt
    PROVE  TreeInv(g, source, order, cost, k + 1, RelaxEdge(tree, g.edges[order[k + 1]], cost[order[k + 1]]))
<1> DEFINE e == g.edges[order[k + 1]]
           c == cost[order[k + 1]]
           u == e.src
           w == e.tgt
           after == RelaxEdge(tree, e, c)
           via == tree.dist[u] + c
           V == NodeSet(g)
<1>1. /\ Len(order) \in Nat /\ k + 1 \in 1 .. k + 1 /\ \A l \in 1 .. k + 1 : order[l] \in DOMAIN g.edges
      /\ \A l \in 1 .. k : l \in 1 .. k + 1
      /\ \A l \in 1 .. k + 1 : l \in 1 .. k \/ l = k + 1
  <2>1. Len(order) \in Nat
    BY EntriesOf
  <2>2. \A l \in 1 .. k + 1 : l \in 1 .. Len(order)
    BY <2>1
  <2> QED
    BY <2>1, <2>2
<1>2. \A l \in 1 .. k + 1 : g.edges[order[l]].src \in V /\ g.edges[order[l]].tgt \in V /\ cost[order[l]] \in Nat
  BY <1>1 DEF IsGraph
<1>3. u \in V /\ w \in V /\ c \in Nat /\ w # source /\ u # w
  BY <1>1, <1>2
<1>4. /\ after \in Trees(g)
      /\ \A v \in V : v # w => after.dist[v] = tree.dist[v] /\ after.pred[v] = tree.pred[v]
      /\ \/ /\ tree.dist[u] # Infinity /\ via \in Nat
            /\ tree.dist[w] = Infinity \/ tree.dist[w] > via
            /\ after.dist[w] = via /\ after.pred[w] = u
         \/ /\ \/ tree.dist[u] = Infinity
               \/ tree.dist[u] # Infinity /\ tree.dist[w] # Infinity /\ tree.dist[w] =< via
            /\ after = tree
  <2>1. e.src \in NodeSet(g) /\ e.tgt \in NodeSet(g) /\ c \in Nat
    BY <1>3
  <2> HIDE DEF e, c
  <2>2. EdgeRelaxed(g, tree, e, c, after) /\ after \in Trees(g)
    BY <2>1, RelaxEdgeIs
  <2> QED
    BY <2>2 DEF EdgeRelaxed
<1>5. Infinity \notin Nat /\ \A v \in V : /\ tree.dist[v] # Infinity => tree.dist[v] \in Nat
                                          /\ tree.pred[v] \in V \union {0}
  BY InfinityAssumption DEF Trees, Distances
<1>6. \A l \in 1 .. k + 1 : g.edges[order[l]].src # w
  OBVIOUS
<1>7. k + 1 \in Nat /\ order[k + 1] \in DOMAIN g.edges
  BY <1>1
<1>8. after.dist[source] = 0 /\ after.pred[source] = 0
  BY <1>3, <1>4 DEF TreeInv
<1>9. Reached(g, source, order, cost, k + 1, after)
  <2> SUFFICES ASSUME NEW v \in V, v # source, after.dist[v] # Infinity
               PROVE  \E l \in 1 .. k + 1 : /\ g.edges[order[l]].tgt = v /\ g.edges[order[l]].src = after.pred[v]
                                            /\ after.dist[after.pred[v]] # Infinity
                                            /\ after.dist[v] = after.dist[after.pred[v]] + cost[order[l]]
    BY DEF Reached
  <2> HIDE DEF after
  <2>1. CASE v = w /\ after.dist[w] = via /\ after.pred[w] = u /\ tree.dist[u] # Infinity
    <3>1. after.dist[u] = tree.dist[u]
      BY <1>3, <1>4
    <3> QED
      BY <1>1, <2>1, <3>1
  <2>2. CASE after = tree \/ v # w
    <3>1. after.dist[v] = tree.dist[v] /\ after.pred[v] = tree.pred[v]
      BY <1>4, <2>2
    <3>2. PICK l \in 1 .. k : /\ g.edges[order[l]].tgt = v /\ g.edges[order[l]].src = tree.pred[v]
                              /\ tree.dist[tree.pred[v]] # Infinity
                              /\ tree.dist[v] = tree.dist[tree.pred[v]] + cost[order[l]]
      BY <3>1 DEF TreeInv, Reached
    <3>3. l \in 1 .. k + 1 /\ tree.pred[v] \in V /\ tree.pred[v] # w
      BY <1>1, <1>2, <1>6, <3>2
    <3>4. after.dist[tree.pred[v]] = tree.dist[tree.pred[v]]
      BY <1>4, <3>3
    <3> QED
      BY <3>1, <3>2, <3>3, <3>4
  <2> QED
    BY <1>4, <2>1, <2>2 DEF after
<1>10. ASSUME NEW l \in 1 .. k + 1
       PROVE  Settled(after, g.edges[order[l]], cost[order[l]])
  <2> DEFINE x == g.edges[order[l]].src
             y == g.edges[order[l]].tgt
             d == cost[order[l]]
  <2>1. x \in V /\ y \in V /\ d \in Nat /\ x # w
    BY <1>2, <1>6
  <2>2. after.dist[x] = tree.dist[x]
    BY <1>4, <2>1
  <2> HIDE DEF after
  <2>3. SUFFICES ASSUME after.dist[x] # Infinity
                 PROVE  after.dist[y] # Infinity /\ after.dist[y] =< after.dist[x] + d
    BY DEF Settled
  <2>4. tree.dist[x] \in Nat /\ tree.dist[x] # Infinity
    BY <1>5, <2>1, <2>2, <2>3
  <2>5. CASE l = k + 1
    <3>1. x = u /\ y = w /\ d = c
      BY <2>5
    <3>2. tree.dist[u] # Infinity /\ after.dist[u] = tree.dist[u]
      BY <2>2, <2>4, <3>1
    <3>3. via \in Nat
      <4>1. tree.dist[u] \in Nat /\ c \in Nat
        BY <2>1, <2>4, <3>1
      <4> HIDE DEF u, c
      <4> QED
        BY <4>1
    <3> HIDE DEF via
    <3>5. Infinity \notin Nat
      BY <1>5
    <3> HIDE DEF u, w
    <3>4. after.dist[w] # Infinity /\ after.dist[w] =< via
      BY <1>4, <3>2, <3>3, <3>5
    <3> QED
      BY <3>1, <3>2, <3>4 DEF via
  <2>6. CASE l \in 1 .. k
    <3>1. tree.dist[y] # Infinity /\ tree.dist[y] =< tree.dist[x] + d
      BY <2>4, <2>6 DEF TreeInv, Settled
    <3>2. tree.dist[y] \in Nat
      BY <1>5, <2>1, <3>1
    <3>3. after.dist[y] # Infinity /\ after.dist[y] =< tree.dist[y]
      <4>1. CASE y # w \/ after = tree
        <5>1. after.dist[y] = tree.dist[y]
          BY <1>4, <2>1, <4>1
        <5> HIDE DEF y
        <5> QED
          BY <3>1, <3>2, <5>1
      <4>2. CASE y = w /\ after.dist[w] = via /\ via \in Nat
                 /\ (tree.dist[w] = Infinity \/ tree.dist[w] > via)
        <5> DEFINE old == tree.dist[y]
                   new == after.dist[y]
        <5>1. new = via /\ via \in Nat /\ old \in Nat /\ old > via /\ new # Infinity
          <6> HIDE DEF via, y, w
          <6> QED
            BY <1>5, <3>1, <3>2, <4>2
        <5> HIDE DEF old, new, via
        <5>2. new # Infinity /\ new =< old
          BY <5>1
        <5> QED
          BY <5>2 DEF old, new
      <4> QED
        BY <1>4, <4>1, <4>2
    <3>4. after.dist[y] \in Nat
      <4>1. after.dist \in [NodeSet(g) -> Distances]
        BY <1>4 DEF Trees
      <4>2. after.dist[y] \in Distances
        BY <2>1, <4>1
      <4> QED
        BY <3>3, <4>2 DEF Distances
    <3> DEFINE a == after.dist[y]
               b == tree.dist[y]
               f == tree.dist[x]
    <3>5. a \in Nat /\ b \in Nat /\ f \in Nat /\ d \in Nat /\ a =< b /\ b =< f + d
      BY <2>1, <2>4, <3>1, <3>2, <3>3, <3>4
    <3> HIDE DEF a, b, f, d
    <3>6. a =< f + d
      BY <3>5
    <3> QED
      BY <2>2, <3>3, <3>6 DEF a, f
  <2> QED
    BY <1>1, <2>5, <2>6
<1>11. TreeInv(g, source, order, cost, k + 1, after)
  BY <1>8, <1>9, <1>10 DEF TreeInv
<1> QED
  BY <1>11

(* The tree a relaxation ends with. *)
TreeSound(g, topo, source, last, cost, tree) ==
    /\ tree \in Trees(g) /\ tree.dist[source] = 0 /\ tree.pred[source] = 0
    /\ \A v \in NodeSet(g) : v # source /\ tree.dist[v] # Infinity =>
           /\ tree.pred[v] \in NodeSet(g) /\ tree.dist[tree.pred[v]] # Infinity
           /\ \E i \in Between(g.edges, tree.pred[v], v) : tree.dist[v] = tree.dist[tree.pred[v]] + cost[i]
    /\ \A i \in DOMAIN g.edges :
           Rank(topo, source) =< Rank(topo, g.edges[i].src) /\ Rank(topo, g.edges[i].tgt) =< last
               => Settled(tree, g.edges[i], cost[i])

LEMMA RelaxIsSound ==
    ASSUME NEW g, IsGraph(g), NEW topo, IsOrder(g, topo), NEW source \in NodeSet(g), 0 \notin NodeSet(g),
           NEW last \in 1 .. Len(topo), Rank(topo, source) =< last, NEW cost \in [DOMAIN g.edges -> Nat]
    PROVE  TreeSound(g, topo, source, last, cost, Relax(g, topo, source, last, cost))
<1> DEFINE order == Schedule(g, topo, source, last)
           n == Len(order)
           E == g.edges
<1>1. /\ order \in Seq(DOMAIN E)
      /\ \A k \in 1 .. n : Rank(topo, source) =< Rank(topo, E[order[k]].src)
      /\ \A i \in DOMAIN E : Rank(topo, source) =< Rank(topo, E[i].src) /\ Rank(topo, E[i].tgt) =< last
             => \E k \in 1 .. n : order[k] = i
      /\ \A k, l \in 1 .. n : k < l => Rank(topo, E[order[k]].src) =< Rank(topo, E[order[l]].src)
  BY ScheduleIs
<1>2. PICK t \in [0 .. n -> Trees(g)] : Relaxes(t, g, topo, source, last, cost)
  BY <1>1, RelaxRun
<1>3. /\ t[0] = Root(g, source) /\ t[n] = Relax(g, topo, source, last, cost)
      /\ \A k \in 0 .. n - 1 : t[k + 1] = RelaxEdge(t[k], E[order[k + 1]], cost[order[k + 1]])
  BY <1>2 DEF Relaxes
<1>4. n \in Nat /\ 0 \in Nat /\ \A k \in 1 .. n : order[k] \in DOMAIN E
  BY <1>1, EntriesOf
<1> HIDE DEF order, n, E
<1>5. \A k \in 1 .. n : /\ E[order[k]].src \in NodeSet(g) /\ E[order[k]].tgt \in NodeSet(g)
                        /\ Rank(topo, E[order[k]].src) < Rank(topo, E[order[k]].tgt)
                        /\ Rank(topo, E[order[k]].src) \in Nat /\ Rank(topo, E[order[k]].tgt) \in Nat
  <2> TAKE k \in 1 .. n
  <2>1. order[k] \in DOMAIN g.edges
    BY <1>4 DEF E
  <2>2. Rank(topo, g.edges[order[k]].src) < Rank(topo, g.edges[order[k]].tgt)
    BY <2>1, EdgesLeadForward
  <2>3. g.edges[order[k]].src \in NodeSet(g) /\ g.edges[order[k]].tgt \in NodeSet(g)
    BY <2>1 DEF IsGraph
  <2>4. \A v \in NodeSet(g) : Rank(topo, v) \in Nat
    BY RankIs
  <2> QED
    BY <2>2, <2>3, <2>4 DEF E
<1>6. Rank(topo, source) \in Nat
  BY RankIs
<1>7. \A k \in 1 .. n : /\ E[order[k]].tgt # source
                        /\ \A l \in 1 .. k : E[order[l]].src # E[order[k]].tgt
  <2> TAKE k \in 1 .. n
  <2>1. E[order[k]].tgt # source
    BY <1>1, <1>5, <1>6
  <2>2. ASSUME NEW l \in 1 .. k
        PROVE  E[order[l]].src # E[order[k]].tgt
    <3>1. l \in 1 .. n /\ (l = k \/ l < k)
      BY <1>4
    <3>2. Rank(topo, E[order[l]].src) =< Rank(topo, E[order[k]].src)
      BY <1>1, <1>5, <3>1
    <3> QED
      BY <1>5, <3>1, <3>2
  <2> QED
    BY <2>1, <2>2
<1> DEFINE P == {k \in 0 .. n : TreeInv(g, source, order, cost, k, t[k])}
<1>8. 0 \in P
  <2>1. TreeInv(g, source, order, cost, 0, Root(g, source))
    BY DEF TreeInv, Reached, Root
  <2> QED
    BY <1>3, <1>4, <2>1
<1>9. \A k \in 0 .. n - 1 : k \in P => k + 1 \in P
  <2> TAKE k \in 0 .. n - 1
  <2> HAVE k \in P
  <2>1. k \in 0 .. n /\ k + 1 \in 0 .. n /\ k + 1 \in 1 .. n
    BY <1>4
  <2>2. t[k] \in Trees(g) /\ TreeInv(g, source, order, cost, k, t[k]) /\ k \in 0 .. Len(order) - 1
    BY <2>1 DEF n
  <2>3. g.edges[order[k + 1]].tgt # source /\ \A l \in 1 .. k + 1 : g.edges[order[l]].src # g.edges[order[k + 1]].tgt
    BY <1>7, <2>1 DEF E
  <2>4. order \in Seq(DOMAIN g.edges)
    BY <1>1 DEF E
  <2>5. TreeInv(g, source, order, cost, k + 1, RelaxEdge(t[k], g.edges[order[k + 1]], cost[order[k + 1]]))
    BY <2>2, <2>3, <2>4, TreeSteps
  <2> QED
    BY <1>3, <2>1, <2>5 DEF E
<1>10. \A k \in 0 .. n : k \in P
  <2> HIDE DEF P
  <2> QED
    BY <1>4, <1>8, <1>9, UpTo
<1> DEFINE tree == Relax(g, topo, source, last, cost)
<1>11. tree \in Trees(g) /\ TreeInv(g, source, order, cost, n, tree)
  <2>1. n \in 0 .. n
    BY <1>4
  <2> QED
    BY <1>3, <1>10, <2>1
<1> HIDE DEF tree, P
<1>12. ASSUME NEW v \in NodeSet(g), v # source, tree.dist[v] # Infinity
       PROVE  /\ tree.pred[v] \in NodeSet(g) /\ tree.dist[tree.pred[v]] # Infinity
              /\ \E i \in Between(g.edges, tree.pred[v], v) : tree.dist[v] = tree.dist[tree.pred[v]] + cost[i]
  <2>1. PICK l \in 1 .. n : /\ E[order[l]].tgt = v /\ E[order[l]].src = tree.pred[v]
                            /\ tree.dist[tree.pred[v]] # Infinity
                            /\ tree.dist[v] = tree.dist[tree.pred[v]] + cost[order[l]]
    BY <1>11, <1>12 DEF TreeInv, Reached, E
  <2>2. order[l] \in Between(E, tree.pred[v], v)
    BY <1>4, <2>1 DEF Between, Pair
  <2> QED
    BY <1>5, <2>1, <2>2 DEF E
<1>13. ASSUME NEW i \in DOMAIN E, Rank(topo, source) =< Rank(topo, E[i].src), Rank(topo, E[i].tgt) =< last
       PROVE  Settled(tree, E[i], cost[i])
  <2>1. PICK k \in 1 .. n : order[k] = i
    BY <1>1, <1>13
  <2> QED
    BY <1>11, <2>1 DEF TreeInv, E
<1>14. TreeSound(g, topo, source, last, cost, tree)
  BY <1>11, <1>12, <1>13 DEF TreeSound, TreeInv, E
<1> QED
  BY <1>14 DEF tree

(* A walk climbs through the order. *)
Walk(edges, p) == \A k \in 1 .. Len(p) - 1 : p[k + 1] \in Targets(edges, {p[k]})

LEMMA StepsAreEdges ==
    ASSUME NEW edges, NEW u, NEW v
    PROVE  v \in Targets(edges, {u}) <=> Between(edges, u, v) # {}
  BY DEF Targets, Between, Pair

LEMMA WalkClimbs ==
    ASSUME NEW g, IsGraph(g), NEW topo, IsOrder(g, topo), NEW p \in Seq(NodeSet(g)), Walk(g.edges, p),
           NEW j \in 1 .. Len(p)
    PROVE  \A k \in j .. Len(p) : Rank(topo, p[j]) + (k - j) =< Rank(topo, p[k])
<1> DEFINE n == Len(p)
           P == {k \in j .. n : Rank(topo, p[j]) + (k - j) =< Rank(topo, p[k])}
<1>1. n \in Nat /\ \A k \in 1 .. n : p[k] \in NodeSet(g)
  BY EntriesOf
<1>2. \A k \in 1 .. n : Rank(topo, p[k]) \in Nat
  BY <1>1, RankIs
<1>3. j \in P /\ j \in Nat
  BY <1>1, <1>2
<1>4. \A k \in j .. n - 1 : k \in P => k + 1 \in P
  <2> TAKE k \in j .. n - 1
  <2> HAVE k \in P
  <2>1. k \in 1 .. n /\ k + 1 \in 1 .. n /\ k \in 1 .. Len(p) - 1 /\ k + 1 \in j .. n
    BY <1>1
  <2>2. PICK i \in Between(g.edges, p[k], p[k + 1]) : TRUE
    BY <2>1, StepsAreEdges DEF Walk
  <2>3. i \in DOMAIN g.edges /\ g.edges[i].src = p[k] /\ g.edges[i].tgt = p[k + 1]
    BY <2>2 DEF Between, Pair
  <2>4. Rank(topo, g.edges[i].src) < Rank(topo, g.edges[i].tgt)
    BY <2>3, EdgesLeadForward
  <2>5. Rank(topo, p[k]) < Rank(topo, p[k + 1])
    BY <2>3, <2>4
  <2> QED
    BY <1>2, <2>1, <2>5
<1>5. \A k \in j .. n : k \in P
  <2> HIDE DEF P
  <2> QED
    BY <1>1, <1>3, <1>4, UpTo
<1> QED
  BY <1>5

-----------------------------------------------------------------------------
(* Walks, and what they cost. *)

LEMMA StepCostIs ==
    ASSUME NEW edges, NEW cost \in [DOMAIN edges -> Nat], NEW u, NEW v, Between(edges, u, v) # {}
    PROVE  /\ StepCost(edges, u, v, cost) \in Nat
           /\ \E i \in Between(edges, u, v) : StepCost(edges, u, v, cost) = cost[i]
           /\ \A i \in Between(edges, u, v) : StepCost(edges, u, v, cost) =< cost[i]
<1> DEFINE costs == {cost[i] : i \in Between(edges, u, v)}
           c == StepCost(edges, u, v, cost)
<1>1. \A i \in Between(edges, u, v) : cost[i] \in Nat
  BY DEF Between
<1>2. costs \subseteq Nat /\ costs # {}
  BY <1>1
<1>3. c = CHOOSE x \in costs : \A d \in costs : x =< d
  BY DEF StepCost
<1> HIDE DEF costs, c
<1>4. \E x \in costs : \A d \in costs : x =< d
  BY <1>2, FirstOf
<1>5. c \in costs /\ \A d \in costs : c =< d
  BY <1>3, <1>4
<1> QED
  BY <1>2, <1>5 DEF costs, c

(* The cost of a walk adds up along it. *)
Sums(sum, edges, p, cost) ==
    /\ sum[1] = 0 /\ sum[Len(p)] = PathCost(edges, p, cost)
    /\ \A k \in 1 .. Len(p) - 1 : sum[k + 1] = sum[k] + StepCost(edges, p[k], p[k + 1], cost)

AddsUp(sum, edges, p, cost) ==
    sum = [k \in 1 .. Len(p) |->
              IF k = 1 THEN 0 ELSE sum[k - 1] + StepCost(edges, p[k - 1], p[k], cost)]

LEMMA PathSums ==
    ASSUME NEW S, NEW p \in Seq(S), p # <<>>, NEW edges, Walk(edges, p), NEW cost \in [DOMAIN edges -> Nat]
    PROVE  \E sum \in [1 .. Len(p) -> Nat] : Sums(sum, edges, p, cost)
<1> DEFINE n == Len(p)
           step == [x \in (1 .. n) \X Nat |->
                        IF x[1] = 1 THEN 0 ELSE x[2] + StepCost(edges, p[x[1] - 1], p[x[1]], cost)]
<1>1. n \in Nat /\ 1 =< n /\ 1 \in Nat /\ 0 \in Nat
  BY EntriesOf
<1>2. \A k \in 1 .. n : k # 1 => StepCost(edges, p[k - 1], p[k], cost) \in Nat
  <2> TAKE k \in 1 .. n
  <2> HAVE k # 1
  <2>1. k - 1 \in 1 .. Len(p) - 1 /\ (k - 1) + 1 = k
    BY <1>1
  <2>2. Between(edges, p[k - 1], p[k]) # {}
    BY <2>1, StepsAreEdges DEF Walk
  <2> QED
    BY <2>2, StepCostIs
<1>3. PathCost(edges, p, cost) = (CHOOSE sum : AddsUp(sum, edges, p, cost))[n]
  BY DEF PathCost, AddsUp
<1> HIDE DEF n
<1>4. step \in [(1 .. n) \X Nat -> Nat]
      /\ \A k \in 1 .. n : k # 1 => \A m \in Nat : step[<<k, m>>] = m + StepCost(edges, p[k - 1], p[k], cost)
  <2> DEFINE next(k, m) == IF k = 1 THEN 0 ELSE m + StepCost(edges, p[k - 1], p[k], cost)
  <2>1. \A k \in 1 .. n : \A m \in Nat : next(k, m) \in Nat
    <3> TAKE k \in 1 .. n
    <3> TAKE m \in Nat
    <3> DEFINE c == StepCost(edges, p[k - 1], p[k], cost)
    <3>1. k # 1 => c \in Nat
      BY <1>2
    <3>2. next(k, m) = IF k = 1 THEN 0 ELSE m + c
      OBVIOUS
    <3> HIDE DEF c, next
    <3> QED
      BY <3>1, <3>2
  <2>2. step = [x \in (1 .. n) \X Nat |-> next(x[1], x[2])]
    OBVIOUS
  <2>3. \A k \in 1 .. n : k # 1 => \A m \in Nat : next(k, m) = m + StepCost(edges, p[k - 1], p[k], cost)
    OBVIOUS
  <2> HIDE DEF step, next
  <2>4. step \in [(1 .. n) \X Nat -> Nat]
    BY <2>1, <2>2
  <2>5. \A k \in 1 .. n : \A m \in Nat : step[<<k, m>>] = next(k, m)
    BY <2>2
  <2> QED
    BY <2>3, <2>4, <2>5
<1> HIDE DEF step
<1>5. PICK f \in [1 .. n -> Nat] : Unrolls(f, 1, n, 0, step)
  BY <1>1, <1>4, Recursion
<1>6. AddsUp(f, edges, p, cost)
  <2>1. \A k \in 1 .. n : f[k] = IF k = 1 THEN 0 ELSE f[k - 1] + StepCost(edges, p[k - 1], p[k], cost)
    <3> TAKE k \in 1 .. n
    <3>1. f[k] = IF k = 1 THEN 0 ELSE step[<<k, f[k - 1]>>]
      BY <1>5 DEF Unrolls
    <3>2. k # 1 => f[k - 1] \in Nat
      BY <1>1, <1>5
    <3> QED
      BY <3>1, <3>2, <1>4
  <2>2. f = [k \in 1 .. n |-> f[k]]
    BY <1>5
  <2> QED
    BY <2>1, <2>2 DEF AddsUp, n
<1> DEFINE s == CHOOSE sum : AddsUp(sum, edges, p, cost)
<1>7. AddsUp(s, edges, p, cost)
  BY <1>6
<1>8. PathCost(edges, p, cost) = s[n]
  BY <1>3
<1> HIDE DEF s
<1>9. \A k \in 1 .. n : s[k] = IF k = 1 THEN 0 ELSE s[k - 1] + StepCost(edges, p[k - 1], p[k], cost)
  BY <1>7 DEF AddsUp, n
<1>10. \A k \in 1 .. n - 1 : s[k + 1] = s[k] + StepCost(edges, p[k], p[k + 1], cost)
                             /\ StepCost(edges, p[k], p[k + 1], cost) \in Nat
  <2> TAKE k \in 1 .. n - 1
  <2>1. k + 1 \in 1 .. n /\ k + 1 # 1 /\ (k + 1) - 1 = k
    BY <1>1
  <2> QED
    BY <2>1, <1>2, <1>9
<1>11. s \in [1 .. n -> Nat]
  <2> DEFINE P == {k \in 1 .. n : s[k] \in Nat}
  <2>1. 1 \in P
    BY <1>1, <1>9
  <2>2. \A k \in 1 .. n - 1 : k \in P => k + 1 \in P
    <3> TAKE k \in 1 .. n - 1
    <3>1. k + 1 \in 1 .. n
      BY <1>1
    <3> QED
      BY <3>1, <1>10
  <2>3. \A k \in 1 .. n : k \in P
    <3> HIDE DEF P
    <3> QED
      BY <1>1, <2>1, <2>2, UpTo
  <2>4. s = [k \in 1 .. n |-> s[k]]
    BY <1>7 DEF AddsUp, n
  <2> QED
    BY <2>3, <2>4
<1>12. s[1] = 0
  BY <1>1, <1>9
<1>13. Sums(s, edges, p, cost)
  BY <1>8, <1>10, <1>12 DEF Sums, n
<1> QED
  BY <1>11, <1>13 DEF n

(* Every node of a walk from the source is reached, at no more than what the *)
(* walk costs so far.                                                       *)
LEMMA WalksAreNotCheaper ==
    ASSUME NEW g, IsGraph(g), NEW topo, IsOrder(g, topo), NEW source \in NodeSet(g), NEW last \in Int,
           NEW cost \in [DOMAIN g.edges -> Nat], NEW tree, TreeSound(g, topo, source, last, cost, tree),
           NEW p \in Seq(NodeSet(g)), p # <<>>, p[1] = source, Walk(g.edges, p), Rank(topo, p[Len(p)]) =< last
    PROVE  tree.dist[p[Len(p)]] # Infinity /\ tree.dist[p[Len(p)]] =< PathCost(g.edges, p, cost)
<1> DEFINE n == Len(p)
<1>1. n \in Nat /\ 1 =< n /\ 1 \in Nat /\ \A k \in 1 .. n : p[k] \in NodeSet(g)
  BY EntriesOf
<1>2. PICK sum \in [1 .. n -> Nat] : Sums(sum, g.edges, p, cost)
  BY PathSums
<1>3. \A k \in 1 .. n : Rank(topo, p[k]) \in Nat
  BY <1>1, RankIs
<1>4. \A k \in 1 .. n : Rank(topo, source) =< Rank(topo, p[k]) /\ Rank(topo, p[k]) =< last
  <2> TAKE k \in 1 .. n
  <2>1. 1 \in 1 .. Len(p) /\ k \in 1 .. Len(p) /\ n \in k .. Len(p)
    BY <1>1
  <2>2. Rank(topo, p[1]) + (k - 1) =< Rank(topo, p[k])
    BY <2>1, WalkClimbs
  <2>3. Rank(topo, p[k]) + (n - k) =< Rank(topo, p[n])
    BY <2>1, WalkClimbs
  <2>4. Rank(topo, p[1]) \in Nat /\ Rank(topo, p[k]) \in Nat /\ Rank(topo, p[n]) \in Nat
    BY <1>1, <1>3
  <2> QED
    BY <1>1, <2>2, <2>3, <2>4
<1> DEFINE P == {k \in 1 .. n : tree.dist[p[k]] # Infinity /\ tree.dist[p[k]] =< sum[k]}
<1>5. \A v \in NodeSet(g) : tree.dist[v] # Infinity => tree.dist[v] \in Nat
  BY DEF TreeSound, Trees, Distances
<1>6. 1 \in P
  <2>1. tree.dist[p[1]] = 0 /\ sum[1] = 0 /\ Infinity # 0
    BY <1>2, InfinityAssumption DEF TreeSound, Sums
  <2> QED
    BY <1>1, <2>1
<1>7. \A k \in 1 .. n - 1 : k \in P => k + 1 \in P
  <2> TAKE k \in 1 .. n - 1
  <2> HAVE k \in P
  <2> DEFINE u == p[k]
             v == p[k + 1]
  <2>1. k \in 1 .. n /\ k + 1 \in 1 .. n /\ k \in 1 .. Len(p) - 1
    BY <1>1
  <2>2. Between(g.edges, u, v) # {}
    BY <2>1, StepsAreEdges DEF Walk
  <2>3. PICK i \in Between(g.edges, u, v) : StepCost(g.edges, u, v, cost) = cost[i]
    BY <2>2, StepCostIs
  <2>4. i \in DOMAIN g.edges /\ g.edges[i].src = u /\ g.edges[i].tgt = v /\ cost[i] \in Nat
    BY <2>3 DEF Between, Pair
  <2>5. Rank(topo, source) =< Rank(topo, u) /\ Rank(topo, v) =< last
    BY <1>4, <2>1
  <2>6. Settled(tree, g.edges[i], cost[i])
    BY <2>4, <2>5 DEF TreeSound
  <2>7. tree.dist[u] # Infinity /\ tree.dist[u] =< sum[k]
    OBVIOUS
  <2>8. tree.dist[v] # Infinity /\ tree.dist[v] =< tree.dist[u] + cost[i]
    BY <2>4, <2>6, <2>7 DEF Settled
  <2>9. sum[k + 1] = sum[k] + cost[i]
    BY <1>2, <2>1, <2>3 DEF Sums
  <2>10. tree.dist[u] \in Nat /\ tree.dist[v] \in Nat /\ sum[k] \in Nat /\ u \in NodeSet(g)
    BY <1>1, <1>5, <2>1, <2>7, <2>8
  <2>11. tree.dist[v] =< sum[k + 1]
    <3> DEFINE a == tree.dist[u]
               b == tree.dist[v]
               c == cost[i]
               x == sum[k]
    <3>1. a \in Nat /\ b \in Nat /\ c \in Nat /\ x \in Nat
      BY <2>4, <2>10
    <3>2. a =< x /\ b =< a + c /\ sum[k + 1] = x + c
      BY <2>7, <2>8, <2>9
    <3> HIDE DEF a, b, c, x, u, v
    <3>3. b =< x + c
      BY <3>1, <3>2
    <3> QED
      BY <3>2, <3>3 DEF b
  <2> QED
    BY <2>1, <2>8, <2>11
<1>8. \A k \in 1 .. n : k \in P
  <2> HIDE DEF P
  <2> QED
    BY <1>1, <1>6, <1>7, UpTo
<1>9. n \in 1 .. n /\ sum[n] = PathCost(g.edges, p, cost)
  BY <1>1, <1>2 DEF Sums
<1> QED
  BY <1>8, <1>9

LEMMA ApartCount ==
    ASSUME NEW S, NEW s \in Seq(S), Apart(s)
    PROVE  IsFiniteSet(ToSet(s)) /\ Cardinality(ToSet(s)) = Len(s)
<1> DEFINE n == Len(s)
           f == [i \in 1 .. n |-> s[i]]
<1>1. DOMAIN s = 1 .. n /\ n \in Nat
  BY EntriesOf
<1>2. f \in Bijection(1 .. n, ToSet(s))
  <2>1. f \in [1 .. n -> ToSet(s)]
    BY <1>1 DEF ToSet
  <2>2. \A i, j \in 1 .. n : i # j => f[i] # f[j]
    BY DEF Apart
  <2>3. \A v \in ToSet(s) : \E i \in 1 .. n : f[i] = v
    BY <1>1 DEF ToSet
  <2> HIDE DEF f, n
  <2> QED
    BY <2>1, <2>2, <2>3 DEF Bijection, Injection, Surjection, IsInjective
<1>3. ExistsBijection(1 .. n, ToSet(s))
  <2> HIDE DEF f
  <2> QED
    BY <1>2 DEF ExistsBijection
<1>4. Cardinality(ToSet(s)) = n
  BY <1>1, <1>3, FS_CountingElements
<1>5. IsFiniteSet(ToSet(s))
  <2>1. IsFiniteSet(1 .. n) /\ f \in Surjection(1 .. n, ToSet(s))
    BY <1>1, <1>2, FS_Interval DEF Bijection
  <2> HIDE DEF f, n
  <2> QED
    BY <2>1, FS_Surjection
<1> QED
  BY <1>4, <1>5

LEMMA OrderLength ==
    ASSUME NEW g, NEW topo, IsOrder(g, topo)
    PROVE  Len(topo) = Cardinality(NodeSet(g)) /\ Len(topo) \in Nat
  BY ApartCount, EntriesOf DEF IsOrder

(* One step back: a predecessor is put in front. *)
LEMMA PutInFront ==
    ASSUME NEW S, NEW x \in S, NEW s \in Seq(S)
    PROVE  /\ <<x>> \o s \in Seq(S) /\ <<x>> \o s # <<>> /\ Len(<<x>> \o s) = Len(s) + 1
           /\ (<<x>> \o s)[1] = x
           /\ \A j \in 2 .. Len(s) + 1 : (<<x>> \o s)[j] = s[j - 1]
<1>1. <<x>> \in Seq(S) /\ Len(<<x>>) = 1 /\ <<x>>[1] = x /\ Len(s) \in Nat
  BY EntriesOf
<1> DEFINE a == <<x>>
           t == a \o s
<1>2. t \in Seq(S) /\ Len(t) = Len(a) + Len(s)
      /\ \A i \in 1 .. Len(a) + Len(s) : t[i] = IF i =< Len(a) THEN a[i] ELSE s[i - Len(a)]
  BY <1>1, ConcatProperties
<1>3. Len(a) = 1 /\ a[1] = x
  BY <1>1
<1> HIDE DEF a, t
<1>4. Len(t) = Len(s) + 1 /\ t[1] = x /\ \A j \in 2 .. Len(s) + 1 : t[j] = s[j - 1]
  BY <1>1, <1>2, <1>3
<1>5. t # <<>>
  BY <1>1, <1>4
<1> QED
  BY <1>2, <1>4, <1>5 DEF t, a

Trail(pred, V, source, v, k, s) ==
    /\ s \in Seq(V) /\ s # <<>> /\ s[Len(s)] = v
    /\ \A j \in 1 .. Len(s) - 1 : s[j] = pred[s[j + 1]] /\ s[j + 1] # source
    /\ s[1] = source \/ Len(s) = k + 1

Back(pred, s) == IF pred[Head(s)] = 0 THEN s ELSE <<pred[Head(s)]>> \o s

Traces(trace, pred, v, n) ==
    trace = [k \in 0 .. n |-> IF k = 0 THEN <<v>>
                              ELSE IF pred[Head(trace[k - 1])] = 0 THEN trace[k - 1]
                              ELSE <<pred[Head(trace[k - 1])]>> \o trace[k - 1]]

LEMMA TrailGrows ==
    ASSUME NEW V, NEW source, NEW pred, pred[source] = 0, 0 \notin V,
           NEW finite, \A w \in finite : w \in V /\ (w # source => pred[w] \in finite),
           NEW v \in finite, NEW k \in Nat, NEW s, Trail(pred, V, source, v, k, s),
           \A j \in 1 .. Len(s) : s[j] \in finite
    PROVE  /\ Trail(pred, V, source, v, k + 1, Back(pred, s))
           /\ \A j \in 1 .. Len(Back(pred, s)) : Back(pred, s)[j] \in finite
<1>1. s \in Seq(V) /\ s # <<>> /\ Len(s) \in Nat /\ Len(s) >= 1 /\ Head(s) = s[1] /\ s[1] \in finite
  <2>1. s \in Seq(V) /\ s # <<>>
    BY DEF Trail
  <2>2. Len(s) \in Nat /\ Len(s) >= 1 /\ Head(s) = s[1]
    BY <2>1, HeadTailProperties, EntriesOf
  <2> QED
    BY <2>1, <2>2
<1>2. CASE s[1] = source
  <2>1. Back(pred, s) = s
    BY <1>1, <1>2 DEF Back
  <2> QED
    BY <1>2, <2>1 DEF Trail
<1>3. CASE s[1] # source
  <2> DEFINE x == pred[s[1]]
             t == <<x>> \o s
  <2>1. x \in finite /\ x \in V /\ x # 0 /\ Len(s) = k + 1
    BY <1>1, <1>3 DEF Trail
  <2>2. Back(pred, s) = t
    BY <1>1, <2>1 DEF Back
  <2> HIDE DEF x
  <2>3. /\ t \in Seq(V) /\ t # <<>> /\ Len(t) = Len(s) + 1 /\ t[1] = x
        /\ \A j \in 2 .. Len(s) + 1 : t[j] = s[j - 1]
    BY <1>1, <2>1, PutInFront
  <2> HIDE DEF t
  <2>4. \A j \in 2 .. Len(s) + 1 : j - 1 \in 1 .. Len(s) /\ t[j] = s[j - 1]
    BY <1>1, <2>3
  <2>5. t[Len(t)] = v
    <3>1. Len(t) \in 2 .. Len(s) + 1 /\ Len(t) - 1 = Len(s)
      BY <1>1, <2>3
    <3> QED
      BY <2>4, <3>1 DEF Trail
  <2>6. ASSUME NEW j \in 1 .. Len(t) - 1
        PROVE  t[j] = pred[t[j + 1]] /\ t[j + 1] # source
    <3>1. j + 1 \in 2 .. Len(s) + 1 /\ (j + 1) - 1 = j /\ t[j + 1] = s[j]
      BY <1>1, <2>3, <2>4
    <3>2. CASE j = 1
      BY <1>3, <2>3, <3>1, <3>2 DEF x
    <3>3. CASE j # 1
      <4>1. j \in 2 .. Len(s) + 1 /\ j - 1 \in 1 .. Len(s) - 1 /\ (j - 1) + 1 = j
        BY <1>1, <2>3, <3>3
      <4>2. t[j] = s[j - 1] /\ s[j - 1] = pred[s[j]] /\ s[j] # source
        BY <2>4, <4>1 DEF Trail
      <4> QED
        BY <3>1, <4>2
    <3> QED
      BY <3>2, <3>3
  <2>7. \A j \in 1 .. Len(t) : t[j] \in finite
    <3> TAKE j \in 1 .. Len(t)
    <3>1. CASE j = 1
      BY <2>1, <2>3, <3>1
    <3>2. CASE j # 1
      <4>1. j \in 2 .. Len(s) + 1
        BY <1>1, <2>3, <3>2
      <4> QED
        BY <2>4, <4>1
    <3> QED
      BY <3>1, <3>2
  <2>8. Len(t) = (k + 1) + 1
    BY <2>1, <2>3
  <2> QED
    BY <2>2, <2>3, <2>5, <2>6, <2>7, <2>8 DEF Trail
<1> QED
  BY <1>2, <1>3

(* The reconstruction is a trail from the node back over its predecessors. *)
LEMMA ReconstructRuns ==
    ASSUME NEW V, IsFiniteSet(V), NEW source, NEW pred \in [V -> V \union {0}], pred[source] = 0, 0 \notin V,
           NEW finite, \A w \in finite : w \in V /\ (w # source => pred[w] \in finite),
           NEW v \in finite
    PROVE  /\ Trail(pred, V, source, v, Cardinality(V), ReconstructPath(pred, v))
           /\ \A j \in 1 .. Len(ReconstructPath(pred, v)) : ReconstructPath(pred, v)[j] \in finite
<1> DEFINE n == Cardinality(V)
           Sound(k, s) == Trail(pred, V, source, v, k, s) /\ \A j \in 1 .. Len(s) : s[j] \in finite
           S == {s \in Seq(V) : s # <<>>}
           step == [x \in (0 .. n) \X S |-> Back(pred, x[2])]
           b == <<v>>
<1>1. n \in Nat /\ 0 \in Nat /\ 0 =< n /\ DOMAIN pred = V
  BY FS_CardinalityType
<1>2. b \in S /\ Sound(0, b)
  <2>1. b \in Seq(V) /\ b # <<>> /\ Len(b) = 1 /\ b[1] = v
    OBVIOUS
  <2> HIDE DEF b
  <2> QED
    BY <2>1 DEF Trail
<1>3. ASSUME NEW s \in S
      PROVE  Back(pred, s) \in S
  <2>1. s \in Seq(V) /\ s # <<>>
    OBVIOUS
  <2>2. Head(s) \in V
    BY <2>1
  <2>3. CASE pred[Head(s)] = 0
    BY <2>1, <2>3 DEF Back
  <2>4. CASE pred[Head(s)] # 0
    <3> DEFINE x == pred[Head(s)]
    <3>1. x \in V /\ Back(pred, s) = <<x>> \o s
      BY <2>2, <2>4 DEF Back
    <3> HIDE DEF x
    <3>2. <<x>> \o s \in Seq(V) /\ <<x>> \o s # <<>>
      BY <2>1, <3>1, PutInFront
    <3> QED
      BY <3>1, <3>2
  <2> QED
    BY <2>3, <2>4
<1>4. ReconstructPath(pred, v) = (CHOOSE trace : Traces(trace, pred, v, n))[n]
  BY <1>1 DEF ReconstructPath, Traces
<1> HIDE DEF n, b, S
<1>5. step \in [(0 .. n) \X S -> S] /\ \A k \in 0 .. n : \A s \in S : step[<<k, s>>] = Back(pred, s)
  BY <1>3
<1> HIDE DEF step
<1>6. PICK f \in [0 .. n -> S] : Unrolls(f, 0, n, b, step)
  BY <1>1, <1>2, <1>5, Recursion
<1>7. Traces(f, pred, v, n)
  <2>1. \A k \in 0 .. n : f[k] = IF k = 0 THEN <<v>>
                                 ELSE IF pred[Head(f[k - 1])] = 0 THEN f[k - 1]
                                 ELSE <<pred[Head(f[k - 1])]>> \o f[k - 1]
    <3> TAKE k \in 0 .. n
    <3>1. f[k] = IF k = 0 THEN b ELSE step[<<k, f[k - 1]>>]
      BY <1>6 DEF Unrolls
    <3>2. k # 0 => f[k - 1] \in S
      BY <1>1, <1>6
    <3> QED
      BY <3>1, <3>2, <1>5 DEF b, Back
  <2>2. f = [k \in 0 .. n |-> f[k]]
    BY <1>6
  <2> QED
    BY <2>1, <2>2 DEF Traces
<1> DEFINE c == CHOOSE trace : Traces(trace, pred, v, n)
<1>8. Traces(c, pred, v, n)
  BY <1>7
<1>9. ReconstructPath(pred, v) = c[n]
  BY <1>4
<1> HIDE DEF c
<1>10. c[0] = b /\ \A k \in 0 .. n - 1 : c[k + 1] = Back(pred, c[k])
  <2>1. \A k \in 0 .. n : c[k] = IF k = 0 THEN <<v>> ELSE Back(pred, c[k - 1])
    BY <1>8 DEF Traces, Back
  <2>2. \A k \in 0 .. n - 1 : k + 1 \in 0 .. n /\ k + 1 # 0 /\ (k + 1) - 1 = k
    BY <1>1
  <2> QED
    BY <1>1, <2>1, <2>2 DEF b
<1> HIDE DEF Sound
<1> DEFINE P == {k \in 0 .. n : Sound(k, c[k])}
<1>11. 0 \in P
  BY <1>1, <1>2, <1>10
<1>12. \A k \in 0 .. n - 1 : k \in P => k + 1 \in P
  <2> TAKE k \in 0 .. n - 1
  <2> HAVE k \in P
  <2> DEFINE s == c[k]
  <2>1. k \in Nat /\ k + 1 \in 0 .. n /\ c[k + 1] = Back(pred, s)
    BY <1>1, <1>10
  <2>2. Trail(pred, V, source, v, k, s) /\ \A j \in 1 .. Len(s) : s[j] \in finite
    BY DEF Sound
  <2> HIDE DEF s
  <2>3. /\ Trail(pred, V, source, v, k + 1, Back(pred, s))
        /\ \A j \in 1 .. Len(Back(pred, s)) : Back(pred, s)[j] \in finite
    BY <2>1, <2>2, TrailGrows
  <2> QED
    BY <2>1, <2>3 DEF Sound
<1>13. \A k \in 0 .. n : k \in P
  <2> HIDE DEF P
  <2> QED
    BY <1>1, <1>11, <1>12, UpTo
<1>14. n \in 0 .. n
  BY <1>1
<1> QED
  BY <1>9, <1>13, <1>14 DEF Sound, n

(* The path of a reached node leads there from the source, edge by edge, at *)
(* exactly the distance.                                                    *)
LEMMA ReconstructIsWalk ==
    ASSUME NEW g, IsGraph(g), NEW topo, IsOrder(g, topo), NEW source \in NodeSet(g), 0 \notin NodeSet(g),
           NEW last \in Int, NEW cost \in [DOMAIN g.edges -> Nat],
           NEW tree, TreeSound(g, topo, source, last, cost, tree),
           NEW v \in NodeSet(g), tree.dist[v] # Infinity
    PROVE  LET p == ReconstructPath(tree.pred, v)
           IN  /\ p \in Seq(NodeSet(g)) /\ p # <<>> /\ p[1] = source /\ p[Len(p)] = v /\ Walk(g.edges, p)
               /\ PathCost(g.edges, p, cost) =< tree.dist[v]
<1> DEFINE V == NodeSet(g)
           pred == tree.pred
           finite == {w \in V : tree.dist[w] # Infinity}
           p == ReconstructPath(pred, v)
           n == Len(p)
<1>1. pred \in [V -> V \union {0}] /\ pred[source] = 0 /\ v \in finite
      /\ \A w \in finite : w \in V /\ (w # source => pred[w] \in finite)
  BY DEF TreeSound, Trees
<1>2. IsFiniteSet(V)
  BY GraphIsFinite
<1>3. \A w \in V : tree.dist[w] # Infinity => tree.dist[w] \in Nat
  BY DEF TreeSound, Trees, Distances
<1> HIDE DEF V, finite, pred
<1>4. Trail(pred, V, source, v, Cardinality(V), p) /\ \A j \in 1 .. Len(p) : p[j] \in finite
  BY <1>1, <1>2, ReconstructRuns, SMTT(30) DEF V
<1> HIDE DEF p
<1>5. /\ p \in Seq(V) /\ p # <<>> /\ p[n] = v
      /\ \A j \in 1 .. n - 1 : p[j] = pred[p[j + 1]] /\ p[j + 1] # source
      /\ p[1] = source \/ n = Cardinality(V) + 1
  BY <1>4 DEF Trail
<1>6. n \in Nat /\ 1 =< n /\ 1 \in Nat /\ \A j \in 1 .. n : p[j] \in V /\ p[j] \in finite
  BY <1>4, <1>5, EntriesOf
<1>7. \A j \in 1 .. n - 1 : \E i \in Between(g.edges, p[j], p[j + 1]) :
          tree.dist[p[j + 1]] = tree.dist[p[j]] + cost[i]
  <2> TAKE j \in 1 .. n - 1
  <2>1. j + 1 \in 1 .. n /\ p[j + 1] \in finite /\ p[j + 1] # source /\ p[j] = tree.pred[p[j + 1]]
    BY <1>5, <1>6 DEF pred
  <2>2. p[j + 1] \in NodeSet(g) /\ tree.dist[p[j + 1]] # Infinity
    BY <2>1 DEF finite, V
  <2> QED
    BY <2>1, <2>2 DEF TreeSound
<1>8. Walk(g.edges, p)
  BY <1>7, StepsAreEdges DEF Walk, n
<1>9. p[1] = source
  <2>1. SUFFICES ASSUME p[1] # source PROVE FALSE
    OBVIOUS
  <2>2. n = Cardinality(V) + 1 /\ Len(topo) = Cardinality(V) /\ Len(topo) \in Nat
    BY <1>5, <2>1, OrderLength DEF V
  <2>3. 1 \in 1 .. Len(p) /\ n \in 1 .. Len(p) /\ p \in Seq(NodeSet(g))
    BY <1>5, <1>6 DEF n, V
  <2>4. Rank(topo, p[1]) + (n - 1) =< Rank(topo, p[n])
    BY <1>8, <2>3, WalkClimbs
  <2>5. Rank(topo, p[1]) \in 1 .. Len(topo) /\ Rank(topo, p[n]) \in 1 .. Len(topo)
    BY <1>6, <2>3, RankIs DEF V
  <2> QED
    BY <2>2, <2>4, <2>5
<1>10. PICK sum \in [1 .. n -> Nat] : Sums(sum, g.edges, p, cost)
  BY <1>5, <1>8, PathSums DEF n
<1> DEFINE P == {k \in 1 .. n : sum[k] =< tree.dist[p[k]]}
<1>11. 1 \in P
  <2>1. sum[1] = 0 /\ tree.dist[p[1]] = 0
    BY <1>9, <1>10 DEF Sums, TreeSound
  <2> QED
    BY <1>6, <2>1
<1>12. \A k \in 1 .. n - 1 : k \in P => k + 1 \in P
  <2> TAKE k \in 1 .. n - 1
  <2> HAVE k \in P
  <2>1. k \in 1 .. n /\ k + 1 \in 1 .. n /\ k \in 1 .. Len(p) - 1
    BY <1>6 DEF n
  <2>2. PICK i \in Between(g.edges, p[k], p[k + 1]) : tree.dist[p[k + 1]] = tree.dist[p[k]] + cost[i]
    BY <1>7
  <2> DEFINE c == StepCost(g.edges, p[k], p[k + 1], cost)
  <2>3. c \in Nat /\ c =< cost[i]
    BY <2>2, StepCostIs
  <2>4. sum[k + 1] = sum[k] + c
    BY <1>10, <2>1 DEF Sums
  <2>5. tree.dist[p[k]] \in Nat /\ cost[i] \in Nat /\ sum[k] \in Nat
    BY <1>3, <1>6, <2>1, <2>2 DEF finite, Between
  <2> HIDE DEF c
  <2>6. sum[k + 1] =< tree.dist[p[k + 1]]
    BY <2>2, <2>3, <2>4, <2>5
  <2> QED
    BY <2>1, <2>6
<1>13. \A k \in 1 .. n : k \in P
  <2> HIDE DEF P
  <2> QED
    BY <1>6, <1>11, <1>12, UpTo
<1>14. PathCost(g.edges, p, cost) =< tree.dist[v]
  <2>1. n \in 1 .. n /\ sum[n] = PathCost(g.edges, p, cost)
    BY <1>6, <1>10 DEF Sums, n
  <2> QED
    BY <1>5, <1>13, <2>1
<1> QED
  BY <1>5, <1>8, <1>9, <1>14 DEF p, n, V, pred

-----------------------------------------------------------------------------
(* The paths found are the cheapest. *)

(* The reference notion of a path and walks from a source are the same in a *)
(* graph that has an order.                                                *)
LEMMA PathsAreWalks ==
    ASSUME NEW g, IsGraph(g), NEW source \in NodeSet(g), NEW target, NEW p \in PathsFrom(g.edges, source, target)
    PROVE  /\ p \in Seq(NodeSet(g)) /\ p # <<>> /\ p[1] = source /\ p[Len(p)] = target /\ Walk(g.edges, p)
           /\ target \in NodeSet(g)
<1> DEFINE nodes == Ends(g.edges) \union {source}
<1>1. nodes \subseteq NodeSet(g)
  BY DEF IsGraph, Ends
<1>2. /\ p \in UNION {[1 .. n -> nodes] : n \in 1 .. Cardinality(nodes)}
      /\ p[1] = source /\ p[Len(p)] = target
      /\ \A i \in 1 .. Len(p) - 1 : p[i + 1] \in Targets(g.edges, {p[i]})
  BY DEF PathsFrom
<1> HIDE DEF nodes
<1>3. PICK n \in 1 .. Cardinality(nodes) : p \in [1 .. n -> nodes]
  BY <1>2
<1>4. n \in Nat /\ 1 =< n
  <2>1. IsFiniteSet(nodes)
    BY <1>1, GraphIsFinite, FS_Subset
  <2>2. Cardinality(nodes) \in Nat
    BY <2>1, FS_CardinalityType
  <2> QED
    BY <2>2
<1>5. Len(p) = n /\ p \in Seq(nodes)
  BY <1>3, <1>4
<1>6. p \in Seq(NodeSet(g)) /\ p # <<>>
  BY <1>1, <1>4, <1>5, WiderSeq
<1>7. p[Len(p)] \in NodeSet(g)
  BY <1>1, <1>3, <1>4, <1>5
<1> QED
  BY <1>2, <1>6, <1>7 DEF Walk

LEMMA WalksArePaths ==
    ASSUME NEW g, IsGraph(g), NEW topo, IsOrder(g, topo), NEW source \in NodeSet(g), NEW target,
           NEW p \in Seq(NodeSet(g)), p # <<>>, p[1] = source, p[Len(p)] = target, Walk(g.edges, p)
    PROVE  p \in PathsFrom(g.edges, source, target)
<1> DEFINE nodes == Ends(g.edges) \union {source}
           n == Len(p)
<1>1. n \in Nat /\ 1 =< n /\ DOMAIN p = 1 .. n /\ \A k \in 1 .. n : p[k] \in NodeSet(g)
  BY EntriesOf
<1>2. \A k \in 1 .. n : p[k] \in nodes
  <2> TAKE k \in 1 .. n
  <2>1. CASE k = 1
    BY <2>1
  <2>2. CASE k # 1
    <3>1. k - 1 \in 1 .. Len(p) - 1 /\ (k - 1) + 1 = k
      BY <1>1, <2>2
    <3>2. p[k] \in Targets(g.edges, {p[k - 1]})
      BY <3>1 DEF Walk
    <3>3. p[k] \in Ends(g.edges)
      BY <3>2 DEF Targets, Ends
    <3> QED
      BY <3>3
  <2> QED
    BY <2>1, <2>2
<1>3. nodes \subseteq NodeSet(g)
  BY DEF IsGraph, Ends
<1> HIDE DEF nodes
<1>4. \A i, j \in 1 .. n : i # j => p[i] # p[j]
  <2> SUFFICES ASSUME NEW i \in 1 .. n, NEW j \in 1 .. n, i < j
               PROVE  p[i] # p[j]
    BY <1>1
  <2>1. i \in 1 .. Len(p) /\ j \in i .. Len(p)
    BY <1>1
  <2>2. Rank(topo, p[i]) + (j - i) =< Rank(topo, p[j])
    BY <2>1, WalkClimbs
  <2>3. Rank(topo, p[i]) \in Nat /\ Rank(topo, p[j]) \in Nat
    BY <1>1, RankIs
  <2> QED
    BY <2>2, <2>3
<1>5. p \in Seq(nodes) /\ Apart(p) /\ p \in [1 .. n -> nodes]
  BY <1>1, <1>2, <1>4 DEF Apart
<1>6. IsFiniteSet(nodes)
  BY <1>3, GraphIsFinite, FS_Subset
<1>7. n \in 1 .. Cardinality(nodes)
  <2>1. ToSet(p) \subseteq nodes /\ Cardinality(ToSet(p)) = n
    BY <1>5, ApartCount, EntriesOf
  <2>2. Cardinality(ToSet(p)) =< Cardinality(nodes)
    BY <1>6, <2>1, FS_Subset
  <2>3. Cardinality(nodes) \in Nat
    BY <1>6, FS_CardinalityType
  <2> QED
    BY <1>1, <2>1, <2>2, <2>3
<1>8. p \in UNION {[1 .. m -> nodes] : m \in 1 .. Cardinality(nodes)}
  BY <1>5, <1>7
<1> QED
  BY <1>1, <1>4, <1>8 DEF PathsFrom, Walk, nodes, n

LEMMA CheapestPaths ==
    ASSUME NEW g, IsGraph(g), NEW topo, IsOrder(g, topo), NEW source \in NodeSet(g), 0 \notin NodeSet(g),
           NEW last \in 1 .. Len(topo), Rank(topo, source) =< last, NEW cost \in [DOMAIN g.edges -> Nat],
           NEW target \in NodeSet(g), Rank(topo, target) =< last
    PROVE  LET tree == Relax(g, topo, source, last, cost)
               p == ReconstructPath(tree.pred, target)
               paths == PathsFrom(g.edges, source, target)
           IN  /\ tree.dist[target] = Infinity => paths = {}
               /\ tree.dist[target] # Infinity =>
                      /\ p \in paths /\ PathCost(g.edges, p, cost) = tree.dist[target]
                      /\ p \in Seq(NodeSet(g)) /\ p # <<>> /\ Walk(g.edges, p)
               /\ \A q \in paths : tree.dist[target] =< PathCost(g.edges, q, cost)
<1> DEFINE tree == Relax(g, topo, source, last, cost)
           p == ReconstructPath(tree.pred, target)
           paths == PathsFrom(g.edges, source, target)
<1>1. TreeSound(g, topo, source, last, cost, tree) /\ last \in Int
  BY RelaxIsSound
<1> HIDE DEF tree
<1>2. ASSUME NEW q \in paths
      PROVE  tree.dist[target] # Infinity /\ tree.dist[target] =< PathCost(g.edges, q, cost)
  <2>1. q \in Seq(NodeSet(g)) /\ q # <<>> /\ q[1] = source /\ q[Len(q)] = target /\ Walk(g.edges, q)
    BY PathsAreWalks
  <2>2. Rank(topo, q[Len(q)]) =< last
    BY <2>1
  <2>3. tree.dist[q[Len(q)]] # Infinity /\ tree.dist[q[Len(q)]] =< PathCost(g.edges, q, cost)
    BY <1>1, <2>1, <2>2, WalksAreNotCheaper
  <2> QED
    BY <2>1, <2>3
<1>3. ASSUME tree.dist[target] # Infinity
      PROVE  /\ p \in paths /\ PathCost(g.edges, p, cost) = tree.dist[target]
             /\ p \in Seq(NodeSet(g)) /\ p # <<>> /\ Walk(g.edges, p)
  <2>1. /\ p \in Seq(NodeSet(g)) /\ p # <<>> /\ p[1] = source /\ p[Len(p)] = target /\ Walk(g.edges, p)
        /\ PathCost(g.edges, p, cost) =< tree.dist[target]
    BY <1>1, <1>3, ReconstructIsWalk
  <2> HIDE DEF p
  <2>2. p \in paths
    BY <2>1, WalksArePaths
  <2>3. tree.dist[target] =< PathCost(g.edges, p, cost)
    BY <1>2, <2>2
  <2>4. tree.dist[target] \in Nat
    BY <1>1, <1>3 DEF TreeSound, Trees, Distances
  <2>5. PathCost(g.edges, p, cost) \in Nat
    <3>1. PICK sum \in [1 .. Len(p) -> Nat] : Sums(sum, g.edges, p, cost)
      BY <2>1, PathSums
    <3>2. Len(p) \in 1 .. Len(p)
      BY <2>1, EntriesOf
    <3> QED
      BY <3>1, <3>2 DEF Sums
  <2> QED
    BY <2>1, <2>2, <2>3, <2>4, <2>5
<1> QED
  BY <1>2, <1>3 DEF tree

(* What a path is cut to is a beginning of it, and never empty. *)
LEMMA FitBudgetIs ==
    ASSUME NEW S, NEW path \in Seq(S), path # <<>>, NEW hours
    PROVE  \E k \in 1 .. Len(path) : FitBudget(path, hours) = SubSeq(path, 1, k)
<1> DEFINE fits == {k \in DOMAIN path : k = 1 \/ HoursOf(SubSeq(path, 1, k)) =< hours}
           k == CHOOSE k \in fits : \A n \in fits : n =< k
<1>1. Len(path) \in Nat /\ DOMAIN path = 1 .. Len(path) /\ 1 \in 1 .. Len(path)
  BY EntriesOf
<1>2. fits \subseteq 1 .. Len(path) /\ fits # {}
  BY <1>1
<1>3. FitBudget(path, hours) = SubSeq(path, 1, k)
  BY DEF FitBudget
<1> HIDE DEF fits
<1>4. \E i \in fits : \A n \in fits : n =< i
  BY <1>1, <1>2, LastOf
<1>5. k \in fits
  BY <1>4
<1> QED
  BY <1>2, <1>3, <1>5

LEMMA CutIs ==
    ASSUME NEW S, NEW path \in Seq(S), path # <<>>, NEW limit \in Nat \ {0}, NEW hours
    PROVE  LET cut == FitBudget(Shorten(path, limit), hours)
           IN  /\ cut \in Seq(S) /\ Len(cut) \in 1 .. Len(path)
               /\ \A i \in 1 .. Len(cut) : cut[i] = path[i]
<1> DEFINE short == Shorten(path, limit)
           cut == FitBudget(short, hours)
<1>1. Len(path) \in Nat /\ 1 =< Len(path)
  BY EntriesOf
<1>2. /\ short \in Seq(S) /\ Len(short) = (IF Len(path) > limit THEN limit ELSE Len(path))
      /\ \A i \in 1 .. Len(short) : short[i] = path[i]
  BY ShortenIs
<1> HIDE DEF short
<1>3. Len(short) \in 1 .. Len(path) /\ short # <<>>
  BY <1>1, <1>2
<1>4. PICK k \in 1 .. Len(short) : cut = SubSeq(short, 1, k)
  BY <1>2, <1>3, FitBudgetIs
<1>5. SubSeq(short, 1, k) \in Seq(S) /\ Len(SubSeq(short, 1, k)) = k
      /\ \A i \in 1 .. k : SubSeq(short, 1, k)[i] = short[i]
  <2>1. \A i \in 1 .. k : short[i] \in S
    BY <1>2
  <2>2. k \in 0 .. Len(short) /\ k \in Nat
    BY <1>3
  <2> QED
    BY <1>2, <2>1, <2>2
<1> HIDE DEF cut
<1>6. Len(cut) = k /\ cut \in Seq(S) /\ \A i \in 1 .. k : cut[i] = short[i]
  BY <1>4, <1>5
<1>7. k \in 1 .. Len(path) /\ \A i \in 1 .. k : i \in 1 .. Len(short)
  BY <1>1, <1>3
<1> QED
  BY <1>2, <1>6, <1>7 DEF cut, short

LEMMA PrefixIs ==
    ASSUME NEW S, NEW s \in Seq(S), NEW t \in Seq(S), Len(s) =< Len(t), \A i \in 1 .. Len(s) : s[i] = t[i]
    PROVE  IsPrefix(s, t)
<1>1. Len(s) \in Nat /\ Len(t) \in Nat
  BY EntriesOf
<1>2. SubSeq(s, 1, Len(s)) = SubSeq(t, 1, Len(s))
  BY <1>1
<1> QED
  BY <1>1, <1>2 DEF IsPrefix

LEMMA AutoSourceIs ==
    ASSUME NEW g, NEW topo, IsOrder(g, topo), NEW ctx
    PROVE  AutoSource(topo, ctx) \in NodeSet(g) \union {0}
<1> DEFINE open == {i \in DOMAIN topo : topo[i] \notin Pruned(ctx.mastery)}
           k == CHOOSE i \in open : \A j \in open : i =< j
<1>1. Len(topo) \in Nat /\ DOMAIN topo = 1 .. Len(topo) /\ \A i \in 1 .. Len(topo) : topo[i] \in NodeSet(g)
  BY EntriesOf DEF IsOrder
<1>2. open \subseteq Nat /\ open \subseteq 1 .. Len(topo)
  BY <1>1
<1>3. AutoSource(topo, ctx) = IF open = {} THEN 0 ELSE topo[k]
  BY DEF AutoSource
<1> HIDE DEF open
<1>4. open # {} => k \in open
  <2>1. open # {} => \E i \in open : \A j \in open : i =< j
    BY <1>2, FirstOf
  <2> QED
    BY <2>1
<1> QED
  BY <1>1, <1>2, <1>3, <1>4

LEMMA SingleNode ==
    ASSUME NEW g, IsGraph(g), NEW topo, IsOrder(g, topo), NEW source \in NodeSet(g),
           NEW cost \in [DOMAIN g.edges -> Nat]
    PROVE  /\ <<source>> \in PathsFrom(g.edges, source, source)
           /\ \A q \in PathsFrom(g.edges, source, source) :
                  PathCost(g.edges, <<source>>, cost) =< PathCost(g.edges, q, cost)
<1> DEFINE p == <<source>>
<1>1. p \in Seq(NodeSet(g)) /\ p # <<>> /\ Len(p) = 1 /\ p[1] = source
  OBVIOUS
<1> HIDE DEF p
<1>2. Walk(g.edges, p) /\ p[Len(p)] = source
  BY <1>1 DEF Walk
<1>3. p \in PathsFrom(g.edges, source, source)
  BY <1>1, <1>2, WalksArePaths
<1>4. PathCost(g.edges, p, cost) = 0
  BY <1>1, <1>2, PathSums DEF Sums
<1>5. ASSUME NEW q \in PathsFrom(g.edges, source, source)
      PROVE  0 =< PathCost(g.edges, q, cost)
  <2>1. q \in Seq(NodeSet(g)) /\ q # <<>> /\ Walk(g.edges, q)
    BY PathsAreWalks, SMTT(20)
  <2>2. PICK sum \in [1 .. Len(q) -> Nat] : Sums(sum, g.edges, q, cost)
    BY <2>1, PathSums
  <2>3. Len(q) \in 1 .. Len(q)
    BY <2>1, EntriesOf
  <2> QED
    BY <2>2, <2>3 DEF Sums
<1> QED
  BY <1>3, <1>4, <1>5 DEF p

(* What an answer owes to the graph it was asked of. *)
AnswerIsCheapest(edges, r, cost) ==
    r.source # 0 /\ r.target # 0 =>
        /\ r.found <=> PathsFrom(edges, r.source, r.target) # {}
        /\ r.found /\ ~r.cut => \A p \in PathsFrom(edges, r.source, r.target) :
                                    PathCost(edges, r.path, cost) =< PathCost(edges, p, cost)
        /\ r.found => \E p \in PathsFrom(edges, r.source, r.target) : IsPrefix(r.path, p)

Weights(g, ctx) ==
    [i \in DOMAIN g.edges |-> EdgeWeight(EffectiveStrategy(ctx.strategy, ctx.epoch), g.edges[i])]

LEMMA BareAnswer ==
    ASSUME NEW s, NEW t
    PROVE  [NoPath EXCEPT !.path = <<s>>, !.source = s, !.target = t]
           = [path |-> <<s>>, found |-> FALSE, source |-> s, target |-> t, cut |-> FALSE]
<1> DEFINE one == <<s>>
           none == <<>>
           r == [path |-> one, found |-> FALSE, source |-> s, target |-> t, cut |-> FALSE]
           n == [path |-> none, found |-> FALSE, source |-> 0, target |-> 0, cut |-> FALSE]
<1>1. NoPath = n
  BY DEF NoPath
<1> HIDE DEF one, none
<1> DEFINE e == [n EXCEPT !.path = one, !.source = s, !.target = t]
           fields == {"path", "found", "source", "target", "cut"}
<1>2. DOMAIN e = fields /\ DOMAIN r = fields
  OBVIOUS
<1>3. e.path = r.path /\ e.found = r.found /\ e.source = r.source /\ e.target = r.target /\ e.cut = r.cut
  OBVIOUS
<1>4. e = [f \in DOMAIN e |-> e[f]] /\ r = [f \in DOMAIN r |-> r[f]]
  OBVIOUS
<1>5. e = r
  <2> HIDE DEF e, r
  <2>1. \A f \in fields : e[f] = r[f]
    BY <1>3
  <2> QED
    BY <1>2, <1>4, <2>1
<1> QED
  BY <1>1, <1>5 DEF one

LEMMA ComputedPaths ==
    ASSUME NEW g, IsGraph(g), 0 \notin NodeSet(g), NEW topo, topo # Failed => IsOrder(g, topo),
           NEW ctx, ctx.maxLength \in Nat \ {0}, Weights(g, ctx) \in [DOMAIN g.edges -> Nat]
    PROVE  AnswerIsCheapest(g.edges, ComputePath(g, topo, ctx), Weights(g, ctx))
<1> DEFINE cost == Weights(g, ctx)
           source == IF ctx.current \in NodeSet(g) THEN ctx.current ELSE AutoSource(topo, ctx)
           tree == Relax(g, topo, source, Len(topo), cost)
           far == FarthestOpen(Distinct(g.nodes), tree.dist, ctx.mastery)
           target == IF ctx.target # 0 THEN ctx.target ELSE far
           whole == ReconstructPath(tree.pred, target)
           cut == FitBudget(Shorten(whole, ctx.maxLength), ctx.hours)
           just == [NoPath EXCEPT !.path = <<source>>, !.source = source, !.target = target]
           joined == \A i \in 1 .. Len(cut) - 1 : cut[i + 1] \in Targets(g.edges, {cut[i]})
           r == ComputePath(g, topo, ctx)
           paths == PathsFrom(g.edges, source, target)
<1>1. r = IF topo = Failed \/ source = 0 THEN NoPath
          ELSE IF target = 0 THEN [just EXCEPT !.found = TRUE, !.target = source]
          ELSE IF target \notin NodeSet(g) \/ tree.dist[target] = Infinity THEN just
          ELSE [just EXCEPT !.path = cut, !.cut = (cut # whole), !.found = joined]
  BY DEF ComputePath, Weights
<1>2. cost \in [DOMAIN g.edges -> Nat]
  OBVIOUS
<1>3. topo # Failed => IsOrder(g, topo) /\ source \in NodeSet(g) \union {0}
  <2> SUFFICES ASSUME topo # Failed PROVE IsOrder(g, topo) /\ source \in NodeSet(g) \union {0}
    OBVIOUS
  <2>1. IsOrder(g, topo)
    OBVIOUS
  <2>2. AutoSource(topo, ctx) \in NodeSet(g) \union {0}
    BY <2>1, AutoSourceIs
  <2> QED
    BY <2>1, <2>2
<1> HIDE DEF cost, source, far, target, r
<1>4. just = [path |-> <<source>>, found |-> FALSE, source |-> source, target |-> target, cut |-> FALSE]
  BY BareAnswer
<1>5. CASE topo = Failed \/ source = 0
  <2>1. r.source = 0
    BY <1>1, <1>5 DEF NoPath
  <2> QED
    BY <2>1 DEF AnswerIsCheapest, r
<1>6. CASE ~(topo = Failed \/ source = 0)
  <2>1. IsOrder(g, topo) /\ source \in NodeSet(g) /\ source # 0
    BY <1>3, <1>6
  <2>2. CASE target = 0
    <3>1. r = [just EXCEPT !.found = TRUE, !.target = source]
      BY <1>1, <1>6, <2>2
    <3> HIDE DEF just
    <3>2. r.found = TRUE /\ r.target = source /\ r.source = source /\ r.path = <<source>>
      BY <1>4, <3>1
    <3>3. <<source>> \in PathsFrom(g.edges, source, source)
      BY <1>2, <2>1, SingleNode
    <3>4. \A q \in PathsFrom(g.edges, source, source) :
              PathCost(g.edges, <<source>>, cost) =< PathCost(g.edges, q, cost)
      BY <1>2, <2>1, SingleNode
    <3>5. IsPrefix(<<source>>, <<source>>)
      BY DEF IsPrefix
    <3>6. AnswerIsCheapest(g.edges, r, cost)
      BY <3>2, <3>3, <3>4, <3>5 DEF AnswerIsCheapest
    <3> QED
      BY <3>6 DEF r, cost
  <2>3. CASE target # 0
    <3>1. Rank(topo, source) \in 1 .. Len(topo) /\ Len(topo) \in Nat
      BY <2>1, RankIs
    <3>2. Len(topo) \in 1 .. Len(topo) /\ Rank(topo, source) =< Len(topo)
      BY <3>1
    <3>3. target \in NodeSet(g) => Rank(topo, target) =< Len(topo)
      BY <2>1, <3>1, RankIs
    <3>4. target \in NodeSet(g) =>
              /\ tree.dist[target] = Infinity => paths = {}
              /\ tree.dist[target] # Infinity =>
                     /\ whole \in paths /\ PathCost(g.edges, whole, cost) = tree.dist[target]
                     /\ whole \in Seq(NodeSet(g)) /\ whole # <<>> /\ Walk(g.edges, whole)
              /\ \A q \in paths : tree.dist[target] =< PathCost(g.edges, q, cost)
      <4> SUFFICES ASSUME target \in NodeSet(g)
                   PROVE  /\ tree.dist[target] = Infinity => paths = {}
                          /\ tree.dist[target] # Infinity =>
                                 /\ whole \in paths /\ PathCost(g.edges, whole, cost) = tree.dist[target]
                                 /\ whole \in Seq(NodeSet(g)) /\ whole # <<>> /\ Walk(g.edges, whole)
                          /\ \A q \in paths : tree.dist[target] =< PathCost(g.edges, q, cost)
        OBVIOUS
      <4>1. Rank(topo, target) =< Len(topo)
        BY <3>3
      <4> QED
        BY <1>2, <2>1, <3>2, <4>1, CheapestPaths
    <3>5. target \notin NodeSet(g) => paths = {}
      BY <2>1, PathsAreWalks
    <3> HIDE DEF just, tree, whole, paths, joined, cut
    <3>6. CASE target \notin NodeSet(g) \/ tree.dist[target] = Infinity
      <4>1. r = just /\ paths = {}
        BY <1>1, <1>6, <2>3, <3>4, <3>5, <3>6
      <4>2. r.found = FALSE /\ r.source = source /\ r.target = target
        BY <1>4, <4>1
      <4>3. AnswerIsCheapest(g.edges, r, cost)
        BY <4>1, <4>2 DEF AnswerIsCheapest, paths
      <4> QED
        BY <4>3 DEF r, cost
    <3>7. CASE ~(target \notin NodeSet(g) \/ tree.dist[target] = Infinity)
      <4>1. /\ whole \in paths /\ PathCost(g.edges, whole, cost) = tree.dist[target]
            /\ whole \in Seq(NodeSet(g)) /\ whole # <<>> /\ Walk(g.edges, whole)
            /\ \A q \in paths : tree.dist[target] =< PathCost(g.edges, q, cost)
        BY <3>4, <3>7
      <4>2. /\ cut \in Seq(NodeSet(g)) /\ Len(cut) \in 1 .. Len(whole) /\ Len(whole) \in Nat
            /\ \A i \in 1 .. Len(cut) : cut[i] = whole[i]
        BY <4>1, CutIs, EntriesOf DEF cut
      <4>3. joined
        <5> SUFFICES ASSUME NEW i \in 1 .. Len(cut) - 1 PROVE cut[i + 1] \in Targets(g.edges, {cut[i]})
          BY DEF joined
        <5>1. i \in 1 .. Len(cut) /\ i + 1 \in 1 .. Len(cut) /\ i \in 1 .. Len(whole) - 1
          BY <4>2
        <5>2. cut[i] = whole[i] /\ cut[i + 1] = whole[i + 1]
          BY <4>2, <5>1
        <5> QED
          BY <4>1, <5>1, <5>2 DEF Walk
      <4>4. IsPrefix(cut, whole)
        BY <4>1, <4>2, PrefixIs
      <4> DEFINE differs == cut # whole
                 j == joined
      <4>5. r = [just EXCEPT !.path = cut, !.cut = differs, !.found = j]
        BY <1>1, <1>6, <2>3, <3>7
      <4>6. j = TRUE
        BY <4>3
      <4>7. ~differs => cut = whole
        OBVIOUS
      <4> HIDE DEF differs, j
      <4>8. r.source = source /\ r.target = target /\ r.path = cut /\ r.cut = differs /\ r.found = TRUE
        BY <1>4, <4>5, <4>6
      <4>9. AnswerIsCheapest(g.edges, r, cost)
        <5>1. ~r.cut => cut = whole
          BY <4>7, <4>8, Zenon
        <5>2. ~r.cut => \A q \in paths : PathCost(g.edges, r.path, cost) =< PathCost(g.edges, q, cost)
          BY <4>1, <4>8, <5>1
        <5>3. paths # {} /\ \E q \in paths : IsPrefix(r.path, q)
          BY <4>1, <4>4, <4>8
        <5> QED
          BY <4>8, <5>2, <5>3 DEF AnswerIsCheapest, paths
      <4> QED
        BY <4>9 DEF r, cost
    <3> QED
      BY <3>6, <3>7
  <2> QED
    BY <2>2, <2>3
<1> QED
  BY <1>5, <1>6

(* A planned journey between two nodes of a graph that has an order. *)
LEMMA JourneyIsCheapest ==
    ASSUME CourseOK, NEW g, OfCourse(g), IsGraph(g), ComputeTopologicalOrder(g) # Failed,
           NEW source \in NodeSet(g), NEW target \in NodeSet(g), source # target,
           NEW D, NEW profile \in [D -> Masteries]
    PROVE  LET solved == Journey(g, source, target, profile)
               paths == PathsFrom(g.edges, source, target)
           IN  /\ solved.path \in Seq(NodeSet(g)) /\ (solved.path # <<>> <=> paths # {})
               /\ paths # {} => \E p \in paths : PathCost(g.edges, p, Costs(g, profile)) = solved.cost
               /\ \A p \in paths : solved.cost =< PathCost(g.edges, p, Costs(g, profile))
<1> DEFINE topo == ComputeTopologicalOrder(g)
           last == Rank(topo, target)
           cost == Costs(g, profile)
           tree == Relax(g, topo, source, last, cost)
           walk == ReconstructPath(tree.pred, target)
           paths == PathsFrom(g.edges, source, target)
           solved == Journey(g, source, target, profile)
<1>1. solved = IF topo = Failed \/ Rank(topo, source) = 0 \/ last = 0
                  \/ Rank(topo, source) >= last \/ tree.dist[target] = Infinity
               THEN [path |-> <<>>, cost |-> Infinity]
               ELSE [path |-> walk, cost |-> tree.dist[target]]
  BY DEF Journey, Solve, Costs
<1>2. IsOrder(g, topo)
  BY KahnOrders
<1>3. Rank(topo, source) \in 1 .. Len(topo) /\ last \in 1 .. Len(topo) /\ Len(topo) \in Nat
  BY <1>2, RankIs
<1>4. cost \in [DOMAIN g.edges -> Nat] /\ 0 \notin NodeSet(g)
  <2>1. \A v \in D : profile[v] =< profile[v]
    BY DEF Masteries
  <2> QED
    BY <2>1, MoreMasteryCostsLess, EdgeFacts
<1>5. CASE Rank(topo, source) >= last
  <2>1. solved.path = <<>>
    BY <1>1, <1>5
  <2>2. ASSUME NEW p \in paths
        PROVE  FALSE
    <3>1. p \in Seq(NodeSet(g)) /\ p # <<>> /\ p[1] = source /\ p[Len(p)] = target /\ Walk(g.edges, p)
      BY <2>2, PathsAreWalks
    <3>2. Len(p) \in Nat /\ 1 \in 1 .. Len(p) /\ Len(p) \in 1 .. Len(p)
      BY <3>1, EntriesOf
    <3>3. Rank(topo, p[1]) + (Len(p) - 1) =< Rank(topo, p[Len(p)])
      BY <1>2, <3>1, <3>2, WalkClimbs
    <3>4. Len(p) # 1
      BY <3>1
    <3> HIDE DEF last
    <3>5. Rank(topo, source) + (Len(p) - 1) =< last
      BY <3>1, <3>3 DEF last
    <3> DEFINE a == Rank(topo, source)
               n == Len(p)
    <3>6. a \in Int /\ last \in Int /\ n \in Nat /\ n # 1 /\ n >= 1 /\ a >= last /\ a + (n - 1) =< last
      BY <1>3, <1>5, <3>2, <3>4, <3>5
    <3> HIDE DEF a, n
    <3> QED
      BY <3>6
  <2>3. <<>> \in Seq(NodeSet(g))
    OBVIOUS
  <2> HIDE DEF solved, paths
  <2> QED
    BY <2>1, <2>2, <2>3 DEF solved, paths
<1>6. CASE ~(Rank(topo, source) >= last)
  <2>1. Rank(topo, source) =< last /\ Rank(topo, source) # 0 /\ last # 0
    BY <1>3, <1>6
  <2>2. /\ tree.dist[target] = Infinity => paths = {}
        /\ tree.dist[target] # Infinity =>
               /\ walk \in paths /\ PathCost(g.edges, walk, cost) = tree.dist[target]
               /\ walk \in Seq(NodeSet(g)) /\ walk # <<>> /\ Walk(g.edges, walk)
        /\ \A q \in paths : tree.dist[target] =< PathCost(g.edges, q, cost)
    <3> HIDE DEF cost
    <3>1. Rank(topo, target) =< last
      BY <1>3
    <3> HIDE DEF last
    <3> QED
      BY <1>2, <1>3, <1>4, <2>1, <3>1, CheapestPaths
  <2> HIDE DEF tree, walk, paths, topo, last, cost
  <2>3. CASE tree.dist[target] = Infinity
    <3>1. solved = [path |-> <<>>, cost |-> Infinity] /\ paths = {}
      BY <1>1, <2>2, <2>3
    <3>2. solved.path = <<>> /\ <<>> \in Seq(NodeSet(g))
      BY <3>1
    <3> HIDE DEF solved
    <3> QED
      BY <3>1, <3>2 DEF solved, paths
  <2>4. CASE tree.dist[target] # Infinity
    <3>1. topo # Failed
      BY DEF topo
    <3>2. solved = [path |-> walk, cost |-> tree.dist[target]]
      BY <1>1, <1>6, <2>1, <2>4, <3>1
    <3>3. solved.path = walk /\ solved.cost = tree.dist[target]
      BY <3>2
    <3> HIDE DEF solved
    <3> QED
      BY <2>2, <2>4, <3>3 DEF solved, paths, cost
  <2> QED
    BY <2>3, <2>4
<1> QED
  BY <1>5, <1>6

(* The answer of a search, and the plan of a run, when they are made. *)
AnswerKept == AnswerIsCheapest(answer.graph.edges, answer.result, Weights(answer.graph, answer.ctx))

LEMMA AnswerMade ==
    ASSUME CourseKept, NEW asked \in Contexts, FindPath(asked)
    PROVE  AnswerKept'
<1> DEFINE g == planner.graph
           topo == CachedOrder(planner)
           ctx == [f \in DOMAIN asked \union {"mastery"} |-> IF f = "mastery" THEN mastery ELSE asked[f]]
           r == ComputePath(g, topo, ctx)
<1>1. answer' = [ctx |-> ctx, graph |-> g, result |-> r] /\ Ends(g.edges) \subseteq NodeSet(g)
  BY DEF FindPath
<1>2. CourseOK /\ PlannerOf(planner) /\ OfCourse(g)
  BY DEF CourseKept, PlannerOf, OfCourse
<1>3. IsGraph(g)
  BY <1>1, <1>2, CourseGraphs
<1>4. topo # Failed => IsOrder(g, topo)
  BY <1>2, <1>3, CachedOrders
<1>5. asked \in [current : Nat, target : Nat, strategy : Strategies, epoch : Nat,
                 maxLength : Nat \ {0}, hours : Nat]
  BY ContextsAssumption
<1>6. ctx.maxLength = asked.maxLength /\ ctx.strategy = asked.strategy /\ ctx.epoch = asked.epoch
  BY <1>5
<1> HIDE DEF ctx, topo, g
<1>7. ctx.maxLength \in Nat \ {0} /\ EffectiveStrategy(ctx.strategy, ctx.epoch) \in Strategies
  BY <1>5, <1>6 DEF EffectiveStrategy, Strategies
<1>8. Weights(g, ctx) \in [DOMAIN g.edges -> Nat] /\ 0 \notin NodeSet(g)
  <2> DEFINE strategy == EffectiveStrategy(ctx.strategy, ctx.epoch)
  <2>1. strategy \in Strategies
    BY <1>7
  <2> HIDE DEF strategy
  <2>2. \A i \in DOMAIN g.edges : EdgeWeight(strategy, g.edges[i]) \in Nat
    <3> TAKE i \in DOMAIN g.edges
    <3> DEFINE e == g.edges[i]
    <3>1. e.src \in DOMAIN Difficulty /\ e.tgt \in DOMAIN Difficulty /\ e.weight \in Nat
      BY <1>2, <1>3, EdgeFacts
    <3> HIDE DEF e
    <3>2. EdgeWeight(strategy, e) \in Nat
      BY <2>1, <3>1, WeightsAreCosts
    <3> QED
      BY <3>2 DEF e
  <2> QED
    BY <1>2, <1>3, <2>2, EdgeFacts DEF Weights, strategy
<1>9. AnswerIsCheapest(g.edges, r, Weights(g, ctx))
  BY <1>3, <1>4, <1>7, <1>8, ComputedPaths
<1> HIDE DEF r
<1>10. answer'.graph = g /\ answer'.ctx = ctx /\ answer'.result = r
  BY <1>1
<1> QED
  BY <1>9, <1>10 DEF AnswerKept

(* What a run of PlannerNode owes to the graph it read. *)
PlanIsCheapest(p) ==
    LET paths == PathsFrom(p.graph.edges, p.asked[1], p.asked[2])
        cost == Costs(p.graph, p.mastery)
    IN  /\ p.asked[1] # p.asked[2] /\ p.asked[1] \in NodeSet(p.graph) /\ p.asked[2] \in NodeSet(p.graph)
        /\ ComputeTopologicalOrder(p.graph) # Failed
        => /\ p.learner.path # <<>> <=> paths # {}
           /\ paths # {} => \E q \in paths : PathCost(p.graph.edges, q, cost) = p.cost
           /\ \A q \in paths : p.cost =< PathCost(p.graph.edges, q, cost)

LEMMA LearnerPath ==
    ASSUME NEW g, NEW D, NEW profile \in [D -> Masteries], ComputeTopologicalOrder(g) # Failed, 0 \notin NodeSet(g),
           NEW source \in NodeSet(g), NEW target \in NodeSet(g), source # target, NEW S, NEW hours,
           Journey(g, source, target, profile).path \in Seq(S)
    PROVE  LET learner == [Unplanned.learner EXCEPT !.current = source, !.target = target]
           IN  Plan(g, learner, profile, 50, hours).path # <<>> <=> Journey(g, source, target, profile).path # <<>>
<1> DEFINE learner == [Unplanned.learner EXCEPT !.current = source, !.target = target]
           solved == Journey(g, source, target, profile)
           cut == FitBudget(Shorten(solved.path, 50), hours)
           l == Plan(g, learner, profile, 50, hours)
           none == <<>>
<1>1. /\ DOMAIN learner = {"path", "current", "target", "replan"}
      /\ learner.current = source /\ learner.target = target /\ learner.path = none
  <2> DEFINE base == [path |-> none, current |-> 0, target |-> 0, replan |-> TRUE]
  <2>1. Unplanned.learner = base
    BY DEF Unplanned
  <2>2. learner = [base EXCEPT !.current = source, !.target = target]
    BY <2>1
  <2> HIDE DEF none
  <2> QED
    BY <2>2
<1>2. g.nodes # <<>>
  BY DEF NodeSet, ToSet
<1>3. source \in DOMAIN MasteryMap(g, profile) /\ target # 0 /\ source # 0
  BY DEF MasteryMap
<1> HIDE DEF learner
<1>4. l = IF solved.path = <<>> THEN learner
          ELSE [learner EXCEPT !.path = cut, !.replan = FALSE, !.current = Head(cut)]
  BY <1>1, <1>2, <1>3 DEF Plan, Journey
<1> HIDE DEF solved, l
<1>5. CASE solved.path = <<>>
  BY <1>1, <1>4, <1>5 DEF solved, l, learner
<1>6. CASE solved.path # <<>>
  <2>1. Len(cut) \in 1 .. Len(solved.path) /\ 50 \in Nat \ {0}
    BY <1>6, CutIs DEF solved
  <2>2. cut # <<>>
    <3> HIDE DEF cut
    <3> QED
      BY <2>1
  <2> DEFINE h == Head(cut)
  <2>3. l = [learner EXCEPT !.path = cut, !.replan = FALSE, !.current = h]
    BY <1>4, <1>6
  <2> HIDE DEF cut, h
  <2>4. l.path = cut
    BY <1>1, <2>3
  <2> QED
    BY <1>6, <2>2, <2>4 DEF solved, l, learner
<1> QED
  BY <1>5, <1>6

LEMMA PlanMadeCheapest ==
    ASSUME CourseKept, NEW current, NEW target, NEW hours, RunPlanner(current, target, hours)
    PROVE  PlanIsCheapest(plan')
<1> DEFINE g == Export(remote)
           learner == [Unplanned.learner EXCEPT !.current = current, !.target = target]
           l == Plan(g, learner, mastery, 50, hours)
           solved == Journey(g, current, target, mastery)
           c == solved.cost
           paths == PathsFrom(g.edges, current, target)
           cost == Costs(g, mastery)
<1>1. plan' = [learner |-> l, graph |-> g, mastery |-> mastery, asked |-> <<current, target, hours>>, cost |-> c]
  BY DEF RunPlanner, Journey
<1>2. CourseOK /\ OfCourse(g) /\ IsGraph(g) /\ mastery \in [DOMAIN mastery -> Masteries]
  BY ExportedGraph DEF CourseKept
<1>3. 0 \notin NodeSet(g)
  BY <1>2, EdgeFacts
<1>4. ASSUME current # target, current \in NodeSet(g), target \in NodeSet(g), ComputeTopologicalOrder(g) # Failed
      PROVE  /\ l.path # <<>> <=> paths # {}
             /\ paths # {} => \E q \in paths : PathCost(g.edges, q, cost) = c
             /\ \A q \in paths : c =< PathCost(g.edges, q, cost)
  <2> DEFINE D == DOMAIN mastery
  <2>1. mastery \in [D -> Masteries]
    BY <1>2
  <2> HIDE DEF D, g
  <2>2. /\ solved.path \in Seq(NodeSet(g)) /\ (solved.path # <<>> <=> paths # {})
        /\ paths # {} => \E p \in paths : PathCost(g.edges, p, cost) = c
        /\ \A p \in paths : c =< PathCost(g.edges, p, cost)
    BY <1>2, <1>4, <2>1, JourneyIsCheapest
  <2>3. l.path # <<>> <=> solved.path # <<>>
    BY <1>3, <1>4, <2>1, <2>2, LearnerPath
  <2> QED
    BY <2>2, <2>3
<1> HIDE DEF g, l, c
<1>5. plan'.learner = l /\ plan'.graph = g /\ plan'.mastery = mastery /\ plan'.cost = c
      /\ plan'.asked[1] = current /\ plan'.asked[2] = target
  BY <1>1
<1> QED
  BY <1>4, <1>5 DEF PlanIsCheapest

CheapestKept == AnswerKept /\ (plan # Unplanned => PlanIsCheapest(plan))

LEMMA AnswerSteps ==
    ASSUME [Next]_vars
    PROVE  UNCHANGED answer \/ \E asked \in Contexts : FindPath(asked)
<1>1. CASE UNCHANGED vars
  BY <1>1 DEF vars
<1>2. ASSUME StartManager \/ StopManager \/ SeedCourse \/ RemoteFlips \/ CreatePathPlanner
      PROVE  UNCHANGED answer
  BY <1>2 DEF StartManager, StopManager, SeedCourse, RemoteFlips, CreatePathPlanner
<1>3. ASSUME NEW strategy, Build(strategy)
      PROVE  UNCHANGED answer
  BY <1>3 DEF Build
<1>4. ASSUME NEW e, AddEdge(e)
      PROVE  UNCHANGED answer
  BY <1>4 DEF AddEdge
<1>5. ASSUME NEW current, NEW target, NEW hours, RunPlanner(current, target, hours)
      PROVE  UNCHANGED answer
  BY <1>5 DEF RunPlanner
<1>6. ASSUME NEW v, Learn(v)
      PROVE  UNCHANGED answer
  BY <1>6 DEF Learn
<1> QED
  BY <1>1, <1>2, <1>3, <1>4, <1>5, <1>6 DEF Next

LEMMA CheapestKeptInit == Init => CheapestKept
<1> SUFFICES ASSUME Init PROVE CheapestKept
  OBVIOUS
<1>1. answer.result.source = 0 /\ plan = Unplanned
  BY DEF Init, NoAnswer, NoPath
<1> QED
  BY <1>1 DEF CheapestKept, AnswerKept, AnswerIsCheapest

LEMMA CheapestKeptNext == CourseKept /\ CheapestKept /\ [Next]_vars => CheapestKept'
<1> SUFFICES ASSUME CourseKept, CheapestKept, [Next]_vars PROVE CheapestKept'
  OBVIOUS
<1>1. AnswerKept'
  <2>1. CASE UNCHANGED answer
    BY <2>1 DEF CheapestKept, AnswerKept
  <2>2. CASE \E asked \in Contexts : FindPath(asked)
    BY <2>2, AnswerMade
  <2> QED
    BY <2>1, <2>2, AnswerSteps
<1>2. (plan # Unplanned => PlanIsCheapest(plan))'
  <2>1. CASE UNCHANGED plan
    BY <2>1 DEF CheapestKept
  <2>2. ASSUME NEW current, NEW target, NEW hours, RunPlanner(current, target, hours)
        PROVE  PlanIsCheapest(plan')
    BY <2>2, PlanMadeCheapest
  <2>3. ASSUME NEW v, Learn(v)
        PROVE  UNCHANGED plan
    BY <2>3 DEF Learn
  <2> QED
    BY <2>1, <2>2, <2>3, PlanSteps
<1> QED
  BY <1>1, <1>2 DEF CheapestKept

LEMMA KeptIsCheapest == CheapestKept => PlannedPathsAreCheapest
  BY DEF CheapestKept, AnswerKept, AnswerIsCheapest, Weights, PlanIsCheapest, Costs, PlannedPathsAreCheapest

(* No walk through the course is cheaper than the one a planner chose, and *)
(* a planner finds one whenever there is one.                              *)
THEOREM PlannedPathsStayCheapest == Spec => []PlannedPathsAreCheapest
<1>1. Spec => [](CourseKept /\ CheapestKept)
  BY CourseKeptInit, CourseKeptNext, CheapestKeptInit, CheapestKeptNext, PTL DEF Spec
<1> QED
  BY <1>1, KeptIsCheapest, PTL

-----------------------------------------------------------------------------
(* The reduction.  Edges as pairs, and what a search reaches. *)

PairsOf(edges) == {Pair(edges[i]) : i \in DOMAIN edges}

LEMMA TargetsOfPairs ==
    ASSUME NEW edges, NEW us
    PROVE  \A v : v \in Targets(edges, us) <=> \E u \in us : <<u, v>> \in PairsOf(edges)
<1>1. ASSUME NEW v, v \in Targets(edges, us)
      PROVE  \E u \in us : <<u, v>> \in PairsOf(edges)
  <2>1. PICK i \in DOMAIN edges : edges[i].src \in us /\ edges[i].tgt = v
    BY <1>1 DEF Targets
  <2> QED
    BY <2>1 DEF PairsOf, Pair
<1>2. ASSUME NEW v, NEW u \in us, <<u, v>> \in PairsOf(edges)
      PROVE  v \in Targets(edges, us)
  <2>1. PICK i \in DOMAIN edges : edges[i].src = u /\ edges[i].tgt = v
    BY <1>2 DEF PairsOf, Pair
  <2> QED
    BY <2>1 DEF Targets
<1> QED
  BY <1>1, <1>2

LEMMA SiftedPairs ==
    ASSUME NEW S, NEW edges \in Seq(S), NEW keep
    PROVE  /\ Sift(edges, keep) \in Seq(S)
           /\ PairsOf(Sift(edges, keep)) = {Pair(edges[i]) : i \in DOMAIN edges \cap keep}
           /\ \A p \in DOMAIN Sift(edges, keep) : \E i \in DOMAIN edges \cap keep : Sift(edges, keep)[p] = edges[i]
<1> DEFINE t == Sift(edges, keep)
<1>1. t \in Seq(S) /\ \E from : Picks(edges, keep, t, from)
  BY SiftPicks
<1> HIDE DEF t
<1>2. PICK from : Picks(edges, keep, t, from)
  BY <1>1
<1>3. DOMAIN t = 1 .. Len(t) /\ DOMAIN edges = 1 .. Len(edges)
  BY <1>1
<1>4. \A p \in DOMAIN t : \E i \in DOMAIN edges \cap keep : t[p] = edges[i]
  BY <1>2, <1>3 DEF Picks
<1>5. \A i \in DOMAIN edges \cap keep : \E p \in DOMAIN t : t[p] = edges[i]
  BY <1>2, <1>3 DEF Picks
<1>6. PairsOf(t) = {Pair(edges[i]) : i \in DOMAIN edges \cap keep}
  BY <1>4, <1>5 DEF PairsOf
<1> QED
  BY <1>1, <1>4, <1>6 DEF t

LEMMA DroppedPairs ==
    ASSUME NEW S, NEW edges \in Seq(S), NEW pairs
    PROVE  DropPairs(edges, pairs) \in Seq(S) /\ PairsOf(DropPairs(edges, pairs)) = PairsOf(edges) \ pairs
<1> DEFINE keep == {i \in DOMAIN edges : Pair(edges[i]) \notin pairs}
<1>1. DropPairs(edges, pairs) = Sift(edges, keep)
  BY DEF DropPairs
<1>2. {Pair(edges[i]) : i \in DOMAIN edges \cap keep} = PairsOf(edges) \ pairs
  BY DEF PairsOf
<1> HIDE DEF keep
<1> QED
  BY <1>1, <1>2, SiftedPairs

LEMMA AdjacentPairs ==
    ASSUME NEW S, NEW edges \in Seq(S)
    PROVE  /\ BuildAdjacency(edges) \in Seq(S) /\ PairsOf(BuildAdjacency(edges)) \subseteq PairsOf(edges)
           /\ \A pairs :
                  PairsOf(BuildAdjacency(DropPairs(edges, pairs))) \subseteq PairsOf(BuildAdjacency(edges)) \ pairs
<1> DEFINE keep(es) == {i \in DOMAIN es : es[i].kind \in AllowedTypes}
<1>1. \A es : BuildAdjacency(es) = Sift(es, keep(es))
  BY DEF BuildAdjacency
<1>2. \A es \in Seq(S) : /\ BuildAdjacency(es) \in Seq(S)
                         /\ PairsOf(BuildAdjacency(es)) = {Pair(es[i]) : i \in keep(es)}
  <2> TAKE es \in Seq(S)
  <2>1. DOMAIN es \cap keep(es) = keep(es)
    OBVIOUS
  <2> HIDE DEF keep
  <2> QED
    BY <1>1, <2>1, SiftedPairs
<1>3. {Pair(edges[i]) : i \in keep(edges)} \subseteq PairsOf(edges)
  BY DEF PairsOf
<1>4. ASSUME NEW pairs
      PROVE  PairsOf(BuildAdjacency(DropPairs(edges, pairs))) \subseteq PairsOf(BuildAdjacency(edges)) \ pairs
  <2> DEFINE rest == DropPairs(edges, pairs)
             I == {i \in DOMAIN edges : Pair(edges[i]) \notin pairs}
  <2>1. rest = Sift(edges, I)
    BY DEF DropPairs
  <2>2. rest \in Seq(S) /\ \A p \in DOMAIN rest : \E i \in DOMAIN edges \cap I : rest[p] = edges[i]
    <3> HIDE DEF I, rest
    <3> QED
      BY <2>1, SiftedPairs
  <2>3. \A p \in keep(rest) : \E i \in keep(edges) : Pair(rest[p]) = Pair(edges[i]) /\ Pair(edges[i]) \notin pairs
    <3> HIDE DEF rest
    <3> QED
      BY <2>2
  <2> HIDE DEF keep, rest
  <2> QED
    BY <1>2, <2>2, <2>3 DEF rest
<1> HIDE DEF keep
<1> QED
  BY <1>2, <1>3, <1>4

LEMMA EndsAreFinite ==
    ASSUME NEW S, NEW edges \in Seq(S)
    PROVE  IsFiniteSet(Ends(edges)) /\ Cardinality(Ends(edges)) \in Nat
<1> DEFINE D == DOMAIN edges
           X == {edges[i].src : i \in D}
           Y == {edges[i].tgt : i \in D}
<1>1. IsFiniteSet(D)
  <2>1. D = 1 .. Len(edges) /\ Len(edges) \in Nat
    OBVIOUS
  <2> QED
    BY <2>1, FS_Interval
<1>2. IsFiniteSet(X)
  <2> DEFINE f == [i \in D |-> edges[i].src]
  <2>1. f \in Surjection(D, X)
    BY DEF Surjection
  <2> HIDE DEF f, X
  <2> QED
    BY <1>1, <2>1, FS_Surjection
<1>3. IsFiniteSet(Y)
  <2> DEFINE f == [i \in D |-> edges[i].tgt]
  <2>1. f \in Surjection(D, Y)
    BY DEF Surjection
  <2> HIDE DEF f, Y
  <2> QED
    BY <1>1, <2>1, FS_Surjection
<1>4. Ends(edges) = X \union Y
  BY DEF Ends
<1> HIDE DEF X, Y
<1> QED
  BY <1>2, <1>3, <1>4, FS_Union, FS_CardinalityType

LEMMA TargetsAreEnds ==
    ASSUME NEW edges, NEW us
    PROVE  Targets(edges, us) \subseteq Ends(edges)
  BY DEF Targets, Ends

(* A search reaches the least set that has its first nodes and, of the nodes *)
(* it may enter, all those next to one it has.                              *)
Explores(edges, avoid, from, C) == from \subseteq C /\ Targets(edges, C) \ avoid \subseteq C

(* The search runs one layer for every node, the function of the layers exists. *)
Layers(edges, avoid, from, upto) ==
    LET n == Cardinality(Ends(edges))
    IN  /\ upto \in [0 .. n -> SUBSET Ends(edges)]
        /\ upto[0] = from
        /\ \A k \in 1 .. n : upto[k] = upto[k - 1] \union (Targets(edges, upto[k - 1]) \ avoid)

LEMMA SpreadRuns ==
    ASSUME NEW S, NEW edges \in Seq(S), NEW avoid, NEW from \in SUBSET Ends(edges)
    PROVE  \E upto : Layers(edges, avoid, from, upto) /\ Spread(edges, avoid, from) = upto[Cardinality(Ends(edges))]
<1> DEFINE n == Cardinality(Ends(edges))
           V == Ends(edges)
           next(us) == us \union (Targets(edges, us) \ avoid)
           Eq(h) == h = [k \in 0 .. n |-> IF k = 0 THEN from ELSE next(h[k - 1])]
           c == CHOOSE h : Eq(h)
           step == [x \in (0 .. n) \X SUBSET V |-> next(x[2])]
<1>1. n \in Nat
  BY EndsAreFinite
<1>2. \A us \in SUBSET V : next(us) \in SUBSET V
  BY TargetsAreEnds
<1>3. step \in [(0 .. n) \X SUBSET V -> SUBSET V]
  <2> HIDE DEF n, V, next
  <2> QED
    BY <1>2
<1>4. \A k \in 0 .. n : \A us \in SUBSET V : step[<<k, us>>] = next(us)
  OBVIOUS
<1>5. Spread(edges, avoid, from) = c[n]
  BY DEF Spread
<1> HIDE DEF step, n
<1>6. PICK g \in [0 .. n -> SUBSET V] : Unrolls(g, 0, n, from, step)
  <2>1. 0 \in Nat /\ 0 =< n /\ from \in SUBSET V
    BY <1>1
  <2> DEFINE T == SUBSET V
  <2>2. from \in T /\ step \in [(0 .. n) \X T -> T]
    BY <1>3
  <2> HIDE DEF T
  <2>3. \E f \in [0 .. n -> T] : Unrolls(f, 0, n, from, step)
    BY <1>1, <2>1, <2>2, Recursion
  <2> QED
    BY <2>3 DEF T
<1>7. Eq(g)
  <2>1. \A k \in 0 .. n : g[k] = IF k = 0 THEN from ELSE next(g[k - 1])
    <3> TAKE k \in 0 .. n
    <3>1. g[k] = IF k = 0 THEN from ELSE step[<<k, g[k - 1]>>]
      BY <1>6 DEF Unrolls
    <3>2. k # 0 => g[k - 1] \in SUBSET V
      BY <1>1, <1>6
    <3> HIDE DEF next
    <3> QED
      BY <1>4, <3>1, <3>2
  <2> HIDE DEF next
  <2> QED
    BY <1>6, <2>1
<1>8. Eq(c)
  <2> HIDE DEF Eq
  <2> QED
    BY <1>7
<1> HIDE DEF c
<1>9. \A k \in 0 .. n : c[k] = IF k = 0 THEN from ELSE next(c[k - 1])
  <2> HIDE DEF next
  <2> QED
    BY <1>8
<1>0. c[0] = from /\ 0 \in 0 .. n
  <2> HIDE DEF next, V
  <2>1. 0 \in 0 .. n
    BY <1>1
  <2> QED
    BY <1>9, <2>1
<1>10. \A k \in 0 .. n : c[k] \in SUBSET V
  <2> DEFINE P == {k \in 0 .. n : c[k] \in SUBSET V}
  <2>1. 0 \in P
    BY <1>0
  <2>2. \A k \in 0 .. n - 1 : k \in P => k + 1 \in P
    <3> TAKE k \in 0 .. n - 1
    <3>1. k \in 0 .. n /\ k + 1 \in 0 .. n /\ k + 1 # 0 /\ (k + 1) - 1 = k
      BY <1>1
    <3>2. c[k + 1] = next(c[k])
      BY <1>9, <3>1
    <3> HIDE DEF next
    <3> QED
      BY <1>2, <3>1, <3>2
  <2>3. 0 \in Nat
    OBVIOUS
  <2> HIDE DEF P
  <2>4. \A k \in 0 .. n : k \in P
    BY <1>1, <2>1, <2>2, <2>3, UpTo
  <2> QED
    BY <2>4 DEF P
<1>11. c \in [0 .. n -> SUBSET V]
  <2> HIDE DEF next
  <2> QED
    BY <1>8, <1>10
<1>12. Layers(edges, avoid, from, c)
  <2>1. c[0] = from
    BY <1>0
  <2>2. \A k \in 1 .. n : c[k] = next(c[k - 1])
    BY <1>1, <1>9
  <2> QED
    BY <1>11, <2>1, <2>2 DEF Layers, n
<1> QED
  BY <1>5, <1>12 DEF n

LEMMA SpreadIsLeast ==
    ASSUME NEW S, NEW edges \in Seq(S), NEW avoid, NEW from \in SUBSET Ends(edges),
           NEW C, Explores(edges, avoid, from, C)
    PROVE  Spread(edges, avoid, from) \subseteq C
<1> DEFINE n == Cardinality(Ends(edges))
<1>1. n \in Nat
  BY EndsAreFinite
<1>2. PICK upto : Layers(edges, avoid, from, upto) /\ Spread(edges, avoid, from) = upto[n]
  BY SpreadRuns
<1> DEFINE P == {k \in 0 .. n : upto[k] \subseteq C}
<1>3. 0 \in P
  BY <1>1, <1>2 DEF Layers, Explores
<1>4. \A k \in 0 .. n - 1 : k \in P => k + 1 \in P
  <2> TAKE k \in 0 .. n - 1
  <2> HAVE k \in P
  <2>1. k + 1 \in 1 .. n /\ k + 1 \in 0 .. n /\ (k + 1) - 1 = k
    BY <1>1
  <2>2. upto[k + 1] = upto[k] \union (Targets(edges, upto[k]) \ avoid)
    BY <1>2, <2>1 DEF Layers
  <2>3. Targets(edges, upto[k]) \subseteq Targets(edges, C)
    BY DEF Targets
  <2>4. upto[k + 1] \subseteq C
    BY <2>2, <2>3 DEF Explores
  <2> QED
    BY <2>1, <2>4
<1>5. 0 \in Nat
  OBVIOUS
<1> HIDE DEF P
<1>6. \A k \in 0 .. n : k \in P
  <2> HIDE DEF n
  <2> QED
    BY <1>1, <1>3, <1>4, <1>5, UpTo
<1>7. n \in 0 .. n
  BY <1>1
<1> QED
  BY <1>2, <1>6, <1>7 DEF P

LEMMA SpreadExplores ==
    ASSUME NEW S, NEW edges \in Seq(S), NEW avoid, NEW from \in SUBSET Ends(edges)
    PROVE  /\ Explores(edges, avoid, from, Spread(edges, avoid, from))
           /\ Spread(edges, avoid, from) \subseteq Ends(edges)
<1> DEFINE n == Cardinality(Ends(edges))
           V == Ends(edges)
<1>1. n \in Nat /\ IsFiniteSet(V)
  BY EndsAreFinite
<1>2. PICK upto : Layers(edges, avoid, from, upto) /\ Spread(edges, avoid, from) = upto[n]
  BY SpreadRuns
<1>3. /\ \A k \in 0 .. n : upto[k] \in SUBSET V
      /\ upto[0] = from
      /\ \A k \in 1 .. n : upto[k] = upto[k - 1] \union (Targets(edges, upto[k - 1]) \ avoid)
  BY <1>2 DEF Layers
<1>4. \A k \in 0 .. n : IsFiniteSet(upto[k]) /\ Cardinality(upto[k]) \in Nat /\ Cardinality(upto[k]) =< n
  <2> HIDE DEF V
  <2>1. \A us \in SUBSET V : IsFiniteSet(us) /\ Cardinality(us) \in Nat /\ Cardinality(us) =< Cardinality(V)
    BY <1>1, FS_Subset, FS_CardinalityType
  <2> QED
    BY <1>3, <2>1 DEF V
(* a layer is closed, or has a node more than the one before it *)
<1> DEFINE Closed(k) == Targets(edges, upto[k]) \ avoid \subseteq upto[k]
           P == {k \in 0 .. n : from \subseteq upto[k] /\ (Closed(k) \/ Cardinality(upto[k]) >= k)}
<1>5. 0 \in P
  BY <1>1, <1>3, <1>4
<1>6. \A k \in 0 .. n - 1 : k \in P => k + 1 \in P
  <2> TAKE k \in 0 .. n - 1
  <2> HAVE k \in P
  <2>1. k \in 0 .. n /\ k + 1 \in 1 .. n /\ k + 1 \in 0 .. n /\ (k + 1) - 1 = k
    BY <1>1
  <2>2. upto[k + 1] = upto[k] \union (Targets(edges, upto[k]) \ avoid)
    BY <1>3, <2>1
  <2>3. CASE Closed(k)
    <3>1. upto[k + 1] = upto[k]
      BY <2>2, <2>3
    <3> QED
      BY <2>1, <2>3, <3>1
  <2>4. CASE ~Closed(k)
    <3>1. Cardinality(upto[k]) >= k /\ from \subseteq upto[k]
      BY <2>4
    <3>2. upto[k] \subseteq upto[k + 1] /\ upto[k] # upto[k + 1]
      BY <2>2, <2>4
    <3>3. Cardinality(upto[k]) < Cardinality(upto[k + 1])
      BY <1>4, <2>1, <3>2, FS_Subset
    <3>4. Cardinality(upto[k + 1]) >= k + 1
      <4> DEFINE a == Cardinality(upto[k])
                 b == Cardinality(upto[k + 1])
      <4>1. a \in Nat /\ b \in Nat /\ a >= k /\ a < b
        BY <1>4, <2>1, <3>1, <3>3
      <4> HIDE DEF a, b
      <4>2. b >= k + 1
        BY <2>1, <4>1
      <4> QED
        BY <4>2 DEF b
    <3> QED
      BY <2>1, <3>1, <3>2, <3>4
  <2> QED
    BY <2>3, <2>4
<1>7. 0 \in Nat
  OBVIOUS
<1>8. n \in P
  <2>1. \A k \in 0 .. n : k \in P
    <3> HIDE DEF P, n
    <3> QED
      BY <1>1, <1>5, <1>6, <1>7, UpTo
  <2>2. n \in 0 .. n
    BY <1>1
  <2> HIDE DEF P
  <2> QED
    BY <2>1, <2>2
(* the last layer is closed: if it has n nodes it has all there are *)
<1>9. Closed(n)
  <2>1. CASE Cardinality(upto[n]) >= n
    <3>1. n \in 0 .. n
      BY <1>1
    <3>2. upto[n] \subseteq V /\ Cardinality(upto[n]) = Cardinality(V)
      BY <1>1, <1>3, <1>4, <2>1, <3>1
    <3>3. upto[n] = V
      BY <1>1, <3>2, FS_Subset
    <3> QED
      BY <3>3, TargetsAreEnds
  <2> QED
    BY <1>8, <2>1
<1>10. from \subseteq upto[n] /\ upto[n] \subseteq V
  BY <1>1, <1>3, <1>8
<1> QED
  BY <1>2, <1>9, <1>10 DEF Explores

(* Every edge is tried once or more, and nothing else is. *)
LEMMA EveryEdgeIsTried ==
    ASSUME NEW S, NEW edges \in Seq(S)
    PROVE  BySource(edges) \in Seq(S) /\ PairsOf(BySource(edges)) = PairsOf(edges)
<1> DEFINE F == {i \in DOMAIN edges : \A j \in 1 .. i - 1 : edges[j].src # edges[i].src}
           firsts == Sift(edges, F)
           n == Len(firsts)
           srcs == [k \in DOMAIN firsts |-> firsts[k].src]
           own(u) == {i \in DOMAIN edges : edges[i].src = u}
           parts == [k \in 1 .. n |-> Sift(edges, own(srcs[k]))]
           t == BySource(edges)
<1>1. firsts \in Seq(S) /\ \E from : Picks(edges, F, firsts, from)
  BY SiftPicks
<1> HIDE DEF F, firsts
<1>2. n \in Nat /\ DOMAIN firsts = 1 .. n /\ DOMAIN srcs = 1 .. n /\ DOMAIN edges = 1 .. Len(edges)
  BY <1>1
<1>3. t = FlattenSeq(parts)
  BY <1>2 DEF BySource, Sources, firsts, F
<1>4. \A u : Sift(edges, own(u)) \in Seq(S) /\ \E from : Picks(edges, own(u), Sift(edges, own(u)), from)
  <2> TAKE u
  <2> HIDE DEF own
  <2> QED
    BY SiftPicks
<1>5. parts \in [1 .. n -> Seq(S)] /\ \A k \in 1 .. n : parts[k] = Sift(edges, own(srcs[k]))
  <2> HIDE DEF own, n, srcs
  <2> QED
    BY <1>4
<1> HIDE DEF parts, t
<1>6. t \in Seq(S) /\ \E from, at : Origin(parts, n, t, from, at)
  <2> HIDE DEF n
  <2> QED
    BY <1>2, <1>3, <1>5, FlattenOrigin
<1>7. PICK from, at : Origin(parts, n, t, from, at)
  BY <1>6
<1>8. DOMAIN t = 1 .. Len(t)
  BY <1>6
<1>9. ASSUME NEW p \in DOMAIN t
      PROVE  Pair(t[p]) \in PairsOf(edges)
  <2> DEFINE k == from[p]
             m == at[p]
  <2>1. k \in 1 .. n /\ m \in 1 .. Len(parts[k]) /\ t[p] = parts[k][m]
    BY <1>7, <1>8 DEF Origin
  <2> HIDE DEF k, m
  <2>2. PICK f : Picks(edges, own(srcs[k]), parts[k], f)
    <3> HIDE DEF own, srcs
    <3> QED
      BY <1>4, <1>5, <2>1
  <2>3. f[m] \in DOMAIN edges /\ parts[k][m] = edges[f[m]]
    BY <1>2, <2>1, <2>2 DEF Picks
  <2> QED
    BY <2>1, <2>3 DEF PairsOf
<1>10. ASSUME NEW i \in DOMAIN edges
       PROVE  \E p \in DOMAIN t : t[p] = edges[i]
  <2> DEFINE u == edges[i].src
             I == own(u)
  <2>1. I \subseteq Nat /\ i \in I
    BY <1>2
  <2>2. PICK j \in I : \A l \in I : j =< l
    <3> HIDE DEF I
    <3> QED
      BY <2>1, FirstOf
  <2>3. j \in F /\ edges[j].src = u
    <3>1. ASSUME NEW l \in 1 .. j - 1
          PROVE  edges[l].src # u
      <4>1. l \in DOMAIN edges /\ l < j
        BY <1>2
      <4> QED
        BY <2>2, <4>1
    <3> QED
      BY <3>1 DEF F
  <2>4. PICK k \in 1 .. n : firsts[k] = edges[j]
    BY <1>1, <1>2, <2>3 DEF Picks
  <2>5. srcs[k] = u
    BY <1>2, <2>3, <2>4
  <2> HIDE DEF u
  <2>6. PICK f : Picks(edges, own(u), parts[k], f)
    <3> HIDE DEF own, srcs
    <3> QED
      BY <1>4, <1>5, <2>5
  <2>7. PICK m \in 1 .. Len(parts[k]) : parts[k][m] = edges[i]
    <3>1. i \in own(u) /\ i \in 1 .. Len(edges)
      BY <1>2 DEF u
    <3>2. PICK m \in 1 .. Len(parts[k]) : f[m] = i
      BY <2>6, <3>1 DEF Picks
    <3> QED
      BY <2>6, <3>2 DEF Picks
  <2>8. PICK p \in 1 .. Len(t) : from[p] = k /\ at[p] = m
    BY <1>7, <2>7 DEF Origin
  <2>9. t[p] = parts[k][m]
    BY <1>7, <2>8 DEF Origin
  <2> QED
    BY <1>8, <2>7, <2>9
<1> QED
  BY <1>6, <1>9, <1>10 DEF PairsOf, t

(* What the reduction has removed after each edge it tried. *)
Removals(edges, removed) ==
    LET order == BySource(edges)
    IN  /\ removed \in [0 .. Len(order) -> SUBSET PairsOf(edges)]
        /\ removed[0] = {}
        /\ \A k \in 1 .. Len(order) :
               removed[k] = IF HasAlternativePath(DropPairs(edges, removed[k - 1]), order[k])
                            THEN removed[k - 1] \union {Pair(order[k])}
                            ELSE removed[k - 1]

LEMMA ReductionRuns ==
    ASSUME NEW S, NEW edges \in Seq(S)
    PROVE  /\ Len(BySource(edges)) \in Nat
           /\ \E removed : Removals(edges, removed) /\ ReduceEdges(edges) = removed[Len(BySource(edges))]
<1> DEFINE order == BySource(edges)
           n == Len(order)
           P == PairsOf(edges)
           T == SUBSET P
           next(k, r) == IF HasAlternativePath(DropPairs(edges, r), order[k]) THEN r \union {Pair(order[k])} ELSE r
           Eq(h) == h = [k \in 0 .. n |-> IF k = 0 THEN {} ELSE next(k, h[k - 1])]
           c == CHOOSE h : Eq(h)
           turn(k, r) == IF k = 0 THEN {} ELSE next(k, r)
           step == [x \in (0 .. n) \X T |-> turn(x[1], x[2])]
<1>1. n \in Nat /\ \A k \in 1 .. n : Pair(order[k]) \in P
  <2>1. order \in Seq(S) /\ PairsOf(order) = P
    BY EveryEdgeIsTried
  <2> QED
    BY <2>1 DEF PairsOf
<1>2. ReduceEdges(edges) = c[n]
  BY DEF ReduceEdges
<1> HIDE DEF n, P
<1>3. \A k \in 1 .. n : \A r \in T : next(k, r) \in T
  BY <1>1
<1> HIDE DEF next
<1>4. \A k \in 0 .. n : \A r \in T : turn(k, r) \in T
  BY <1>1, <1>3
<1> HIDE DEF turn, T
<1>5. step \in [(0 .. n) \X T -> T] /\ \A k \in 0 .. n : \A r \in T : step[<<k, r>>] = turn(k, r)
  BY <1>4
<1> HIDE DEF step
<1>6. {} \in T /\ 0 \in Nat /\ 0 =< n
  BY <1>1 DEF T
<1>7. PICK g \in [0 .. n -> T] : Unrolls(g, 0, n, {}, step)
  <2> DEFINE b == {}
  <2>1. b \in T
    BY <1>6
  <2> HIDE DEF b
  <2>2. \E f \in [0 .. n -> T] : Unrolls(f, 0, n, b, step)
    BY <1>1, <1>5, <1>6, <2>1, Recursion
  <2> QED
    BY <2>2 DEF b
<1>8. Eq(g)
  <2>1. \A k \in 0 .. n : g[k] = IF k = 0 THEN {} ELSE next(k, g[k - 1])
    <3> TAKE k \in 0 .. n
    <3>1. g[k] = IF k = 0 THEN {} ELSE step[<<k, g[k - 1]>>]
      BY <1>7 DEF Unrolls
    <3>2. k # 0 => g[k - 1] \in T
      BY <1>1, <1>7
    <3> QED
      BY <1>5, <3>1, <3>2 DEF turn
  <2> QED
    BY <1>7, <2>1
<1>9. Eq(c)
  <2> HIDE DEF Eq
  <2> QED
    BY <1>8
<1> HIDE DEF c
<1>10. \A k \in 0 .. n : c[k] = IF k = 0 THEN {} ELSE next(k, c[k - 1])
  BY <1>9
<1>11. c[0] = {} /\ \A k \in 1 .. n : c[k] = next(k, c[k - 1])
  <2>1. 0 \in 0 .. n /\ \A k \in 1 .. n : k \in 0 .. n /\ k # 0
    BY <1>1
  <2>2. c[0] = {}
    BY <1>10, <2>1
  <2>3. \A k \in 1 .. n : c[k] = next(k, c[k - 1])
    BY <1>10, <2>1
  <2> QED
    BY <2>2, <2>3
<1>12. \A k \in 0 .. n : c[k] \in T
  <2> DEFINE Q == {k \in 0 .. n : c[k] \in T}
  <2>1. 0 \in Q
    <3>1. 0 \in 0 .. n
      BY <1>1
    <3>2. c[0] \in T
      BY <1>6, <1>11, Zenon
    <3> QED
      BY <3>1, <3>2
  <2>2. \A k \in 0 .. n - 1 : k \in Q => k + 1 \in Q
    <3> TAKE k \in 0 .. n - 1
    <3>1. k + 1 \in 0 .. n /\ k + 1 \in 1 .. n /\ (k + 1) - 1 = k
      BY <1>1
    <3>2. c[k + 1] = next(k + 1, c[k])
      BY <1>11, <3>1
    <3> QED
      BY <1>3, <3>1, <3>2 DEF T
  <2> HIDE DEF Q
  <2>3. \A k \in 0 .. n : k \in Q
    BY <1>1, <1>6, <2>1, <2>2, UpTo
  <2> QED
    BY <2>3 DEF Q
<1>13. c \in [0 .. n -> T]
  BY <1>9, <1>12
<1>14. Removals(edges, c)
  BY <1>11, <1>13 DEF Removals, n, next, T, P
<1> QED
  BY <1>1, <1>2, <1>14 DEF n

LEMMA NextTo ==
    ASSUME NEW edges, NEW u
    PROVE  \A v : v \in Targets(edges, {u}) <=> <<u, v>> \in PairsOf(edges)
<1> DEFINE us == {u}
<1> HIDE DEF us
<1>1. \A v : v \in Targets(edges, us) <=> \E x \in us : <<x, v>> \in PairsOf(edges)
  BY TargetsOfPairs
<1> QED
  BY <1>1 DEF us

(* An edge with a way around it adds nothing to what is reachable. *)
LEMMA DetourIsTaken ==
    ASSUME NEW S, NEW edges \in Seq(S), NEW adj \in Seq(S), NEW e, HasAlternativePath(adj, e),
           NEW less, PairsOf(adj) \ {Pair(e)} \subseteq PairsOf(less),
           NEW C, Targets(less, C) \subseteq C, Targets(less, {e.src}) \subseteq C
    PROVE  e.tgt \in C
<1> DEFINE u == e.src
           w == e.tgt
           from == Targets(adj, {u}) \ {u, w}
           D == C \ {u}
<1>1. w \in Spread(adj, {u}, from)
  BY DEF HasAlternativePath
<1>2. from \subseteq D
  <2> SUFFICES ASSUME NEW x \in from PROVE x \in D
    OBVIOUS
  <2>1. <<u, x>> \in PairsOf(adj) /\ x # u /\ x # w
    BY NextTo
  <2>2. <<u, x>> \in PairsOf(less)
    BY <2>1 DEF Pair
  <2>3. x \in Targets(less, {u})
    BY <2>2, NextTo
  <2> QED
    BY <2>1, <2>3
<1>3. Targets(adj, D) \ {u} \subseteq D
  <2> SUFFICES ASSUME NEW y \in Targets(adj, D), y # u PROVE y \in D
    OBVIOUS
  <2>1. PICK x \in D : <<x, y>> \in PairsOf(adj)
    BY TargetsOfPairs
  <2>2. <<x, y>> \in PairsOf(less)
    BY <2>1 DEF Pair
  <2>3. y \in Targets(less, C)
    BY <2>2, TargetsOfPairs
  <2> QED
    BY <2>3
<1>4. from \in SUBSET Ends(adj)
  BY TargetsAreEnds
<1> HIDE DEF u, w, from, D
<1>5. Spread(adj, {u}, from) \subseteq D
  BY <1>2, <1>3, <1>4, SpreadIsLeast DEF Explores
<1> QED
  BY <1>1, <1>5 DEF D, w

(* The nodes reachable from one are the least set that has its targets and *)
(* theirs.                                                                  *)
LEMMA ReachesIs ==
    ASSUME NEW S, NEW edges \in Seq(S), NEW u
    PROVE  LET R == Spread(edges, {}, Targets(edges, {u}))
           IN  /\ Targets(edges, {u}) \subseteq R /\ Targets(edges, R) \subseteq R
               /\ \A C : Targets(edges, {u}) \subseteq C /\ Targets(edges, C) \subseteq C => R \subseteq C
<1> DEFINE from == Targets(edges, {u})
           R == Spread(edges, {}, from)
<1>1. from \in SUBSET Ends(edges)
  BY TargetsAreEnds
<1> HIDE DEF from
<1>2. Explores(edges, {}, from, R)
  BY <1>1, SpreadExplores
<1>3. ASSUME NEW C, from \subseteq C, Targets(edges, C) \subseteq C
      PROVE  R \subseteq C
  <2>1. Explores(edges, {}, from, C)
    BY <1>3 DEF Explores
  <2> QED
    BY <1>1, <2>1, SpreadIsLeast
<1> HIDE DEF R
<1>4. from \subseteq R /\ Targets(edges, R) \subseteq R
  BY <1>2 DEF Explores
<1> QED
  BY <1>3, <1>4 DEF R, from

LEMMA MoreEdgesReachMore ==
    ASSUME NEW S, NEW less \in Seq(S), NEW edges \in Seq(S), PairsOf(less) \subseteq PairsOf(edges),
           NEW u, NEW v, Reaches(less, u, v)
    PROVE  Reaches(edges, u, v)
<1> DEFINE R == Spread(edges, {}, Targets(edges, {u}))
<1>1. \A us : Targets(less, us) \subseteq Targets(edges, us)
  BY TargetsOfPairs
<1>2. Targets(edges, {u}) \subseteq R /\ Targets(edges, R) \subseteq R
  BY ReachesIs
<1> HIDE DEF R
<1>3. Targets(less, {u}) \subseteq R /\ Targets(less, R) \subseteq R
  BY <1>1, <1>2
<1>4. Spread(less, {}, Targets(less, {u})) \subseteq R
  BY <1>3, ReachesIs
<1> QED
  BY <1>4 DEF Reaches, R

LEMMA DetourKeepsReach ==
    ASSUME NEW S, NEW edges \in Seq(S), NEW adj \in Seq(S), NEW e, HasAlternativePath(adj, e),
           NEW less \in Seq(S), PairsOf(adj) \ {Pair(e)} \subseteq PairsOf(less),
           PairsOf(edges) \ {Pair(e)} \subseteq PairsOf(less),
           NEW u, NEW v, Reaches(edges, u, v)
    PROVE  Reaches(less, u, v)
<1> DEFINE R == Spread(less, {}, Targets(less, {u}))
<1>1. Targets(less, {u}) \subseteq R /\ Targets(less, R) \subseteq R
  BY ReachesIs
<1> HIDE DEF R
<1>2. Targets(less, {e.src}) \subseteq R => e.tgt \in R
  BY <1>1, DetourIsTaken
<1>3. ASSUME NEW a, NEW b, <<a, b>> \in PairsOf(edges), Targets(less, {a}) \subseteq R
      PROVE  b \in R
  <2>1. CASE <<a, b>> = Pair(e)
    <3>1. a = e.src /\ b = e.tgt
      BY <2>1 DEF Pair
    <3> QED
      BY <1>2, <1>3, <3>1
  <2>2. CASE <<a, b>> # Pair(e)
    <3>1. <<a, b>> \in PairsOf(less)
      BY <1>3, <2>2
    <3>2. b \in Targets(less, {a})
      BY <3>1, NextTo
    <3> QED
      BY <1>3, <3>2
  <2> QED
    BY <2>1, <2>2
<1>4. \A a \in R : Targets(less, {a}) \subseteq R
  BY <1>1 DEF Targets
<1>5. Targets(edges, {u}) \subseteq R
  BY <1>1, <1>3, NextTo
<1>6. Targets(edges, R) \subseteq R
  <2> SUFFICES ASSUME NEW b \in Targets(edges, R) PROVE b \in R
    OBVIOUS
  <2>1. PICK a \in R : <<a, b>> \in PairsOf(edges)
    BY TargetsOfPairs
  <2> QED
    BY <1>3, <1>4, <2>1
<1>7. Spread(edges, {}, Targets(edges, {u})) \subseteq R
  BY <1>5, <1>6, ReachesIs
<1> QED
  BY <1>7 DEF Reaches, R

(* A search that finds no way around an edge is right, and stays right when *)
(* more edges are gone.                                                      *)
LEMMA NoDetourNoReach ==
    ASSUME NEW S, NEW adj \in Seq(S), NEW e, ~HasAlternativePath(adj, e), e.src # e.tgt,
           NEW less \in Seq(S), PairsOf(less) \subseteq PairsOf(adj) \ {Pair(e)}
    PROVE  ~Reaches(less, e.src, e.tgt)
<1> DEFINE u == e.src
           w == e.tgt
           from == Targets(adj, {u}) \ {u, w}
           X == Spread(adj, {u}, from)
           C == X \union {u}
<1>1. w \notin X
  BY DEF HasAlternativePath
<1>2. from \in SUBSET Ends(adj)
  BY TargetsAreEnds
<1>3. Targets(less, {u}) \subseteq from \union {u}
  <2> SUFFICES ASSUME NEW x \in Targets(less, {u}) PROVE x \in from \union {u}
    OBVIOUS
  <2>1. <<u, x>> \in PairsOf(less)
    BY NextTo
  <2>2. <<u, x>> \in PairsOf(adj) /\ x # w
    BY <2>1 DEF Pair
  <2>3. x \in Targets(adj, {u})
    BY <2>2, NextTo
  <2> QED
    BY <2>2, <2>3
<1> HIDE DEF from
<1>4. Explores(adj, {u}, from, X)
  BY <1>2, SpreadExplores
<1> HIDE DEF X
<1>5. Targets(less, {u}) \subseteq C
  BY <1>3, <1>4 DEF Explores
<1>6. Targets(less, C) \subseteq C
  <2> SUFFICES ASSUME NEW y \in Targets(less, C), y # u PROVE y \in C
    OBVIOUS
  <2>1. PICK x \in C : <<x, y>> \in PairsOf(less)
    BY TargetsOfPairs
  <2>2. CASE x = u
    BY <1>5, <2>1, <2>2, NextTo
  <2>3. CASE x # u
    <3>1. x \in X /\ <<x, y>> \in PairsOf(adj)
      BY <2>1, <2>3
    <3>2. y \in Targets(adj, X)
      BY <3>1, TargetsOfPairs
    <3> QED
      BY <1>4, <3>2 DEF Explores
  <2> QED
    BY <2>2, <2>3
<1>7. w \notin C
  BY <1>1
<1> HIDE DEF C
<1>8. Spread(less, {}, Targets(less, {u})) \subseteq C
  BY <1>5, <1>6, ReachesIs
<1> QED
  BY <1>7, <1>8 DEF Reaches

(* The steps of the reduction: what is reachable never changes, and an edge *)
(* that was tried and stays had no way around it.                           *)
LEMMA ReductionIsSound ==
    ASSUME NEW S, NEW clean \in Seq(S)
    PROVE  LET final == DropPairs(clean, ReduceEdges(BuildAdjacency(clean)))
               left == BuildAdjacency(final)
           IN  /\ \A u, v : Reaches(final, u, v) <=> Reaches(clean, u, v)
               /\ \A i \in DOMAIN left :
                      left[i].src # left[i].tgt =>
                          ~Reaches(DropPairs(left, {Pair(left[i])}), left[i].src, left[i].tgt)
<1> DEFINE adj == BuildAdjacency(clean)
           order == BySource(adj)
           n == Len(order)
           final == DropPairs(clean, ReduceEdges(adj))
           left == BuildAdjacency(final)
<1>1. adj \in Seq(S) /\ PairsOf(adj) \subseteq PairsOf(clean)
  BY AdjacentPairs
<1>2. left \in Seq(S) /\ PairsOf(left) \subseteq PairsOf(adj) \ ReduceEdges(adj)
  <2>1. final \in Seq(S)
    BY DroppedPairs
  <2>2. PairsOf(left) \subseteq PairsOf(adj) \ ReduceEdges(adj)
    BY AdjacentPairs
  <2> HIDE DEF final
  <2> QED
    BY <2>1, <2>2, AdjacentPairs
<1> HIDE DEF adj, left
<1>3. n \in Nat /\ PairsOf(order) = PairsOf(adj) /\ DOMAIN order = 1 .. n
  <2>1. order \in Seq(S) /\ PairsOf(order) = PairsOf(adj)
    BY <1>1, EveryEdgeIsTried
  <2> HIDE DEF order
  <2> QED
    BY <2>1
<1>4. PICK removed : Removals(adj, removed) /\ ReduceEdges(adj) = removed[n]
  BY <1>1, ReductionRuns
<1>5. /\ \A k \in 0 .. n : removed[k] \in SUBSET PairsOf(adj)
      /\ removed[0] = {}
      /\ \A k \in 1 .. n : removed[k] = IF HasAlternativePath(DropPairs(adj, removed[k - 1]), order[k])
                                        THEN removed[k - 1] \union {Pair(order[k])}
                                        ELSE removed[k - 1]
  BY <1>4 DEF Removals
<1> HIDE DEF order, n
<1>6. \A pairs : /\ DropPairs(clean, pairs) \in Seq(S) /\ PairsOf(DropPairs(clean, pairs)) = PairsOf(clean) \ pairs
                 /\ DropPairs(adj, pairs) \in Seq(S) /\ PairsOf(DropPairs(adj, pairs)) = PairsOf(adj) \ pairs
  BY <1>1, DroppedPairs
(* what is reachable *)
<1>7. \A u, v : Reaches(clean, u, v) => Reaches(final, u, v)
  <2> SUFFICES ASSUME NEW u, NEW v, Reaches(clean, u, v) PROVE Reaches(final, u, v)
    OBVIOUS
  <2> DEFINE rest(k) == DropPairs(clean, removed[k])
             P == {k \in 0 .. n : Reaches(rest(k), u, v)}
  <2>1. 0 \in P
    <3>1. PairsOf(clean) \subseteq PairsOf(rest(0)) /\ rest(0) \in Seq(S)
      BY <1>5, <1>6
    <3> HIDE DEF rest
    <3>2. Reaches(rest(0), u, v)
      BY <3>1, MoreEdgesReachMore
    <3> QED
      BY <1>3, <3>2
  <2>2. \A k \in 0 .. n - 1 : k \in P => k + 1 \in P
    <3> TAKE k \in 0 .. n - 1
    <3> HAVE k \in P
    <3> DEFINE e == order[k + 1]
               tried == DropPairs(adj, removed[k])
    <3>1. k \in 0 .. n /\ k + 1 \in 0 .. n /\ k + 1 \in 1 .. n /\ (k + 1) - 1 = k
      BY <1>3
    <3>2. removed[k + 1] = IF HasAlternativePath(tried, e) THEN removed[k] \union {Pair(e)} ELSE removed[k]
      BY <1>5, <3>1
    <3>3. CASE ~HasAlternativePath(tried, e)
      BY <3>1, <3>2, <3>3
    <3>4. CASE HasAlternativePath(tried, e)
      <4>1. rest(k) \in Seq(S) /\ rest(k + 1) \in Seq(S) /\ tried \in Seq(S)
        BY <1>6
      <4>2. PairsOf(rest(k)) \ {Pair(e)} \subseteq PairsOf(rest(k + 1))
        BY <1>6, <3>2, <3>4
      <4>3. PairsOf(tried) \ {Pair(e)} \subseteq PairsOf(rest(k + 1))
        BY <1>1, <1>6, <3>2, <3>4
      <4>4. Reaches(rest(k), u, v)
        OBVIOUS
      <4> DEFINE more == rest(k)
                 less == rest(k + 1)
      <4>5. /\ more \in Seq(S) /\ less \in Seq(S) /\ PairsOf(more) \ {Pair(e)} \subseteq PairsOf(less)
            /\ PairsOf(tried) \ {Pair(e)} \subseteq PairsOf(less) /\ Reaches(more, u, v)
        BY <4>1, <4>2, <4>3, <4>4
      <4> HIDE DEF rest, e, tried, more, less, P
      <4>6. Reaches(less, u, v)
        BY <3>4, <4>1, <4>5, DetourKeepsReach
      <4> QED
        BY <3>1, <4>6 DEF less, P
    <3> QED
      BY <3>3, <3>4
  <2> HIDE DEF P
  <2>3. \A k \in 0 .. n : k \in P
    <3>1. 0 \in Nat
      OBVIOUS
    <3> QED
      BY <1>3, <2>1, <2>2, <3>1, UpTo
  <2>4. n \in 0 .. n
    BY <1>3
  <2> QED
    BY <1>4, <2>3, <2>4 DEF P
<1>8. \A u, v : Reaches(final, u, v) => Reaches(clean, u, v)
  <2>1. final \in Seq(S) /\ PairsOf(final) \subseteq PairsOf(clean)
    BY <1>6
  <2> HIDE DEF final
  <2> QED
    BY <2>1, MoreEdgesReachMore
(* no way around what is left *)
<1>9. \A k \in 0 .. n : removed[k] \subseteq removed[n]
  <2> DEFINE P == {j \in 0 .. n : removed[n - j] \subseteq removed[n]}
  <2>1. 0 \in P
    BY <1>3
  <2>2. \A j \in 0 .. n - 1 : j \in P => j + 1 \in P
    <3> TAKE j \in 0 .. n - 1
    <3> HAVE j \in P
    <3>1. n - j \in 1 .. n /\ (n - j) - 1 = n - (j + 1) /\ j + 1 \in 0 .. n
      BY <1>3
    <3>2. removed[(n - j) - 1] \subseteq removed[n - j]
      BY <1>5, <3>1
    <3> QED
      BY <3>1, <3>2
  <2>3. 0 \in Nat
    OBVIOUS
  <2> HIDE DEF P
  <2>4. \A j \in 0 .. n : j \in P
    BY <1>3, <2>1, <2>2, <2>3, UpTo
  <2>5. \A k \in 0 .. n : n - k \in 0 .. n /\ n - (n - k) = k
    BY <1>3
  <2> QED
    BY <2>4, <2>5 DEF P
<1>10. ASSUME NEW i \in DOMAIN left, left[i].src # left[i].tgt
       PROVE  ~Reaches(DropPairs(left, {Pair(left[i])}), left[i].src, left[i].tgt)
  <2> DEFINE p == Pair(left[i])
  <2>1. p \in PairsOf(adj) /\ p \notin removed[n]
    BY <1>2, <1>4 DEF PairsOf
  <2>2. PICK k \in 1 .. n : Pair(order[k]) = p
    BY <1>3, <2>1 DEF PairsOf
  <2> DEFINE e == order[k]
             tried == DropPairs(adj, removed[k - 1])
             less == DropPairs(left, {p})
  <2>3. e.src = left[i].src /\ e.tgt = left[i].tgt
    BY <2>2 DEF Pair
  <2>4. k \in 0 .. n /\ k - 1 \in 0 .. n
    BY <1>3
  <2>5. removed[k] \subseteq removed[n] /\ removed[k - 1] \subseteq removed[n]
    BY <1>9, <2>4
  <2>6. ~HasAlternativePath(tried, e)
    <3>1. p \notin removed[k]
      BY <2>1, <2>5
    <3> QED
      BY <1>5, <2>2, <3>1
  <2>7. less \in Seq(S) /\ PairsOf(less) = PairsOf(left) \ {p}
    BY <1>2, DroppedPairs
  <2>8. tried \in Seq(S) /\ PairsOf(tried) = PairsOf(adj) \ removed[k - 1]
    BY <1>6
  <2>9. PairsOf(less) \subseteq PairsOf(tried) \ {Pair(e)}
    BY <1>2, <1>4, <2>2, <2>5, <2>7, <2>8
  <2> HIDE DEF less, tried, e, p
  <2>10. ~Reaches(less, e.src, e.tgt)
    BY <1>10, <2>3, <2>6, <2>7, <2>8, <2>9, NoDetourNoReach
  <2> QED
    BY <2>3, <2>10 DEF less, p
<1> QED
  BY <1>7, <1>8, <1>10 DEF left, adj

(* A report is about the course it was made of. *)
ReportKept == report # NoReport => report.build = BuildGraph(course.edges, report.strategy)

LEMMA OnlyBuildReports == [Next]_vars => UNCHANGED report \/ \E strategy : Build(strategy)
<1> SUFFICES ASSUME [Next]_vars, ~\E strategy : Build(strategy) PROVE UNCHANGED report
  OBVIOUS
<1>1. CASE StartManager
  BY <1>1 DEF StartManager
<1>2. CASE StopManager
  BY <1>2 DEF StopManager
<1>3. CASE SeedCourse
  BY <1>3 DEF SeedCourse
<1>4. CASE RemoteFlips
  BY <1>4 DEF RemoteFlips
<1>5. CASE CreatePathPlanner
  BY <1>5 DEF CreatePathPlanner
<1>6. ASSUME NEW e, AddEdge(e)
      PROVE  UNCHANGED report
  BY <1>6 DEF AddEdge
<1>7. ASSUME NEW asked, FindPath(asked)
      PROVE  UNCHANGED report
  BY <1>7 DEF FindPath
<1>8. ASSUME NEW current, NEW target, NEW hours, RunPlanner(current, target, hours)
      PROVE  UNCHANGED report
  BY <1>8 DEF RunPlanner
<1>9. ASSUME NEW v, Learn(v)
      PROVE  UNCHANGED report
  BY <1>9 DEF Learn
<1>10. CASE UNCHANGED vars
  BY <1>10 DEF vars
<1> QED
  BY <1>1, <1>2, <1>3, <1>4, <1>5, <1>6, <1>7, <1>8, <1>9, <1>10 DEF Next

LEMMA ReportKeptNext == ReportKept /\ [Next]_vars => ReportKept'
<1> SUFFICES ASSUME ReportKept, [Next]_vars PROVE ReportKept'
  OBVIOUS
<1>1. course' = course
  BY CourseStays
<1>2. CASE UNCHANGED report
  BY <1>1, <1>2 DEF ReportKept
<1>3. ASSUME NEW strategy, Build(strategy)
      PROVE  ReportKept'
  <2>1. \/ report' = [strategy |-> strategy, build |-> BuildGraph(course.edges, strategy)]
        \/ report' = report
    BY <1>3 DEF Build
  <2> QED
    BY <1>1, <2>1 DEF ReportKept
<1>4. UNCHANGED report \/ \E strategy : Build(strategy)
  BY OnlyBuildReports
<1> QED
  BY <1>2, <1>3, <1>4

LEMMA ReportIsKept == Spec => []ReportKept
<1>1. Init => ReportKept
  BY DEF Init, ReportKept
<1> QED
  BY <1>1, ReportKeptNext, PTL DEF Spec

LEMMA KeptReportIsExact == CourseKept /\ ReportKept => ReductionIsExact
<1> SUFFICES ASSUME CourseKept, ReportKept, report # NoReport
             PROVE  LET b == report.build
                        left == BuildAdjacency(b.final)
                    IN  /\ \A u, v \in ToSet(course.nodes) : Reaches(b.final, u, v) <=> Reaches(b.clean, u, v)
                        /\ \A i \in DOMAIN left :
                               left[i].src # left[i].tgt =>
                                   ~Reaches(DropPairs(left, {Pair(left[i])}), left[i].src, left[i].tgt)
  BY DEF ReductionIsExact
<1> DEFINE b == report.build
<1>1. b = BuildGraph(course.edges, report.strategy)
  BY DEF ReportKept
<1>2. course.edges \in Seq(ToSet(course.edges))
  BY CourseFacts DEF CourseKept
<1>3. \A pairs : DropPairs(course.edges, pairs) \in Seq(ToSet(course.edges))
  BY <1>2, DroppedPairs
<1>4. b.clean \in Seq(ToSet(course.edges)) /\ b.final = DropPairs(b.clean, ReduceEdges(BuildAdjacency(b.clean)))
  BY <1>1, <1>3 DEF BuildGraph
<1> HIDE DEF b
<1>5. /\ \A u, v : Reaches(b.final, u, v) <=> Reaches(b.clean, u, v)
      /\ \A i \in DOMAIN BuildAdjacency(b.final) :
             BuildAdjacency(b.final)[i].src # BuildAdjacency(b.final)[i].tgt =>
                 ~Reaches(DropPairs(BuildAdjacency(b.final), {Pair(BuildAdjacency(b.final)[i])}),
                          BuildAdjacency(b.final)[i].src, BuildAdjacency(b.final)[i].tgt)
  BY <1>4, ReductionIsSound
<1> QED
  BY <1>5 DEF b

(* The reduction of an imported graph loses nothing that was reachable and  *)
(* leaves no edge of the kinds it looks at that has a way around it, whether *)
(* or not the graph is free of cycles.                                       *)
THEOREM ReductionStaysExact == Spec => []ReductionIsExact
  BY CourseIsKept, ReportIsKept, KeptReportIsExact, PTL
=============================================================================
