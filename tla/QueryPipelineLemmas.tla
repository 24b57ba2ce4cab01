------------------------ MODULE QueryPipelineLemmas ------------------------
(***************************************************************************)
(* What the proofs about QueryPipeline need: of numbers and sequences, of  *)
(* what the operators of ExternalFilters do to a body, and of the joins of *)
(* RelationshipGraph, whose search is shown to find the shortest walks.    *)
(***************************************************************************)
EXTENDS ExternalFilters, RelationshipGraph, FiniteSetTheorems, TLAPS

\* Every set of numbers that is not empty has a least one.
LEMMA LeastElement ==
  ASSUME NEW S \in SUBSET Nat, S # {}
  PROVE  \E n \in S : \A m \in S : n <= m
<1> DEFINE Below == {0 .. n - 1 : n \in S}
           R == StrictSubsetOrdering(Nat)
<1>1. Below \subseteq FiniteSubsetsOf(Nat) /\ Below # {}
  <2>1. \A n \in Nat : IsFiniteSet(0 .. n - 1) /\ 0 .. n - 1 \subseteq Nat
    BY FS_Interval
  <2> QED
    BY <2>1 DEF FiniteSubsetsOf
<1>2. \A m, n \in Nat : m < n => <<0 .. m - 1, 0 .. n - 1>> \in R
  <2> SUFFICES ASSUME NEW m \in Nat, NEW n \in Nat, m < n
               PROVE  <<0 .. m - 1, 0 .. n - 1>> \in R
    OBVIOUS
  <2>1. 0 .. m - 1 \subseteq 0 .. n - 1 /\ 0 .. n - 1 \subseteq Nat
    OBVIOUS
  <2>2. m \in 0 .. n - 1 /\ m \notin 0 .. m - 1
    OBVIOUS
  <2> QED
    BY <2>1, <2>2 DEF StrictSubsetOrdering
<1>3. \E x \in Below : \A y \in Below : ~(<<y, x>> \in R)
  <2> HIDE DEF Below, R
  <2>1. IsWellFoundedOn(R, FiniteSubsetsOf(Nat))
    BY FS_StrictSubsetOrderingWellFounded DEF R
  <2> QED
    BY <1>1, <2>1, WFMin
<1>4. PICK n \in S : \A y \in Below : ~(<<y, 0 .. n - 1>> \in R)
  BY <1>3
<1>5. \A m \in S : ~(<<0 .. m - 1, 0 .. n - 1>> \in R)
  BY <1>4
<1>6. \A m \in S : ~(m < n)
  <2> HIDE DEF R, Below
  <2> QED
    BY <1>2, <1>5
<1> QED
  BY <1>6

LEMMA GreatestElement ==
  ASSUME NEW n \in Nat, NEW S \in SUBSET (1 .. n), S # {}
  PROVE  \E i \in S : \A j \in S : j <= i
<1> DEFINE Left == {n - i : i \in S}
<1>1. Left \in SUBSET Nat /\ Left # {}
  <2>1. \A i \in S : i \in Nat /\ n - i \in Nat
    OBVIOUS
  <2> QED
    BY <2>1
<1>2. PICK m \in Left : \A l \in Left : m <= l
  <2> HIDE DEF Left
  <2> QED
    BY <1>1, LeastElement
<1>3. PICK i \in S : m = n - i
  BY <1>2
<1>4. ASSUME NEW j \in S PROVE j <= i
  <2>1. n - j \in Left
    OBVIOUS
  <2>2. m <= n - j
    BY <1>2, <2>1
  <2> QED
    BY <1>3, <2>2
<1> QED
  BY <1>4

\* Induction: a set with 0 and with the successor of each of its numbers has all.
LEMMA SetInduction ==
  ASSUME NEW S, 0 \in S, \A n \in Nat : n \in S => n + 1 \in S
  PROVE  Nat \subseteq S
<1> SUFFICES ASSUME Nat \ S # {} PROVE FALSE
  OBVIOUS
<1>1. PICK n \in Nat \ S : \A m \in Nat \ S : n <= m
  BY LeastElement
<1>2. n - 1 \in Nat /\ n - 1 \in S
  BY <1>1
<1> QED
  BY <1>1, <1>2

\* A set of numbers that has all the smaller positive ones of each is an interval.
LEMMA InitialSegment ==
  ASSUME NEW n \in Nat, NEW S \in SUBSET (1 .. n),
         \A i \in S : 1 .. i \subseteq S
  PROVE  \E k \in 0 .. n : S = 1 .. k /\ Cardinality(S) = k
<1>1. PICK k \in 0 .. n : S = 1 .. k
  <2> DEFINE Out == {i \in Nat : i > 0 /\ i \notin S}
  <2>1. n + 1 \in Out
    OBVIOUS
  <2>2. PICK o \in Out : \A i \in Out : o <= i
    <3> HIDE DEF Out
    <3>1. Out \in SUBSET Nat
      BY DEF Out
    <3> QED
      BY <2>1, <3>1, LeastElement
  <2>3. o - 1 \in 0 .. n
    BY <2>1, <2>2
  <2>4. \A i \in 1 .. o - 1 : i \in S
    <3> SUFFICES ASSUME NEW i \in 1 .. o - 1, i \notin S PROVE FALSE
      OBVIOUS
    <3>1. i \in Out /\ i < o
      BY <2>2
    <3> QED
      BY <2>2, <3>1
  <2>5. \A i \in S : i < o
    <3> SUFFICES ASSUME NEW i \in S, o <= i PROVE FALSE
      BY <2>2
    <3>1. o \in 1 .. i
      BY <2>2
    <3> QED
      BY <2>2, <3>1
  <2>6. S = 1 .. o - 1
    <3>1. \A i \in S : i \in 1 .. o - 1
      BY <2>2, <2>5
    <3> QED
      BY <2>4, <3>1
  <2> QED
    BY <2>3, <2>6
<1>2. Cardinality(1 .. k) = k
  BY FS_Interval
<1> QED
  BY <1>1, <1>2

\* Different elements of 1 .. n: there are no more than n.
LEMMA NoMoreThan ==
  ASSUME NEW m \in Nat, NEW n \in Nat, NEW f \in [1 .. m -> 1 .. n],
         \A i, j \in 1 .. m : f[i] = f[j] => i = j
  PROVE  m <= n
<1>1. IsFiniteSet(1 .. m) /\ IsFiniteSet(1 .. n) /\ Cardinality(1 .. m) = m /\ Cardinality(1 .. n) = n
  BY FS_Interval
<1> SUFFICES ASSUME n < m PROVE FALSE
  OBVIOUS
<1>2. \E i, j \in 1 .. m : i # j /\ f[i] = f[j]
  BY <1>1, FS_PigeonHole
<1> QED
  BY <1>2

-----------------------------------------------------------------------------
(* Sequences. *)

LEMMA Joined ==
  ASSUME NEW S, NEW s \in Seq(S), NEW t \in Seq(S)
  PROVE  /\ s \o t \in Seq(S) /\ Len(s \o t) = Len(s) + Len(t)
         /\ \A i \in 1 .. Len(s) : (s \o t)[i] = s[i]
         /\ \A i \in 1 .. Len(t) : (s \o t)[Len(s) + i] = t[i]
<1>1. s \o t \in Seq(S)
  OBVIOUS
<1>2. Len(s \o t) = Len(s) + Len(t)
  OBVIOUS
<1>3. \A i \in 1 .. Len(s) : (s \o t)[i] = s[i]
  OBVIOUS
<1>4. \A i \in 1 .. Len(t) : (s \o t)[Len(s) + i] = t[i]
  OBVIOUS
<1> QED
  BY <1>1, <1>2, <1>3, <1>4

LEMMA JoinedThree ==
  ASSUME NEW S, NEW a \in Seq(S), NEW b \in Seq(S), NEW c \in Seq(S)
  PROVE  /\ (a \o b) \o c \in Seq(S) /\ Len((a \o b) \o c) = (Len(a) + Len(b)) + Len(c)
         /\ \A i \in 1 .. Len(a) : ((a \o b) \o c)[i] = a[i]
         /\ \A i \in 1 .. Len(b) : ((a \o b) \o c)[Len(a) + i] = b[i]
         /\ \A i \in 1 .. Len(c) : ((a \o b) \o c)[(Len(a) + Len(b)) + i] = c[i]
<1> DEFINE ab == a \o b
<1>0. Len(a) \in Nat /\ Len(b) \in Nat /\ Len(c) \in Nat
  OBVIOUS
<1>1. ab \in Seq(S)
  BY Joined
<1>2. /\ Len(ab) = Len(a) + Len(b)
      /\ \A i \in 1 .. Len(a) : ab[i] = a[i]
      /\ \A i \in 1 .. Len(b) : ab[Len(a) + i] = b[i]
  BY Joined
<1> HIDE DEF ab
<1>3. /\ ab \o c \in Seq(S) /\ Len(ab \o c) = Len(ab) + Len(c)
      /\ \A i \in 1 .. Len(ab) : (ab \o c)[i] = ab[i]
      /\ \A i \in 1 .. Len(c) : (ab \o c)[Len(ab) + i] = c[i]
  BY <1>1, Joined
<1> DEFINE abc == ab \o c
<1>4. /\ abc \in Seq(S) /\ Len(abc) = Len(ab) + Len(c)
      /\ \A i \in 1 .. Len(ab) : abc[i] = ab[i]
      /\ \A i \in 1 .. Len(c) : abc[Len(ab) + i] = c[i]
  BY <1>3
<1> HIDE DEF abc
<1>5. ASSUME NEW i \in 1 .. Len(a) PROVE abc[i] = a[i]
  <2>1. i \in 1 .. Len(ab)
    BY <1>0, <1>2
  <2> QED
    BY <1>2, <1>4, <2>1
<1>6. ASSUME NEW i \in 1 .. Len(b) PROVE abc[Len(a) + i] = b[i]
  <2>1. Len(a) + i \in 1 .. Len(ab)
    BY <1>0, <1>2
  <2> QED
    BY <1>2, <1>4, <2>1
<1>7. ASSUME NEW i \in 1 .. Len(c) PROVE abc[(Len(a) + Len(b)) + i] = c[i]
  BY <1>2, <1>4
<1>8. abc \in Seq(S) /\ Len(abc) = (Len(a) + Len(b)) + Len(c)
  BY <1>2, <1>4
<1> QED
  BY <1>5, <1>6, <1>7, <1>8 DEF abc, ab

\* t put into s after its first k elements.
PutInto(all, s, t, k) ==
  /\ DOMAIN all = 1 .. Len(s) + Len(t)
  /\ \A i \in 1 .. k : all[i] = s[i]
  /\ \A i \in 1 .. Len(t) : all[k + i] = t[i]
  /\ \A i \in 1 .. Len(s) - k : all[(k + Len(t)) + i] = s[k + i]

LEMMA Spliced ==
  ASSUME NEW S, NEW s \in Seq(S), NEW t \in Seq(S), NEW k \in 0 .. Len(s)
  PROVE  PutInto((SubSeq(s, 1, k) \o t) \o SubSeq(s, k + 1, Len(s)), s, t, k)
<1> DEFINE head == SubSeq(s, 1, k)
           tail == SubSeq(s, k + 1, Len(s))
           all == (head \o t) \o tail
<1>1. Len(s) \in Nat /\ Len(t) \in Nat /\ k \in Nat
  OBVIOUS
<1>2. head \in Seq(S) /\ Len(head) = k /\ \A i \in 1 .. k : head[i] = s[i]
  BY <1>1
<1>3. tail \in Seq(S) /\ Len(tail) = Len(s) - k /\ \A i \in 1 .. Len(s) - k : tail[i] = s[k + i]
  BY <1>1
<1>4. all = (SubSeq(s, 1, k) \o t) \o SubSeq(s, k + 1, Len(s))
  OBVIOUS
<1> HIDE DEF head, tail
<1>5. head \in Seq(S) /\ tail \in Seq(S)
  BY <1>2, <1>3
<1>6. /\ all \in Seq(S) /\ Len(all) = (Len(head) + Len(t)) + Len(tail)
      /\ \A i \in 1 .. Len(head) : all[i] = head[i]
      /\ \A i \in 1 .. Len(t) : all[Len(head) + i] = t[i]
      /\ \A i \in 1 .. Len(tail) : all[(Len(head) + Len(t)) + i] = tail[i]
  BY <1>5, JoinedThree
<1> HIDE DEF all
<1>7. DOMAIN all = 1 .. Len(s) + Len(t)
  BY <1>1, <1>2, <1>3, <1>6
<1>8. \A i \in 1 .. k : all[i] = s[i]
  BY <1>2, <1>6
<1>9. \A i \in 1 .. Len(t) : all[k + i] = t[i]
  BY <1>2, <1>6
<1>10. \A i \in 1 .. Len(s) - k : all[(k + Len(t)) + i] = s[k + i]
  BY <1>2, <1>3, <1>6
<1>11. PutInto(all, s, t, k)
  BY <1>7, <1>8, <1>9, <1>10 DEF PutInto
<1> QED
  BY <1>4, <1>11

-----------------------------------------------------------------------------
(* Filters. *)

\* An argument of the body as it is parsed.
Plain == [kind : STRING \ {"filter"}]
FilterArgs(filters) == [i \in DOMAIN filters |-> filterArg(filters, i)]

\* The filters become arguments right after the grouping columns.
LEMMA Injected ==
  ASSUME NEW args \in Seq(Plain), NEW T, NEW filters \in Seq(T), NEW k \in 0 .. Len(args),
         Cardinality(GroupArgs(args)) = k
  PROVE  PutInto(injectSummarizeArgs(args, filters), args, FilterArgs(filters), k)
<1> DEFINE S == Plain \cup {filterArg(filters, i) : i \in DOMAIN filters}
<1>1. FilterArgs(filters) \in Seq(S)
  <2>1. FilterArgs(filters) \in [1 .. Len(filters) -> S] /\ Len(filters) \in Nat
    BY DEF FilterArgs
  <2> HIDE DEF S
  <2> QED
    BY <2>1
<1>2. args \in Seq(S)
  OBVIOUS
<1> HIDE DEF S
<1>3. injectSummarizeArgs(args, filters) = (SubSeq(args, 1, k) \o FilterArgs(filters)) \o SubSeq(args, k + 1, Len(args))
  BY DEF injectSummarizeArgs, FilterArgs
<1>4. PutInto((SubSeq(args, 1, k) \o FilterArgs(filters)) \o SubSeq(args, k + 1, Len(args)), args, FilterArgs(filters), k)
  BY <1>1, <1>2, Spliced
<1> QED
  BY <1>3, <1>4, Zenon

\* The arguments before the first name of a pair are the first so many.
LEMMA GroupsFirst ==
  ASSUME NEW args \in Seq(Plain)
  PROVE  \E k \in 0 .. Len(args) : GroupArgs(args) = 1 .. k /\ Cardinality(GroupArgs(args)) = k
<1>1. GroupArgs(args) \in SUBSET (1 .. Len(args)) /\ Len(args) \in Nat
  BY DEF GroupArgs
<1>2. \A i \in GroupArgs(args) : 1 .. i \subseteq GroupArgs(args)
  <2> SUFFICES ASSUME NEW i \in GroupArgs(args), NEW j \in 1 .. i PROVE j \in GroupArgs(args)
    OBVIOUS
  <2>1. i \in 1 .. Len(args) /\ j \in DOMAIN args /\ \A p \in Pairs(args) : i < p /\ p \in Nat
    BY <1>1 DEF GroupArgs, Pairs
  <2> QED
    BY <2>1 DEF GroupArgs
<1> QED
  BY <1>1, <1>2, InitialSegment

InFilterPosition(all) == {all[i].filter : i \in {i \in GroupArgs(all) : all[i].kind = "filter"}}

\* Every filter is an argument of the grouping, and nothing else there is one.
LEMMA InjectedAreGuaranteed ==
  ASSUME NEW args \in Seq(Plain), NEW T, NEW filters \in Seq(T),
         NEW all, all = injectSummarizeArgs(args, filters)
  PROVE  InFilterPosition(all) = DOMAIN filters
<1>1. PICK k \in 0 .. Len(args) : GroupArgs(args) = 1 .. k /\ Cardinality(GroupArgs(args)) = k
  BY GroupsFirst
<1>2. FilterArgs(filters) \in [1 .. Len(filters) -> {filterArg(filters, i) : i \in DOMAIN filters}] /\ Len(filters) \in Nat
  BY DEF FilterArgs
<1>3. /\ DOMAIN all = 1 .. Len(args) + Len(filters)
      /\ \A i \in 1 .. k : all[i] = args[i]
      /\ \A i \in 1 .. Len(filters) : all[k + i] = filterArg(filters, i)
      /\ \A i \in 1 .. Len(args) - k : all[(k + Len(filters)) + i] = args[k + i]
  <2>1. PutInto(all, args, FilterArgs(filters), k)
    BY <1>1, Injected
  <2>2. Len(FilterArgs(filters)) = Len(filters)
    BY <1>2
  <2>3. \A i \in 1 .. Len(filters) : FilterArgs(filters)[i] = filterArg(filters, i)
    BY DEF FilterArgs
  <2> QED
    BY <2>1, <2>2, <2>3 DEF PutInto
<1>4. \A i \in 1 .. Len(args) : args[i].kind # "filter"
  <2> TAKE i \in 1 .. Len(args)
  <2>1. args[i] \in Plain
    OBVIOUS
  <2> QED
    BY <2>1 DEF Plain
<1>5. \A i \in 1 .. k : args[i].kind # "string"
  <2> SUFFICES ASSUME NEW i \in 1 .. k, args[i].kind = "string" PROVE FALSE
    OBVIOUS
  <2>1. i \in Pairs(args) /\ i \in GroupArgs(args)
    BY <1>1 DEF Pairs
  <2> QED
    BY <2>1 DEF GroupArgs
<1>6. \A i \in 1 .. Len(filters) : all[k + i].kind = "filter" /\ all[k + i].filter = i
  <2>1. \A i : filterArg(filters, i).kind = "filter" /\ filterArg(filters, i).filter = i
    BY DEF filterArg
  <2> QED
    BY <1>3, <2>1
<1>7. \A i \in 1 .. k + Len(filters) : all[i].kind # "string"
  <2> SUFFICES ASSUME NEW i \in 1 .. k + Len(filters) PROVE all[i].kind # "string"
    OBVIOUS
  <2>1. CASE i \in 1 .. k
    BY <1>3, <1>5, <2>1
  <2>2. CASE i \notin 1 .. k
    <3>1. i - k \in 1 .. Len(filters) /\ i = k + (i - k)
      BY <2>2
    <3> QED
      BY <1>6, <3>1
  <2> QED
    BY <2>1, <2>2
<1>8. \A i \in 1 .. k + Len(filters) : i \in GroupArgs(all)
  <2> SUFFICES ASSUME NEW i \in 1 .. k + Len(filters) PROVE i \in GroupArgs(all)
    OBVIOUS
  <2>1. i \in DOMAIN all
    BY <1>3
  <2>2. \A p \in Pairs(all) : i < p
    <3> SUFFICES ASSUME NEW p \in Pairs(all), p <= i PROVE FALSE
      BY <1>3 DEF Pairs
    <3>1. p \in 1 .. k + Len(filters) /\ all[p].kind = "string"
      BY <1>3 DEF Pairs
    <3> QED
      BY <1>7, <3>1
  <2> QED
    BY <2>1, <2>2 DEF GroupArgs
<1>9. \A i \in DOMAIN all : all[i].kind = "filter" => \E j \in 1 .. Len(filters) : i = k + j
  <2> SUFFICES ASSUME NEW i \in DOMAIN all, all[i].kind = "filter" PROVE i - k \in 1 .. Len(filters) /\ i = k + (i - k)
    OBVIOUS
  <2>1. i \notin 1 .. k
    BY <1>3, <1>4
  <2>2. ~(i > k + Len(filters))
    <3> SUFFICES ASSUME i > k + Len(filters) PROVE FALSE
      OBVIOUS
    <3> DEFINE j == i - (k + Len(filters))
    <3>1. j \in 1 .. Len(args) - k /\ i = (k + Len(filters)) + j /\ k + j \in 1 .. Len(args)
      BY <1>3
    <3> HIDE DEF j
    <3>2. all[i] = args[k + j]
      BY <1>3, <3>1
    <3> QED
      BY <1>4, <3>1, <3>2
  <2> QED
    BY <1>3, <2>1, <2>2
<1>10. \A j \in 1 .. Len(filters) : k + j \in GroupArgs(all)
  BY <1>8
<1>11. GroupArgs(all) \subseteq DOMAIN all
  BY DEF GroupArgs
<1>12. DOMAIN filters = 1 .. Len(filters)
  OBVIOUS
<1>13. ASSUME NEW i \in GroupArgs(all), all[i].kind = "filter" PROVE all[i].filter \in 1 .. Len(filters)
  BY <1>6, <1>9, <1>11, <1>13
<1>14. ASSUME NEW j \in 1 .. Len(filters) PROVE \E i \in GroupArgs(all) : all[i].kind = "filter" /\ all[i].filter = j
  BY <1>6, <1>10
<1> QED
  BY <1>12, <1>13, <1>14 DEF InFilterPosition

\* A body without a filter has none guaranteed.
LEMMA NothingGuaranteed ==
  ASSUME NEW expr, expr.core.args \in Seq(Plain)
  PROVE  Guaranteed(expr) = expr.outer
<1>1. GroupArgs(expr.core.args) \subseteq DOMAIN expr.core.args
  BY DEF GroupArgs
<1>2. \A i \in DOMAIN expr.core.args : expr.core.args[i].kind # "filter"
  <2> TAKE i \in DOMAIN expr.core.args
  <2>1. expr.core.args[i] \in Plain
    OBVIOUS
  <2> QED
    BY <2>1 DEF Plain
<1> QED
  BY <1>1, <1>2 DEF Guaranteed

LEMMA AppliedOrRefused ==
  ASSUME NEW schema, NEW A, NEW B, NEW C,
         NEW body \in [around : A, outer : {{}}, core : [kind : B, name : C, args : Seq(Plain)]], NEW T, NEW filters \in Seq(T),
         ApplyExternalFilters(schema, body, filters).ok
  PROVE  Guaranteed(ApplyExternalFilters(schema, body, filters).expr) = DOMAIN filters
<1> DEFINE applied == ApplyExternalFilters(schema, body, filters)
<1>1. body.core.args \in Seq(Plain) /\ body.outer = {}
  OBVIOUS
<1>2. CASE filters = <<>>
  <2>1. applied.expr = body /\ DOMAIN filters = {}
    BY <1>2 DEF ApplyExternalFilters
  <2> QED
    BY <1>1, <2>1, NothingGuaranteed
<1>3. CASE filters # <<>> /\ findSummarizeColumns(body)
  <2>1. applied.expr = [body EXCEPT !.core.args = injectSummarizeArgs(body.core.args, filters)]
    BY <1>3 DEF ApplyExternalFilters
  <2>2. /\ applied.expr.core.args = injectSummarizeArgs(body.core.args, filters)
        /\ applied.expr.core.kind = "summarize" /\ applied.expr.around = body.around /\ applied.expr.outer = {}
    BY <1>1, <1>3, <2>1 DEF findSummarizeColumns
  <2>3. Passes(applied.expr, Restricting)
    BY <1>3, <2>2 DEF Passes, findSummarizeColumns, Restricting, InjectThrough
  <2> HIDE DEF applied
  <2>4. InFilterPosition(injectSummarizeArgs(body.core.args, filters)) = DOMAIN filters
    BY <1>1, InjectedAreGuaranteed
  <2> QED
    BY <2>2, <2>3, <2>4 DEF Guaranteed, InFilterPosition, applied
<1>4. CASE filters # <<>> /\ ~findSummarizeColumns(body)
  <2>1. applied.expr = [body EXCEPT !.outer = DOMAIN filters]
    BY <1>4 DEF ApplyExternalFilters
  <2>2. applied.expr.core = body.core /\ applied.expr.outer = DOMAIN filters
    BY <2>1
  <2> HIDE DEF applied
  <2> QED
    BY <1>1, <2>2, NothingGuaranteed DEF applied
<1> QED
  BY <1>2, <1>3, <1>4

-----------------------------------------------------------------------------
(* Recursion: a function of the numbers up to n that is given by its value at *)
(* 0 and by a step from each value to the next.                               *)

Iteration(S, n, step, start, g) ==
  g \in [0 .. n -> S] /\ g[0] = start /\ \A k \in 1 .. n : g[k] = step[k][g[k - 1]]

LEMMA Iterated ==
  ASSUME NEW S, NEW n \in Nat, NEW step \in [1 .. n -> [S -> S]], NEW start \in S
  PROVE  \E g : Iteration(S, n, step, start, g)
<1> DEFINE Good(g, m) == g[0] = start /\ \A k \in 1 .. m : g[k] = step[k][g[k - 1]]
           T == {m \in Nat : m <= n => \E g \in [0 .. m -> S] : Good(g, m)}
<1>1. 0 \in T
  <2>1. [k \in 0 .. 0 |-> start] \in [0 .. 0 -> S] /\ Good([k \in 0 .. 0 |-> start], 0)
    OBVIOUS
  <2> QED
    BY <2>1
<1>2. ASSUME NEW m \in Nat, m \in T PROVE m + 1 \in T
  <2> SUFFICES ASSUME m + 1 <= n PROVE \E g \in [0 .. m + 1 -> S] : Good(g, m + 1)
    OBVIOUS
  <2>1. PICK g \in [0 .. m -> S] : Good(g, m)
    BY <1>2
  <2> DEFINE h == [k \in 0 .. m + 1 |-> IF k = m + 1 THEN step[m + 1][g[m]] ELSE g[k]]
  <2>2. step[m + 1][g[m]] \in S
    <3>1. m + 1 \in 1 .. n /\ g[m] \in S
      OBVIOUS
    <3> QED
      BY <3>1
  <2>3. h \in [0 .. m + 1 -> S]
    BY <2>2
  <2>4. h[0] = start
    BY <2>1
  <2>5. ASSUME NEW k \in 1 .. m + 1 PROVE h[k] = step[k][h[k - 1]]
    <3>1. CASE k = m + 1
      <4>1. h[k - 1] = g[m] /\ h[k] = step[m + 1][g[m]]
        BY <3>1
      <4> QED
        BY <3>1, <4>1
    <3>2. CASE k \in 1 .. m
      <4>1. h[k - 1] = g[k - 1] /\ h[k] = g[k]
        BY <3>2
      <4> QED
        BY <2>1, <3>2, <4>1
    <3> QED
      BY <3>1, <3>2
  <2> HIDE DEF h
  <2> QED
    BY <2>3, <2>4, <2>5
<1> HIDE DEF T
<1>3. Nat \subseteq T
  BY <1>1, <1>2, SetInduction
<1>4. \E g \in [0 .. n -> S] : Good(g, n)
  BY <1>3 DEF T
<1> QED
  BY <1>4 DEF Iteration

\* Induction up to n.
LEMMA UpToInduction ==
  ASSUME NEW n \in Nat, NEW S, 0 \in S, \A k \in 0 .. n - 1 : k \in S => k + 1 \in S
  PROVE  0 .. n \subseteq S
<1> DEFINE T == {k \in Nat : k <= n => k \in S}
<1>1. 0 \in T
  OBVIOUS
<1>2. \A k \in Nat : k \in T => k + 1 \in T
  OBVIOUS
<1> HIDE DEF T
<1>3. Nat \subseteq T
  BY <1>1, <1>2, SetInduction
<1> QED
  BY <1>3 DEF T

-----------------------------------------------------------------------------
(* Names: where no name that is used matches those of two tables.             *)

CanonicalOf(graph, n) == ResolveTable(graph.tables, n)

\* The names N can be told apart: two that match are of one table.
NamesClear(graph, N) ==
  /\ graph.rels \in Seq([from : N, to : N, bidi : BOOLEAN])
  /\ \A n \in N : CanonicalOf(graph, n) \in N
  /\ \A m, n \in N : tableNamesMatch(m, n) => CanonicalOf(graph, m) = CanonicalOf(graph, n)

\* The tables those names stand for.
Tables(graph, N) == {n \in N : CanonicalOf(graph, n) = n}

\* A name matches the table it stands for, which stands for itself.
LEMMA CanonicalMatches ==
  ASSUME NEW graph, NEW n
  PROVE  /\ CanonicalOf(graph, CanonicalOf(graph, n)) = CanonicalOf(graph, n)
         /\ tableNamesMatch(n, CanonicalOf(graph, n)) /\ tableNamesMatch(CanonicalOf(graph, n), n)
<1> DEFINE found == resolveTableMatches(graph.tables, n)
<1>1. tableNamesMatch(n, n)
  BY DEF tableNamesMatch
<1>2. CASE found = {} \/ Several(found)
  BY <1>1, <1>2 DEF CanonicalOf, ResolveTable
<1>3. CASE ~(found = {} \/ Several(found))
  <2>1. PICK t \in found : t = CanonicalOf(graph, n)
    BY <1>3 DEF CanonicalOf, ResolveTable
  <2>2. t \in graph.tables /\ (t = n \/ (n.db = "" /\ t.name = n.name))
    BY <2>1 DEF resolveTableMatches
  <2>3. resolveTableMatches(graph.tables, t) = {t}
    BY <2>2 DEF resolveTableMatches
  <2>4. CanonicalOf(graph, t) = t
    BY <2>3 DEF CanonicalOf, ResolveTable, Several
  <2>5. tableNamesMatch(n, t) /\ tableNamesMatch(t, n)
    BY <2>2 DEF tableNamesMatch
  <2> QED
    BY <2>1, <2>4, <2>5
<1> QED
  BY <1>2, <1>3

\* In the code's comparison two tables match if they are one.
LEMMA TablesMatch ==
  ASSUME NEW graph, NEW N, NamesClear(graph, N), NEW a \in Tables(graph, N), NEW n \in N
  PROVE  /\ tableNamesMatch(n, a) <=> CanonicalOf(graph, n) = a
         /\ tableNamesMatch(a, n) <=> CanonicalOf(graph, n) = a
         /\ CanonicalOf(graph, n) \in Tables(graph, N)
  BY CanonicalMatches DEF NamesClear, Tables

\* A relationship is followed from a table just if it is one of its ends, and leads
\* to the other.
LEMMA Crossing ==
  ASSUME NEW graph, NEW N, NamesClear(graph, N), NEW at \in Tables(graph, N), NEW i \in DOMAIN graph.rels
  PROVE  /\ i \in Adjacent(graph, at) <=> at \in Link(graph, i)
         /\ i \in Adjacent(graph, at) =>
              /\ CanonicalOf(graph, FarEnd(graph.rels[i], at)) \in Tables(graph, N)
              /\ Link(graph, i) = {at, CanonicalOf(graph, FarEnd(graph.rels[i], at))}
<1> DEFINE from == graph.rels[i].from
           to == graph.rels[i].to
<1>1. from \in N /\ to \in N
  <2> DEFINE Rel == [from : N, to : N, bidi : BOOLEAN]
  <2>1. graph.rels \in Seq(Rel)
    BY DEF NamesClear
  <2> HIDE DEF Rel
  <2>2. graph.rels[i] \in Rel
    BY <2>1
  <2>3. graph.rels[i] \in [from : N, to : N, bidi : BOOLEAN]
    BY <2>2 DEF Rel
  <2> QED
    BY <2>3
<1>2. Link(graph, i) = {CanonicalOf(graph, from), CanonicalOf(graph, to)}
  BY DEF Link, CanonicalOf
<1>3. /\ tableNamesMatch(from, at) <=> CanonicalOf(graph, from) = at
      /\ tableNamesMatch(to, at) <=> CanonicalOf(graph, to) = at
      /\ CanonicalOf(graph, from) \in Tables(graph, N) /\ CanonicalOf(graph, to) \in Tables(graph, N)
  BY <1>1, TablesMatch
<1>4. FarEnd(graph.rels[i], at) = IF tableNamesMatch(from, at) THEN to ELSE from
  BY DEF FarEnd
<1>5. i \in Adjacent(graph, at) <=> tableNamesMatch(from, at) \/ tableNamesMatch(to, at)
  BY DEF Adjacent
<1> HIDE DEF from, to
<1> QED
  BY <1>2, <1>3, <1>4, <1>5

-----------------------------------------------------------------------------
(* Walks along the relationships. *)

JoinSteps(graph, N) == [from : Tables(graph, N), table : Tables(graph, N), rel : DOMAIN graph.rels]
Walk(graph, N) == [at : Tables(graph, N), steps : Seq(JoinSteps(graph, N))]

\* x is w with one step more.
Longer(graph, N, w, x) ==
  \E i \in DOMAIN graph.rels, u \in Tables(graph, N) : Link(graph, i) = {w.at, u} /\ x = Extended(w, i, u)

\* The extensions of a walk are the walks that are one step longer.
LEMMA Extending ==
  ASSUME NEW graph, NEW N, NamesClear(graph, N), NEW w \in Walk(graph, N)
  PROVE  /\ Extensions(graph, w) \subseteq Walk(graph, N)
         /\ \A x : x \in Extensions(graph, w) <=> Longer(graph, N, w, x)
<1> DEFINE C == Tables(graph, N)
           R == DOMAIN graph.rels
           next(i) == CanonicalOf(graph, FarEnd(graph.rels[i], w.at))
<1>1. w.at \in C /\ w.steps \in Seq(JoinSteps(graph, N))
  BY DEF Walk
<1>2. \A i \in R : i \in Adjacent(graph, w.at) => next(i) \in C /\ Link(graph, i) = {w.at, next(i)}
  BY <1>1, Crossing
<1>3. \A i \in R : i \in Adjacent(graph, w.at) <=> w.at \in Link(graph, i)
  BY <1>1, Crossing
<1>4. Extensions(graph, w) = {Extended(w, i, next(i)) : i \in Adjacent(graph, w.at)}
  BY DEF Extensions, CanonicalOf
<1>5. Adjacent(graph, w.at) \subseteq R
  BY DEF Adjacent
<1>6. ASSUME NEW i \in R, NEW u \in C PROVE Extended(w, i, u) \in Walk(graph, N)
  <2>1. [from |-> w.at, table |-> u, rel |-> i] \in JoinSteps(graph, N)
    BY <1>1 DEF JoinSteps
  <2>2. Append(w.steps, [from |-> w.at, table |-> u, rel |-> i]) \in Seq(JoinSteps(graph, N))
    BY <1>1, <2>1
  <2> QED
    BY <2>2 DEF Extended, Walk
<1>7. ASSUME NEW i \in R, NEW u \in C, Link(graph, i) = {w.at, u}
      PROVE  i \in Adjacent(graph, w.at) /\ next(i) = u
  <2>1. i \in Adjacent(graph, w.at)
    BY <1>3, <1>7
  <2>2. Link(graph, i) = {w.at, next(i)}
    BY <1>2, <2>1
  <2> HIDE DEF next
  <2> QED
    BY <1>7, <2>1, <2>2
<1> HIDE DEF C, R, next
<1>8. ASSUME NEW x PROVE x \in Extensions(graph, w) <=>
        \E i \in R, u \in C : Link(graph, i) = {w.at, u} /\ x = Extended(w, i, u)
  BY <1>2, <1>4, <1>5, <1>7
<1>9. Extensions(graph, w) \subseteq Walk(graph, N)
  BY <1>6, <1>8
<1>10. \A x : x \in Extensions(graph, w) <=> Longer(graph, N, w, x)
  BY <1>8 DEF Longer, C, R
<1> QED
  BY <1>9, <1>10

\* W has the walks from the tables of `from`, by their lengths.
WalksFrom(graph, N, from, W) ==
  /\ W \in [0 .. Len(graph.rels) -> SUBSET Walk(graph, N)]
  /\ W[0] = {[at |-> t, steps |-> <<>>] : t \in from}
  /\ \A k \in 1 .. Len(graph.rels) : W[k] = UNION {Extensions(graph, w) : w \in W[k - 1]}

\* There are the walks of each length.
LEMMA WalksExist ==
  ASSUME NEW graph, NEW N, NamesClear(graph, N), NEW from \in SUBSET Tables(graph, N)
  PROVE  \E W : WalksFrom(graph, N, from, W)
<1> DEFINE L == Len(graph.rels)
           S == SUBSET Walk(graph, N)
           longer(X) == UNION {Extensions(graph, w) : w \in X}
           start == {[at |-> t, steps |-> <<>>] : t \in from}
           step == [k \in 1 .. L |-> [X \in S |-> longer(X)]]
<1>1. \A X \in S : longer(X) \in S
  BY Extending
<1>2. start \in S
  <2>1. \A t \in Tables(graph, N) : [at |-> t, steps |-> <<>>] \in Walk(graph, N)
    BY DEF Walk
  <2> QED
    BY <2>1
<1>3. L \in Nat
  BY DEF NamesClear
<1> HIDE DEF longer, start, S, L
<1>4. step \in [1 .. L -> [S -> S]]
  BY <1>1
<1>5. \A k \in 1 .. L, X \in S : step[k][X] = longer(X)
  OBVIOUS
<1> HIDE DEF step
<1>6. PICK W : Iteration(S, L, step, start, W)
  BY <1>2, <1>3, <1>4, Iterated
<1>7. ASSUME NEW k \in 1 .. L PROVE W[k] = longer(W[k - 1])
  <2>1. W[k - 1] \in S
    BY <1>3, <1>6 DEF Iteration
  <2>2. W[k] = step[k][W[k - 1]]
    BY <1>6 DEF Iteration
  <2> QED
    BY <1>5, <2>1, <2>2
<1>8. W \in [0 .. L -> S] /\ W[0] = start
  BY <1>6 DEF Iteration
<1> QED
  BY <1>7, <1>8 DEF WalksFrom, L, S, start, longer

\* The walks one step longer.
LEMMA LongerWalks ==
  ASSUME NEW graph, NEW N, NamesClear(graph, N), NEW from, NEW W, WalksFrom(graph, N, from, W),
         NEW k \in 1 .. Len(graph.rels), NEW x
  PROVE  /\ k - 1 \in 0 .. Len(graph.rels)
         /\ x \in W[k] <=> \E w \in W[k - 1] : Longer(graph, N, w, x)
<1>1. Len(graph.rels) \in Nat
  BY DEF NamesClear
<1>2. k - 1 \in 0 .. Len(graph.rels)
  BY <1>1
<1>3. W[k - 1] \subseteq Walk(graph, N)
  BY <1>2 DEF WalksFrom
<1>4. x \in W[k] <=> \E w \in W[k - 1] : x \in Extensions(graph, w)
  BY DEF WalksFrom
<1>5. ASSUME NEW w \in W[k - 1]
      PROVE  x \in Extensions(graph, w) <=> Longer(graph, N, w, x)
  <2>1. w \in Walk(graph, N)
    BY <1>3
  <2> QED
    BY <2>1, Extending
<1> QED
  BY <1>2, <1>4, <1>5

\* Each step starts where the one before it ended and crosses its relationship.
Chained(graph, from, w) ==
  /\ w.at \in (IF w.steps = <<>> THEN from ELSE {w.steps[Len(w.steps)].table})
  /\ \A j \in DOMAIN w.steps :
       /\ Link(graph, w.steps[j].rel) = {w.steps[j].from, w.steps[j].table}
       /\ w.steps[j].from \in (IF j = 1 THEN from ELSE {w.steps[j - 1].table})

\* A step more keeps the steps chained.
LEMMA ChainedLonger ==
  ASSUME NEW graph, NEW N, NEW from, NEW w \in Walk(graph, N), Chained(graph, from, w),
         NEW x, Longer(graph, N, w, x)
  PROVE  /\ Chained(graph, from, x)
         /\ Len(x.steps) = Len(w.steps) + 1
         /\ \A j \in DOMAIN w.steps : x.steps[j] = w.steps[j]
         /\ x.steps[Len(x.steps)].table = x.at
<1>1. PICK i \in DOMAIN graph.rels, u \in Tables(graph, N) : Link(graph, i) = {w.at, u} /\ x = Extended(w, i, u)
  BY DEF Longer
<1> DEFINE new == [from |-> w.at, table |-> u, rel |-> i]
           old == w.steps
           n == Len(old)
<1>2. old \in Seq(JoinSteps(graph, N))
  BY DEF Walk
<1>3. new \in JoinSteps(graph, N)
  BY DEF JoinSteps, Walk
<1>4. x.at = u /\ x.steps = Append(old, new)
  BY <1>1 DEF Extended
<1>5. new.from = w.at /\ new.table = u /\ new.rel = i
  OBVIOUS
<1>6. w.at \in (IF old = <<>> THEN from ELSE {old[n].table})
  BY DEF Chained
<1>7. \A j \in DOMAIN old : /\ Link(graph, old[j].rel) = {old[j].from, old[j].table}
                            /\ old[j].from \in (IF j = 1 THEN from ELSE {old[j - 1].table})
  BY DEF Chained
<1> HIDE DEF new, old
<1>8. /\ n \in Nat /\ DOMAIN old = 1 .. n /\ (old = <<>> <=> n = 0)
      /\ Len(x.steps) = n + 1 /\ DOMAIN x.steps = 1 .. n + 1
      /\ x.steps # <<>> /\ x.steps[n + 1] = new /\ \A j \in 1 .. n : x.steps[j] = old[j]
  BY <1>2, <1>3, <1>4
<1> HIDE DEF n
<1>9. x.steps # <<>> /\ x.at = x.steps[Len(x.steps)].table
  BY <1>4, <1>5, <1>8
<1>10. ASSUME NEW j \in DOMAIN x.steps
       PROVE  /\ Link(graph, x.steps[j].rel) = {x.steps[j].from, x.steps[j].table}
              /\ x.steps[j].from \in (IF j = 1 THEN from ELSE {x.steps[j - 1].table})
  <2>1. CASE j = n + 1
    <3>1. x.steps[j] = new
      BY <1>8, <2>1
    <3>2. CASE n = 0
      BY <1>1, <1>5, <1>6, <1>8, <2>1, <3>1, <3>2
    <3>3. CASE n # 0
      <4>1. j # 1 /\ j - 1 = n /\ n \in 1 .. n
        BY <1>8, <2>1, <3>3
      <4>2. x.steps[j - 1] = old[n] /\ old # <<>>
        BY <1>8, <4>1
      <4> QED
        BY <1>1, <1>5, <1>6, <3>1, <4>1, <4>2
    <3> QED
      BY <3>2, <3>3
  <2>2. CASE j # n + 1
    <3>1. j \in 1 .. n /\ (j # 1 => j - 1 \in 1 .. n)
      BY <1>8, <2>2
    <3>2. x.steps[j] = old[j] /\ (j # 1 => x.steps[j - 1] = old[j - 1])
      BY <1>8, <3>1
    <3>3. j \in DOMAIN old
      BY <1>8, <3>1
    <3> QED
      BY <1>7, <3>2, <3>3
  <2> QED
    BY <2>1, <2>2
<1>11. Chained(graph, from, x)
  BY <1>9, <1>10 DEF Chained
<1> QED
  BY <1>8, <1>9, <1>11 DEF n, old

\* The walks of length k are chained and have k steps.
LEMMA WalksChained ==
  ASSUME NEW graph, NEW N, NamesClear(graph, N), NEW from, NEW W, WalksFrom(graph, N, from, W)
  PROVE  \A k \in 0 .. Len(graph.rels) : \A w \in W[k] :
           w \in Walk(graph, N) /\ Chained(graph, from, w) /\ Len(w.steps) = k
<1> DEFINE L == Len(graph.rels)
           S == {k \in 0 .. L : \A w \in W[k] : Chained(graph, from, w) /\ Len(w.steps) = k}
<1>1. L \in Nat
  BY DEF NamesClear
<1>2. ASSUME NEW k \in 0 .. L, NEW w \in W[k] PROVE w \in Walk(graph, N)
  BY DEF WalksFrom
<1>3. 0 \in S
  <2>1. \A w \in W[0] : \E t \in from : w = [at |-> t, steps |-> <<>>]
    BY DEF WalksFrom
  <2> QED
    BY <1>1, <2>1 DEF Chained
<1>4. ASSUME NEW k \in 0 .. L - 1, k \in S PROVE k + 1 \in S
  <2>1. k + 1 \in 1 .. L /\ k + 1 \in 0 .. L /\ (k + 1) - 1 = k
    BY <1>1
  <2>2. ASSUME NEW x \in W[k + 1] PROVE Chained(graph, from, x) /\ Len(x.steps) = k + 1
    <3>1. PICK w \in W[k] : Longer(graph, N, w, x)
      BY <2>1, LongerWalks
    <3>2. w \in Walk(graph, N)
      BY <1>2, <2>1
    <3>3. Chained(graph, from, w) /\ Len(w.steps) = k
      BY <1>4
    <3> QED
      BY <3>1, <3>2, <3>3, ChainedLonger
  <2> QED
    BY <2>1, <2>2
<1> HIDE DEF S, L
<1>5. 0 .. L \subseteq S
  BY <1>1, <1>3, <1>4, UpToInduction
<1> QED
  BY <1>2, <1>5 DEF S, L

-----------------------------------------------------------------------------
(* The search finds the shortest walks to a table. *)

\* The ends of the walks of no more than k steps.
Reached(W, k) == {w.at : w \in UNION {W[j] : j \in 0 .. k}}
FreshWalks(W, k) == {w \in W[k] : w.at \notin Reached(W, k - 1)}
Hits(W, k, to) == {w \in W[k] : w.at = to}

\* Without a step a walk is where it began.
LEMMA ReachedFirst ==
  ASSUME NEW graph, NEW N, NEW from, NEW W, WalksFrom(graph, N, from, W)
  PROVE  Reached(W, 0) = from /\ Reached(W, -1) = {}
<1>1. 0 .. 0 = {0} /\ 0 .. -1 = {}
  OBVIOUS
<1>2. UNION {W[j] : j \in 0 .. 0} = W[0] /\ UNION {W[j] : j \in 0 .. -1} = {}
  BY <1>1
<1>3. W[0] = {[at |-> t, steps |-> <<>>] : t \in from}
  BY DEF WalksFrom
<1>4. ASSUME NEW c PROVE c \in from <=> \E w \in W[0] : w.at = c
  <2>1. ASSUME c \in from PROVE \E w \in W[0] : w.at = c
    <3>1. [at |-> c, steps |-> <<>>] \in W[0] /\ [at |-> c, steps |-> <<>>].at = c
      BY <1>3, <2>1
    <3> QED
      BY <3>1
  <2>2. ASSUME NEW w \in W[0], w.at = c PROVE c \in from
    <3>1. PICK t \in from : w = [at |-> t, steps |-> <<>>]
      BY <1>3
    <3> QED
      BY <2>2, <3>1
  <2> QED
    BY <2>1, <2>2
<1>5. {w.at : w \in W[0]} = from
  BY <1>4
<1>6. Reached(W, 0) = {w.at : w \in W[0]} /\ Reached(W, -1) = {w.at : w \in {}}
  BY <1>2 DEF Reached
<1> QED
  BY <1>5, <1>6

\* One length more reaches the ends of the walks of that length.
LEMMA ReachedNext ==
  ASSUME NEW W, NEW k \in Nat
  PROVE  Reached(W, k + 1) = Reached(W, k) \cup {w.at : w \in W[k + 1]}
<1>1. \A j : j \in 0 .. k + 1 <=> j \in 0 .. k \/ j = k + 1
  OBVIOUS
<1>2. UNION {W[j] : j \in 0 .. k + 1} = (UNION {W[j] : j \in 0 .. k}) \cup W[k + 1]
  BY <1>1
<1> QED
  BY <1>2 DEF Reached

\* What is not found from a fresh walk was reached by a shorter one.
LEMMA StaleWalks ==
  ASSUME NEW graph, NEW N, NamesClear(graph, N), NEW from, NEW W, WalksFrom(graph, N, from, W),
         NEW k \in 0 .. Len(graph.rels) - 1, NEW x \in W[k + 1],
         \A w \in FreshWalks(W, k) : ~Longer(graph, N, w, x)
  PROVE  x.at \in Reached(W, k)
<1>1. Len(graph.rels) \in Nat
  BY DEF NamesClear
<1>2. k \in Nat /\ k + 1 \in 1 .. Len(graph.rels) /\ (k + 1) - 1 = k
  BY <1>1
<1>3. PICK w \in W[k] : Longer(graph, N, w, x)
  BY <1>2, LongerWalks
<1>4. w.at \in Reached(W, k - 1)
  BY <1>3 DEF FreshWalks
<1>5. PICK j \in 0 .. k - 1 : \E v \in W[j] : v.at = w.at
  BY <1>4 DEF Reached
<1>6. PICK v \in W[j] : v.at = w.at
  BY <1>5
<1>7. PICK i \in DOMAIN graph.rels, u \in Tables(graph, N) : Link(graph, i) = {w.at, u} /\ x = Extended(w, i, u)
  BY <1>3 DEF Longer
<1> DEFINE y == Extended(v, i, u)
<1>8. y.at = u /\ x.at = u
  BY <1>7 DEF Extended
<1>9. Longer(graph, N, v, y)
  BY <1>6, <1>7 DEF Longer
<1>10. j + 1 \in 1 .. Len(graph.rels) /\ (j + 1) - 1 = j /\ j + 1 \in 0 .. k
  BY <1>1, <1>2
<1> HIDE DEF y
<1>11. y \in W[j + 1]
  BY <1>6, <1>9, <1>10, LongerWalks
<1> QED
  BY <1>8, <1>10, <1>11 DEF Reached

\* The state of the search after k levels.
Searching(W, to, k, s) ==
  s.hits = {} /\ s.front = FreshWalks(W, k) /\ s.seen = Reached(W, k) /\ to \notin Reached(W, k)
Settled(W, to, k, s) ==
  s.hits # {} /\ \E m \in 0 .. k : s.hits = Hits(W, m, to) /\ to \notin Reached(W, m - 1)
Searched(W, to, k, s) == s.unclear \/ Searching(W, to, k, s) \/ Settled(W, to, k, s)

\* A level of the queue finds the walks that are one step longer, or ends the search.
LEMMA LevelSearches ==
  ASSUME NEW graph, NEW N, NamesClear(graph, N), NEW from, NEW W, WalksFrom(graph, N, from, W),
         NEW to \in Tables(graph, N), NEW k \in 0 .. Len(graph.rels) - 1, NEW s, s.unclear \in BOOLEAN,
         Searched(W, to, k, s)
  PROVE  Searched(W, to, k + 1, Level(graph, to, s))
<1>1. Len(graph.rels) \in Nat
  BY DEF NamesClear
<1>2. k \in Nat /\ k + 1 \in 1 .. Len(graph.rels) /\ (k + 1) - 1 = k /\ k \in 0 .. Len(graph.rels)
      /\ k + 1 \in 0 .. Len(graph.rels)
  BY <1>1
<1>3. CASE s.unclear
  BY <1>3 DEF Level, Searched
<1>4. CASE ~s.unclear /\ Settled(W, to, k, s)
  <2>1. Level(graph, to, s) = s
    BY <1>4 DEF Level, Settled
  <2>2. 0 .. k \subseteq 0 .. k + 1
    BY <1>2
  <2>3. Settled(W, to, k + 1, s)
    BY <1>4, <2>2 DEF Settled
  <2> QED
    BY <2>1, <2>3 DEF Searched
<1>5. CASE ~s.unclear /\ Searching(W, to, k, s)
  <2> DEFINE found == UNION {Extensions(graph, w) : w \in s.front}
             unclear == \E w \in s.front : \E i \in Adjacent(graph, w.at) :
                          AmbiguousName(graph.tables, FarEnd(graph.rels[i], w.at))
             t == Sorted(to, s, found, unclear)
  <2>1. s.hits = {} /\ s.front = FreshWalks(W, k) /\ s.seen = Reached(W, k) /\ to \notin Reached(W, k)
    BY <1>5 DEF Searching
  <2>2. Level(graph, to, s) = t
    BY <1>5, <2>1 DEF Level
  <2>3. \A w \in W[k + 1] : w.at \in Tables(graph, N)
    BY <1>2 DEF WalksFrom, Walk
  <2>4. \A w \in W[k] : w \in Walk(graph, N)
    BY <1>2 DEF WalksFrom
  <2>5. ASSUME NEW x PROVE x \in found <=> \E w \in FreshWalks(W, k) : Longer(graph, N, w, x)
    <3>1. ASSUME NEW w \in FreshWalks(W, k) PROVE x \in Extensions(graph, w) <=> Longer(graph, N, w, x)
      <4>1. w \in Walk(graph, N)
        BY <2>4 DEF FreshWalks
      <4> QED
        BY <4>1, Extending
    <3> QED
      BY <2>1, <3>1
  <2> HIDE DEF found, unclear
  <2>6. found \subseteq W[k + 1]
    <3>1. ASSUME NEW x \in found PROVE x \in W[k + 1]
      <4>1. PICK w \in W[k] : Longer(graph, N, w, x)
        BY <2>5 DEF FreshWalks
      <4> QED
        BY <1>2, <4>1, LongerWalks
    <3> QED
      BY <3>1
  <2>7. ASSUME NEW x \in W[k + 1], x \notin found PROVE x.at \in Reached(W, k)
    BY <2>5, <2>7, StaleWalks
  <2>8. \A x \in found : tableNamesMatch(x.at, to) <=> x.at = to
    <3>1. ASSUME NEW x \in found PROVE tableNamesMatch(x.at, to) <=> x.at = to
      <4>1. x.at \in N /\ CanonicalOf(graph, x.at) = x.at
        BY <2>3, <2>6 DEF Tables
      <4> QED
        BY <4>1, TablesMatch
    <3> QED
      BY <3>1
  <2>9. t.hits = {x \in found : x.at = to} /\ t.unclear = unclear
    BY <2>8 DEF Sorted
  <2>10. t.hits = Hits(W, k + 1, to)
    BY <2>1, <2>6, <2>7, <2>9 DEF Hits
  <2>11. CASE t.hits # {}
    <3>1. Settled(W, to, k + 1, t)
      <4> HIDE DEF t
      <4> QED
        BY <1>2, <2>1, <2>10, <2>11 DEF Settled
    <3> QED
      BY <2>2, <3>1 DEF Searched
  <2>12. CASE t.hits = {}
    <3>1. t.front = {x \in found : x.at \notin s.seen} /\ t.seen = s.seen \cup {x.at : x \in t.front}
      BY <2>8, <2>9, <2>12 DEF Sorted
    <3> HIDE DEF t
    <3>2. t.front = FreshWalks(W, k + 1)
      BY <1>2, <2>1, <2>6, <2>7, <3>1 DEF FreshWalks
    <3>3. t.seen = Reached(W, k) \cup {x.at : x \in W[k + 1]}
      BY <2>1, <2>6, <2>7, <3>1
    <3>4. t.seen = Reached(W, k + 1)
      BY <1>2, <3>3, ReachedNext
    <3>5. to \notin Reached(W, k + 1)
      BY <2>1, <2>10, <2>12, <3>3, <3>4 DEF Hits
    <3>6. Searching(W, to, k + 1, t)
      BY <2>12, <3>2, <3>4, <3>5 DEF Searching
    <3> QED
      BY <2>2, <3>6 DEF Searched
  <2> QED
    BY <2>11, <2>12
<1> QED
  BY <1>3, <1>4, <1>5 DEF Searched

\* The search of bfsJoin.
SearchStart(from) == [front |-> {[at |-> t, steps |-> <<>>] : t \in from}, seen |-> from, hits |-> {}, unclear |-> FALSE]
IsSearch(graph, from, to, g) ==
  g = [k \in 0 .. Len(graph.rels) |-> IF k = 0 THEN SearchStart(from) ELSE Level(graph, to, g[k - 1])]

\* The levels of a search are a function of their number.
LEMMA SearchExists ==
  ASSUME NEW graph, NEW N, NamesClear(graph, N), NEW from \in SUBSET Tables(graph, N), NEW to
  PROVE  \E g : IsSearch(graph, from, to, g)
<1> DEFINE L == Len(graph.rels)
           C == Tables(graph, N)
           Ws == Walk(graph, N)
           S == [front : SUBSET Ws, seen : SUBSET C, hits : SUBSET Ws, unclear : BOOLEAN]
           step == [k \in 1 .. L |-> [s \in S |-> Level(graph, to, s)]]
<1>1. L \in Nat
  BY DEF NamesClear
<1>2. SearchStart(from) \in S
  <2>1. \A t \in from : [at |-> t, steps |-> <<>>] \in Ws
    BY DEF Walk
  <2> QED
    BY <2>1 DEF SearchStart
<1>3. ASSUME NEW s \in S PROVE Level(graph, to, s) \in S
  <2> DEFINE found == UNION {Extensions(graph, w) : w \in s.front}
             unclear == \E w \in s.front : \E i \in Adjacent(graph, w.at) :
                          AmbiguousName(graph.tables, FarEnd(graph.rels[i], w.at))
  <2>1. found \subseteq Ws
    BY Extending
  <2>2. unclear \in BOOLEAN
    OBVIOUS
  <2>3. Level(graph, to, s) = s \/ Level(graph, to, s) = Sorted(to, s, found, unclear)
    BY DEF Level
  <2> HIDE DEF found, unclear
  <2>4. \A w \in found : w.at \in C
    BY <2>1 DEF Walk
  <2>5. Sorted(to, s, found, unclear) \in S
    BY <2>1, <2>2, <2>4 DEF Sorted
  <2> QED
    BY <2>3, <2>5
<1> HIDE DEF S, L
<1>4. step \in [1 .. L -> [S -> S]] /\ \A k \in 1 .. L, s \in S : step[k][s] = Level(graph, to, s)
  BY <1>3
<1> HIDE DEF step
<1>5. PICK g : Iteration(S, L, step, SearchStart(from), g)
  BY <1>1, <1>2, <1>4, Iterated
<1>6. g \in [0 .. L -> S] /\ g[0] = SearchStart(from) /\ \A k \in 1 .. L : g[k] = step[k][g[k - 1]]
  BY <1>5 DEF Iteration
<1>7. ASSUME NEW k \in 0 .. L PROVE g[k] = IF k = 0 THEN SearchStart(from) ELSE Level(graph, to, g[k - 1])
  <2>1. CASE k = 0
    BY <1>6, <2>1
  <2>2. CASE k # 0
    <3>1. k \in 1 .. L /\ k - 1 \in 0 .. L
      BY <1>1, <2>2
    <3>2. g[k] = step[k][g[k - 1]] /\ g[k - 1] \in S
      BY <1>6, <3>1
    <3> QED
      BY <1>4, <2>2, <3>1, <3>2
  <2> QED
    BY <2>1, <2>2
<1>8. g = [k \in 0 .. L |-> g[k]]
  BY <1>6
<1> QED
  BY <1>7, <1>8 DEF IsSearch, L

\* What bfsJoin answers, of tables that are not joined yet.
LEMMA SearchResult ==
  ASSUME NEW graph, NEW N, NamesClear(graph, N), NEW from \in SUBSET Tables(graph, N),
         NEW to \in Tables(graph, N), to \notin from, NEW W, WalksFrom(graph, N, from, W)
  PROVE  \E s : /\ bfsJoin(graph, from, to) = PathFound(s)
                /\ s.unclear \in BOOLEAN
                /\ Searched(W, to, Len(graph.rels), s)
<1> DEFINE L == Len(graph.rels)
           g == CHOOSE f : IsSearch(graph, from, to, f)
<1>1. L \in Nat
  BY DEF NamesClear
<1>2. IsSearch(graph, from, to, g)
  BY SearchExists
<1>3. ~\E t \in from : tableNamesMatch(t, to)
  <2>1. ASSUME NEW t \in from, tableNamesMatch(t, to) PROVE FALSE
    <3>1. t \in Tables(graph, N) /\ t \in N /\ CanonicalOf(graph, t) = t
      BY DEF Tables
    <3> QED
      BY <2>1, <3>1, TablesMatch
  <2> QED
    BY <2>1
<1>4. bfsJoin(graph, from, to) = PathFound(g[L])
  BY <1>3 DEF bfsJoin, IsSearch, SearchStart
<1> HIDE DEF g
<1>5. \A k \in 0 .. L : g[k] = IF k = 0 THEN SearchStart(from) ELSE Level(graph, to, g[k - 1])
  BY <1>2 DEF IsSearch
<1> DEFINE S == {k \in 0 .. L : g[k].unclear \in BOOLEAN /\ Searched(W, to, k, g[k])}
<1>6. 0 \in S
  <2>1. g[0] = SearchStart(from)
    BY <1>1, <1>5
  <2>2. Reached(W, 0) = from /\ Reached(W, -1) = {}
    BY ReachedFirst
  <2>3. W[0] = {[at |-> t, steps |-> <<>>] : t \in from}
    BY DEF WalksFrom
  <2>4. FreshWalks(W, 0) = W[0]
    BY <2>2 DEF FreshWalks
  <2>5. Searching(W, to, 0, SearchStart(from)) /\ SearchStart(from).unclear = FALSE
    BY <2>2, <2>3, <2>4 DEF Searching, SearchStart
  <2>6. g[0].unclear \in BOOLEAN /\ Searched(W, to, 0, g[0])
    BY <2>1, <2>5 DEF Searched
  <2>7. 0 \in 0 .. L
    BY <1>1
  <2> HIDE DEF L
  <2> QED
    BY <2>6, <2>7
<1>7. ASSUME NEW k \in 0 .. L - 1, k \in S PROVE k + 1 \in S
  <2>1. k + 1 \in 0 .. L /\ k + 1 # 0 /\ (k + 1) - 1 = k
    BY <1>1
  <2>2. g[k + 1] = Level(graph, to, g[k])
    BY <1>5, <2>1
  <2>3. g[k].unclear \in BOOLEAN /\ Searched(W, to, k, g[k])
    BY <1>7
  <2>4. Searched(W, to, k + 1, g[k + 1])
    BY <2>2, <2>3, LevelSearches
  <2>5. g[k + 1].unclear \in BOOLEAN
    <3>1. CASE g[k].hits # {} \/ g[k].unclear
      BY <2>2, <2>3, <3>1 DEF Level
    <3>2. CASE ~(g[k].hits # {} \/ g[k].unclear)
      BY <2>2, <3>2 DEF Level, Sorted
    <3> QED
      BY <3>1, <3>2
  <2> QED
    BY <2>1, <2>4, <2>5
<1> HIDE DEF S, L
<1>8. 0 .. L \subseteq S
  BY <1>1, <1>6, <1>7, UpToInduction
<1>9. L \in S
  BY <1>1, <1>8
<1> QED
  BY <1>4, <1>9 DEF S, L

Reasons == {"", "ambiguous table", "no path", "ambiguous path"}

\* The fields of an answer.
LEMMA Answers ==
  /\ \A why : Failed(why).ok = FALSE /\ Failed(why).why = why
  /\ \A steps : Found(steps).ok = TRUE /\ Found(steps).steps = steps /\ Found(steps).why = ""
  BY DEF Failed, Found

\* A path that is found is a walk from the tables joined so far, and no other is as
\* short; there is none, or there are several of one length, if that is the error.
LEMMA JoinFound ==
  ASSUME NEW graph, NEW N, NamesClear(graph, N), NEW from \in SUBSET Tables(graph, N),
         NEW to \in Tables(graph, N), to \notin from, NEW W, WalksFrom(graph, N, from, W),
         NEW leg, leg = bfsJoin(graph, from, to)
  PROVE  /\ leg.ok \in BOOLEAN /\ leg.why \in Reasons
         /\ leg.ok => \E m \in 0 .. Len(graph.rels), w \in Walk(graph, N) :
                        leg.steps = w.steps /\ Hits(W, m, to) = {w} /\ to \notin Reached(W, m - 1)
         /\ leg.why = "no path" => to \notin Reached(W, Len(graph.rels))
         /\ leg.why = "ambiguous path" =>
              \E m \in 0 .. Len(graph.rels) : Several(Hits(W, m, to)) /\ to \notin Reached(W, m - 1)
<1>1. PICK s : leg = PathFound(s) /\ s.unclear \in BOOLEAN /\ Searched(W, to, Len(graph.rels), s)
  BY SearchResult
<1>2. CASE s.unclear
  <2>1. leg = Failed("ambiguous table")
    BY <1>1, <1>2 DEF PathFound
  <2>2. leg.ok = FALSE /\ leg.why = "ambiguous table"
    BY <2>1, Answers
  <2>3. leg.ok \in BOOLEAN /\ leg.why \in Reasons
    BY <2>2 DEF Reasons
  <2> QED
    BY <2>2, <2>3
<1>3. CASE ~s.unclear /\ Searching(W, to, Len(graph.rels), s)
  <2>1. leg = Failed("no path") /\ to \notin Reached(W, Len(graph.rels))
    BY <1>1, <1>3 DEF PathFound, Searching
  <2>2. leg.ok = FALSE /\ leg.why = "no path"
    BY <2>1, Answers
  <2>3. leg.ok \in BOOLEAN /\ leg.why \in Reasons
    BY <2>2 DEF Reasons
  <2> QED
    BY <2>1, <2>2, <2>3
<1>4. CASE ~s.unclear /\ Settled(W, to, Len(graph.rels), s)
  <2>1. PICK m \in 0 .. Len(graph.rels) : s.hits = Hits(W, m, to) /\ to \notin Reached(W, m - 1)
    BY <1>4 DEF Settled
  <2>2. s.hits # {}
    BY <1>4 DEF Settled
  <2>3. CASE Several(s.hits)
    <3>1. leg = Failed("ambiguous path")
      BY <1>1, <1>4, <2>2, <2>3 DEF PathFound
    <3>2. leg.ok = FALSE /\ leg.why = "ambiguous path"
      BY <3>1, Answers
    <3>3. leg.ok \in BOOLEAN /\ leg.why \in Reasons
      BY <3>2 DEF Reasons
    <3> QED
      BY <2>1, <2>3, <3>2, <3>3
  <2>4. CASE ~Several(s.hits)
    <3>1. PICK w \in s.hits : w = CHOOSE walk \in s.hits : TRUE
      BY <2>2
    <3>2. s.hits = {w}
      BY <2>4 DEF Several
    <3>3. leg = Found(w.steps)
      BY <1>1, <1>4, <2>2, <2>4, <3>1 DEF PathFound
    <3>4. w \in Walk(graph, N)
      BY <2>1, WalksChained DEF Hits
    <3>5. leg.ok = TRUE /\ leg.steps = w.steps /\ leg.why = ""
      BY <3>3, Answers
    <3>6. Hits(W, m, to) = {w}
      BY <2>1, <3>2
    <3>7. leg.ok \in BOOLEAN /\ leg.why \in Reasons
      BY <3>5 DEF Reasons
    <3> QED
      BY <2>1, <3>4, <3>5, <3>6, <3>7
  <2> QED
    BY <2>3, <2>4
<1> QED
  BY <1>1, <1>2, <1>3, <1>4 DEF Searched

-----------------------------------------------------------------------------
(* The joins are a tree. *)

TreeBefore(primary, steps, k) == {primary} \cup {steps[i].table : i \in 1 .. k - 1}

IsTree(graph, N, primary, steps) ==
  /\ primary \in Tables(graph, N) /\ steps \in Seq(JoinSteps(graph, N))
  /\ \A k \in DOMAIN steps :
       /\ steps[k].from \in TreeBefore(primary, steps, k) /\ steps[k].table \notin TreeBefore(primary, steps, k)
       /\ Link(graph, steps[k].rel) = {steps[k].from, steps[k].table}

\* The tables of a tree are those before the step after its last.
LEMMA TreeEnds ==
  ASSUME NEW graph, NEW N, NEW primary, NEW steps, IsTree(graph, N, primary, steps)
  PROVE  /\ InTree(primary, steps) = TreeBefore(primary, steps, Len(steps) + 1)
         /\ InTree(primary, steps) \subseteq Tables(graph, N)
<1>1. primary \in Tables(graph, N) /\ steps \in Seq(JoinSteps(graph, N))
  BY DEF IsTree
<1>2. Len(steps) \in Nat /\ DOMAIN steps = 1 .. Len(steps) /\ 1 .. (Len(steps) + 1) - 1 = 1 .. Len(steps)
  BY <1>1
<1>3. \A i \in DOMAIN steps : steps[i].table \in Tables(graph, N)
  <2>1. \A i \in DOMAIN steps : steps[i] \in JoinSteps(graph, N)
    BY <1>1
  <2> QED
    BY <2>1 DEF JoinSteps
<1>4. InTree(primary, steps) \subseteq Tables(graph, N)
  BY <1>1, <1>3 DEF InTree
<1>5. InTree(primary, steps) = TreeBefore(primary, steps, Len(steps) + 1)
  BY <1>2 DEF InTree, TreeBefore
<1> QED
  BY <1>4, <1>5

\* A step from the tree to a new table leaves a tree, with that table.
LEMMA TreeGrows ==
  ASSUME NEW graph, NEW N, NEW primary, NEW steps, IsTree(graph, N, primary, steps), NEW st \in JoinSteps(graph, N),
         st.from \in InTree(primary, steps), st.table \notin InTree(primary, steps),
         Link(graph, st.rel) = {st.from, st.table}
  PROVE  /\ IsTree(graph, N, primary, Append(steps, st))
         /\ InTree(primary, Append(steps, st)) = InTree(primary, steps) \cup {st.table}
<1> DEFINE n == Len(steps)
           more == Append(steps, st)
<1>1. primary \in Tables(graph, N) /\ steps \in Seq(JoinSteps(graph, N))
  BY DEF IsTree
<1>2. /\ n \in Nat /\ DOMAIN steps = 1 .. n /\ more \in Seq(JoinSteps(graph, N)) /\ Len(more) = n + 1
      /\ DOMAIN more = 1 .. n + 1 /\ more[n + 1] = st /\ \A i \in 1 .. n : more[i] = steps[i]
  BY <1>1
<1> HIDE DEF more, n
<1>3. ASSUME NEW k \in 1 .. n + 1 PROVE TreeBefore(primary, more, k) = TreeBefore(primary, steps, k)
  <2>1. \A i \in 1 .. k - 1 : more[i] = steps[i]
    BY <1>2
  <2> QED
    BY <2>1 DEF TreeBefore
<1>4. InTree(primary, steps) = TreeBefore(primary, steps, n + 1)
  BY TreeEnds DEF n
<1>5. ASSUME NEW k \in DOMAIN more
      PROVE  /\ more[k].from \in TreeBefore(primary, more, k) /\ more[k].table \notin TreeBefore(primary, more, k)
             /\ Link(graph, more[k].rel) = {more[k].from, more[k].table}
  <2>1. k \in 1 .. n + 1 /\ TreeBefore(primary, more, k) = TreeBefore(primary, steps, k)
    BY <1>2, <1>3
  <2>2. CASE k = n + 1
    BY <1>2, <1>4, <2>1, <2>2
  <2>3. CASE k # n + 1
    <3>1. k \in 1 .. n /\ k \in DOMAIN steps /\ more[k] = steps[k]
      BY <1>2, <2>1, <2>3
    <3>2. /\ steps[k].from \in TreeBefore(primary, steps, k) /\ steps[k].table \notin TreeBefore(primary, steps, k)
          /\ Link(graph, steps[k].rel) = {steps[k].from, steps[k].table}
      BY <3>1 DEF IsTree
    <3> QED
      BY <2>1, <3>1, <3>2
  <2> QED
    BY <2>2, <2>3
<1>6. IsTree(graph, N, primary, more)
  BY <1>1, <1>2, <1>5 DEF IsTree
<1>7. InTree(primary, more) = InTree(primary, steps) \cup {st.table}
  <2>1. {more[i].table : i \in 1 .. n + 1} = {steps[i].table : i \in 1 .. n} \cup {st.table}
    <3>1. \A i : i \in 1 .. n + 1 <=> i \in 1 .. n \/ i = n + 1
      BY <1>2
    <3> QED
      BY <1>2, <3>1
  <2> QED
    BY <1>2, <2>1 DEF InTree
<1> QED
  BY <1>6, <1>7 DEF more

JoinPath(graph, N) == [primary : Tables(graph, N), ok : BOOLEAN, steps : Seq(JoinSteps(graph, N)), why : Reasons]

Kept(path, leg, k, before) ==
  IF leg.steps[k].table \in InTree(path.primary, before) THEN before ELSE Append(before, leg.steps[k])
IsKept(path, leg, g) ==
  g = [k \in 0 .. Len(leg.steps) |-> IF k = 0 THEN path.steps ELSE Kept(path, leg, k, g[k - 1])]

\* The steps kept of a leg are a function of the number looked at.
LEMMA KeptExists ==
  ASSUME NEW graph, NEW N, NEW path \in JoinPath(graph, N), NEW leg, leg.steps \in Seq(JoinSteps(graph, N))
  PROVE  \E g : IsKept(path, leg, g)
<1> DEFINE L == Len(leg.steps)
           S == Seq(JoinSteps(graph, N))
           step == [k \in 1 .. L |-> [s \in S |-> Kept(path, leg, k, s)]]
<1>1. L \in Nat
  OBVIOUS
<1>2. path.steps \in S
  BY DEF JoinPath
<1>3. ASSUME NEW k \in 1 .. L, NEW s \in S PROVE Kept(path, leg, k, s) \in S
  <2>1. leg.steps[k] \in JoinSteps(graph, N)
    OBVIOUS
  <2> QED
    BY <2>1 DEF Kept
<1> HIDE DEF S, L
<1>4. step \in [1 .. L -> [S -> S]] /\ \A k \in 1 .. L, s \in S : step[k][s] = Kept(path, leg, k, s)
  BY <1>3
<1> HIDE DEF step
<1>5. PICK g : Iteration(S, L, step, path.steps, g)
  BY <1>1, <1>2, <1>4, Iterated
<1>6. g \in [0 .. L -> S] /\ g[0] = path.steps /\ \A k \in 1 .. L : g[k] = step[k][g[k - 1]]
  BY <1>5 DEF Iteration
<1>7. ASSUME NEW k \in 0 .. L PROVE g[k] = IF k = 0 THEN path.steps ELSE Kept(path, leg, k, g[k - 1])
  <2>1. CASE k = 0
    BY <1>6, <2>1
  <2>2. CASE k # 0
    <3>1. k \in 1 .. L /\ k - 1 \in 0 .. L
      BY <1>1, <2>2
    <3>2. g[k] = step[k][g[k - 1]] /\ g[k - 1] \in S
      BY <1>6, <3>1
    <3> QED
      BY <1>4, <2>2, <3>1, <3>2
  <2> QED
    BY <2>1, <2>2
<1>8. g = [k \in 0 .. L |-> g[k]]
  BY <1>6
<1> QED
  BY <1>7, <1>8 DEF IsKept, L

\* A leg from the tree leaves a tree, which its end is in.
LEMMA GrownIsTree ==
  ASSUME NEW graph, NEW N, NEW path \in JoinPath(graph, N), IsTree(graph, N, path.primary, path.steps),
         NEW w \in Walk(graph, N), Chained(graph, InTree(path.primary, path.steps), w),
         NEW leg, leg.ok, leg.steps = w.steps, NEW r, r = Grown(path, leg)
  PROVE  /\ r \in JoinPath(graph, N) /\ r.primary = path.primary /\ r.ok = path.ok /\ r.why = path.why
         /\ IsTree(graph, N, r.primary, r.steps)
         /\ InTree(path.primary, path.steps) \subseteq InTree(r.primary, r.steps)
         /\ w.at \in InTree(r.primary, r.steps)
<1> DEFINE L == Len(leg.steps)
           p == path.primary
           joined == InTree(p, path.steps)
           g == CHOOSE f : IsKept(path, leg, f)
           Good(k) == /\ IsTree(graph, N, p, g[k]) /\ joined \subseteq InTree(p, g[k])
                      /\ \A j \in 1 .. k : leg.steps[j].table \in InTree(p, g[k])
           S == {k \in 0 .. L : Good(k)}
<1>1. leg.steps \in Seq(JoinSteps(graph, N))
  BY DEF Walk
<1>2. L \in Nat /\ DOMAIN leg.steps = 1 .. L
  BY <1>1
<1>3. IsKept(path, leg, g)
  BY <1>1, KeptExists
<1>4. r = [path EXCEPT !.steps = g[L]]
  BY DEF Grown, IsKept, Kept
<1> HIDE DEF g
<1>5. \A k \in 0 .. L : g[k] = IF k = 0 THEN path.steps ELSE Kept(path, leg, k, g[k - 1])
  BY <1>3 DEF IsKept
<1>6. 0 \in S
  <2>1. g[0] = path.steps /\ 0 \in 0 .. L
    BY <1>2, <1>5
  <2> QED
    BY <2>1
<1>7. ASSUME NEW k \in 0 .. L - 1, k \in S PROVE k + 1 \in S
  <2> DEFINE st == leg.steps[k + 1]
  <2>1. k + 1 \in 0 .. L /\ k + 1 \in 1 .. L /\ k + 1 # 0 /\ (k + 1) - 1 = k
    BY <1>2
  <2>2. g[k + 1] = Kept(path, leg, k + 1, g[k])
    BY <1>5, <2>1
  <2>3. Good(k)
    BY <1>7
  <2>4. st \in JoinSteps(graph, N)
    BY <1>1, <2>1
  <2>5. Link(graph, st.rel) = {st.from, st.table} /\ st.from \in (IF k + 1 = 1 THEN joined ELSE {leg.steps[k].table})
    BY <1>2, <2>1 DEF Chained
  <2>6. st.from \in InTree(p, g[k])
    <3>1. CASE k = 0
      BY <2>3, <2>5, <3>1
    <3>2. CASE k # 0
      <4>1. k \in 1 .. k /\ k + 1 # 1
        BY <3>2
      <4>2. leg.steps[k].table \in InTree(p, g[k])
        BY <2>3, <4>1
      <4> QED
        BY <2>5, <4>1, <4>2
    <3> QED
      BY <3>1, <3>2
  <2>7. \A j : j \in 1 .. k + 1 <=> j \in 1 .. k \/ j = k + 1
    OBVIOUS
  <2> HIDE DEF st, joined
  <2>8. CASE st.table \in InTree(p, g[k])
    <3>1. g[k + 1] = g[k]
      BY <2>2, <2>8 DEF Kept, st
    <3> QED
      BY <2>1, <2>3, <2>7, <2>8, <3>1 DEF st
  <2>9. CASE st.table \notin InTree(p, g[k])
    <3>1. g[k + 1] = Append(g[k], st)
      BY <2>2, <2>9 DEF Kept, st
    <3>2. IsTree(graph, N, p, g[k + 1]) /\ InTree(p, g[k + 1]) = InTree(p, g[k]) \cup {st.table}
      BY <2>3, <2>4, <2>5, <2>6, <2>9, <3>1, TreeGrows
    <3> QED
      BY <2>1, <2>3, <2>7, <3>2 DEF st
  <2> QED
    BY <2>8, <2>9
<1> HIDE DEF S, L
<1>8. 0 .. L \subseteq S
  BY <1>2, <1>6, <1>7, UpToInduction
<1>9. L \in S
  BY <1>2, <1>8
<1>10. Good(L)
  BY <1>9 DEF S
<1>11. w.at \in InTree(p, g[L])
  <2>1. CASE w.steps = <<>>
    BY <1>10, <2>1 DEF Chained
  <2>2. CASE w.steps # <<>>
    <3>1. w.at = leg.steps[L].table
      BY <2>2 DEF Chained, L
    <3>2. L \in 1 .. L
      BY <1>1, <2>2 DEF L
    <3> QED
      BY <1>10, <3>1, <3>2
  <2> QED
    BY <2>1, <2>2
<1>12. g[L] \in Seq(JoinSteps(graph, N))
  BY <1>10 DEF IsTree
<1>13. r \in JoinPath(graph, N) /\ r.primary = p /\ r.ok = path.ok /\ r.why = path.why /\ r.steps = g[L]
  BY <1>4, <1>12 DEF JoinPath
<1> QED
  BY <1>10, <1>11, <1>13

\* A path that failed keeps its error and joins nothing more.
JoinedTree(graph, N, path) == path \in JoinPath(graph, N) /\ (path.ok => IsTree(graph, N, path.primary, path.steps))

\* A target is joined to the tree, or the path fails.
LEMMA TargetJoined ==
  ASSUME NEW graph, NEW N, NamesClear(graph, N), NEW path, JoinedTree(graph, N, path),
         NEW target \in Tables(graph, N), NEW r, r = JoinTarget(graph, path, target)
  PROVE  /\ JoinedTree(graph, N, r) /\ r.primary = path.primary
         /\ r.ok => /\ path.ok
                    /\ InTree(path.primary, path.steps) \subseteq InTree(r.primary, r.steps)
                    /\ target \in InTree(r.primary, r.steps)
<1> DEFINE joined == InTree(path.primary, path.steps)
           leg == bfsJoin(graph, joined, target)
<1>1. path \in JoinPath(graph, N)
  BY DEF JoinedTree
<1>2. CASE ~path.ok
  <2>1. r = path
    BY <1>2 DEF JoinTarget
  <2> QED
    BY <1>2, <2>1
<1>3. CASE path.ok /\ target \in joined
  <2>1. r = path
    BY <1>3 DEF JoinTarget
  <2> QED
    BY <1>3, <2>1
<1>4. CASE path.ok /\ target \notin joined
  <2>1. IsTree(graph, N, path.primary, path.steps)
    BY <1>4 DEF JoinedTree
  <2>2. joined \in SUBSET Tables(graph, N)
    BY <2>1, TreeEnds
  <2>3. r = Grown(path, leg)
    BY <1>4 DEF JoinTarget
  <2> HIDE DEF leg, joined
  <2>4. PICK W : WalksFrom(graph, N, joined, W)
    BY <2>2, WalksExist
  <2>5. /\ leg.ok \in BOOLEAN /\ leg.why \in Reasons
        /\ leg.ok => \E m \in 0 .. Len(graph.rels), w \in Walk(graph, N) :
                       leg.steps = w.steps /\ Hits(W, m, target) = {w} /\ target \notin Reached(W, m - 1)
    BY <1>4, <2>2, <2>4, JoinFound DEF leg
  <2>6. CASE ~leg.ok
    <3>1. r = [path EXCEPT !.ok = FALSE, !.why = leg.why]
      BY <2>3, <2>6 DEF Grown
    <3>2. r \in JoinPath(graph, N) /\ r.ok = FALSE /\ r.primary = path.primary
      BY <1>1, <2>5, <3>1 DEF JoinPath
    <3> QED
      BY <3>2 DEF JoinedTree
  <2>7. CASE leg.ok
    <3>1. PICK m \in 0 .. Len(graph.rels), w \in Walk(graph, N) : leg.steps = w.steps /\ Hits(W, m, target) = {w}
      BY <2>5, <2>7
    <3>2. w \in W[m] /\ w.at = target
      BY <3>1 DEF Hits
    <3>3. Chained(graph, joined, w)
      BY <2>4, <3>2, WalksChained
    <3>4. /\ r \in JoinPath(graph, N) /\ r.primary = path.primary /\ r.ok = path.ok
          /\ IsTree(graph, N, r.primary, r.steps)
          /\ joined \subseteq InTree(r.primary, r.steps) /\ w.at \in InTree(r.primary, r.steps)
      BY <1>1, <2>1, <2>3, <2>7, <3>1, <3>3, GrownIsTree DEF joined
    <3> QED
      BY <1>4, <3>2, <3>4 DEF JoinedTree, joined
  <2> QED
    BY <2>5, <2>6, <2>7
<1> QED
  BY <1>1, <1>2, <1>3, <1>4 DEF JoinPath

JoinedFirst(graph, tables) == [primary |-> CanonicalOf(graph, tables[1]), ok |-> TRUE, steps |-> <<>>, why |-> ""]
JoinedNext(graph, tables, k, path) == JoinTarget(graph, path, CanonicalOf(graph, tables[k + 1]))
IsInference(graph, tables, g) ==
  g = [k \in 0 .. Len(tables) - 1 |-> IF k = 0 THEN JoinedFirst(graph, tables) ELSE JoinedNext(graph, tables, k, g[k - 1])]

\* One table is a tree.
LEMMA EmptyTree ==
  ASSUME NEW graph, NEW N, NEW t \in Tables(graph, N)
  PROVE  IsTree(graph, N, t, <<>>) /\ InTree(t, <<>>) = {t}
  BY DEF IsTree, InTree

\* The inference begins with the first table.
LEMMA FirstTree ==
  ASSUME NEW graph, NEW N, NEW tables, NEW t \in Tables(graph, N), t = CanonicalOf(graph, tables[1])
  PROVE  /\ JoinedTree(graph, N, JoinedFirst(graph, tables))
         /\ JoinedFirst(graph, tables).primary = t /\ JoinedFirst(graph, tables).steps = <<>>
<1>1. JoinedFirst(graph, tables) \in JoinPath(graph, N)
  BY DEF JoinedFirst, JoinPath, Reasons
<1>2. JoinedFirst(graph, tables).primary = t /\ JoinedFirst(graph, tables).steps = <<>>
  BY DEF JoinedFirst
<1> QED
  BY <1>1, <1>2, EmptyTree DEF JoinedTree

\* g has the paths to more and more of the tables.
Infers(graph, tables, g) ==
  /\ g[0] = JoinedFirst(graph, tables)
  /\ \A k \in 1 .. Len(tables) - 1 : g[k] = JoinedNext(graph, tables, k, g[k - 1])
  /\ InferJoinPath(graph, tables) =
       IF Len(tables) <= 1 THEN Found(<<>>)
       ELSE IF \E i \in DOMAIN tables : AmbiguousName(graph.tables, tables[i])
       THEN Failed("ambiguous table") ELSE g[Len(tables) - 1]

\* The paths to more and more of the tables are a function of their number.
LEMMA Inferred ==
  ASSUME NEW graph, NEW N, NamesClear(graph, N), NEW tables \in Seq(N), Len(tables) >= 1
  PROVE  \E g : Infers(graph, tables, g)
<1> DEFINE L == Len(tables) - 1
           S == {p \in JoinPath(graph, N) : JoinedTree(graph, N, p)}
           step == [k \in 1 .. L |-> [p \in S |-> JoinedNext(graph, tables, k, p)]]
           g == CHOOSE f : IsInference(graph, tables, f)
<1>1. L \in Nat
  OBVIOUS
<1>2. \A i \in 1 .. Len(tables) : CanonicalOf(graph, tables[i]) \in Tables(graph, N)
  <2>1. ASSUME NEW i \in 1 .. Len(tables) PROVE CanonicalOf(graph, tables[i]) \in Tables(graph, N)
    <3>1. tables[i] \in N
      OBVIOUS
    <3> QED
      BY <3>1, CanonicalMatches DEF NamesClear, Tables
  <2> QED
    BY <2>1
<1>3. JoinedFirst(graph, tables) \in S
  <2>1. CanonicalOf(graph, tables[1]) \in Tables(graph, N)
    BY <1>2
  <2> QED
    BY <2>1, FirstTree DEF JoinedTree
<1>4. ASSUME NEW k \in 1 .. L, NEW p \in S PROVE JoinedNext(graph, tables, k, p) \in S
  <2>1. k + 1 \in 1 .. Len(tables)
    OBVIOUS
  <2>2. JoinedTree(graph, N, JoinedNext(graph, tables, k, p))
    BY <1>2, <2>1, TargetJoined DEF JoinedNext
  <2> QED
    BY <2>2 DEF JoinedTree
<1> HIDE DEF S, L
<1>5. step \in [1 .. L -> [S -> S]] /\ \A k \in 1 .. L, s \in S : step[k][s] = JoinedNext(graph, tables, k, s)
  BY <1>4
<1> HIDE DEF step
<1>6. \E f : IsInference(graph, tables, f)
  <2>1. PICK f : Iteration(S, L, step, JoinedFirst(graph, tables), f)
    BY <1>1, <1>3, <1>5, Iterated
  <2>2. f \in [0 .. L -> S] /\ f[0] = JoinedFirst(graph, tables) /\ \A k \in 1 .. L : f[k] = step[k][f[k - 1]]
    BY <2>1 DEF Iteration
  <2>3. ASSUME NEW k \in 0 .. L PROVE f[k] = IF k = 0 THEN JoinedFirst(graph, tables) ELSE JoinedNext(graph, tables, k, f[k - 1])
    <3>1. CASE k = 0
      BY <2>2, <3>1
    <3>2. CASE k # 0
      <4>1. k \in 1 .. L /\ k - 1 \in 0 .. L
        BY <1>1, <3>2
      <4>2. f[k] = step[k][f[k - 1]] /\ f[k - 1] \in S
        BY <2>2, <4>1
      <4> QED
        BY <1>5, <3>2, <4>1, <4>2
    <3> QED
      BY <3>1, <3>2
  <2>4. f = [k \in 0 .. L |-> f[k]]
    BY <2>2
  <2> QED
    BY <2>3, <2>4 DEF IsInference, L
<1>7. IsInference(graph, tables, g)
  BY <1>6
<1>8. InferJoinPath(graph, tables) =
        IF Len(tables) <= 1 THEN Found(<<>>)
        ELSE IF \E i \in DOMAIN tables : AmbiguousName(graph.tables, tables[i])
        THEN Failed("ambiguous table") ELSE g[L]
  BY DEF InferJoinPath, IsInference, JoinedFirst, JoinedNext, CanonicalOf, L
<1> HIDE DEF g
<1>9. \A k \in 0 .. L : g[k] = IF k = 0 THEN JoinedFirst(graph, tables) ELSE JoinedNext(graph, tables, k, g[k - 1])
  BY <1>7 DEF IsInference, L
<1>10. g[0] = JoinedFirst(graph, tables) /\ \A k \in 1 .. L : g[k] = JoinedNext(graph, tables, k, g[k - 1])
  BY <1>1, <1>9
<1> QED
  BY <1>8, <1>10 DEF Infers, L

\* The joins that are found are a tree with every table of the query.
LEMMA InferredTree ==
  ASSUME NEW graph, NEW N, NamesClear(graph, N), NEW tables \in Seq(N), Len(tables) >= 1,
         NEW path, path = InferJoinPath(graph, tables), path.ok
  PROVE  LET primary == CanonicalOf(graph, tables[1])
         IN  /\ IsTree(graph, N, primary, path.steps)
             /\ \A i \in DOMAIN tables : CanonicalOf(graph, tables[i]) \in InTree(primary, path.steps)
<1> DEFINE L == Len(tables) - 1
           T(i) == CanonicalOf(graph, tables[i])
<1>1. L \in Nat /\ DOMAIN tables = 1 .. L + 1
  OBVIOUS
<1>2. ASSUME NEW i \in 1 .. L + 1 PROVE T(i) \in Tables(graph, N)
  <2>1. tables[i] \in N
    OBVIOUS
  <2> QED
    BY <2>1, CanonicalMatches DEF NamesClear, Tables
<1>3. PICK g : Infers(graph, tables, g)
  BY Inferred
<1>4. /\ g[0] = JoinedFirst(graph, tables)
      /\ \A k \in 1 .. Len(tables) - 1 : g[k] = JoinedNext(graph, tables, k, g[k - 1])
      /\ path = IF Len(tables) <= 1 THEN Found(<<>>)
                ELSE IF \E i \in DOMAIN tables : AmbiguousName(graph.tables, tables[i])
                THEN Failed("ambiguous table") ELSE g[Len(tables) - 1]
  BY <1>3 DEF Infers
<1> HIDE DEF L, T
<1>5. \A k \in 1 .. L : g[k] = JoinedNext(graph, tables, k, g[k - 1])
  BY <1>4 DEF L
<1> DEFINE Good(k) == /\ JoinedTree(graph, N, g[k]) /\ g[k].primary = T(1)
                      /\ g[k].ok => \A i \in 1 .. k + 1 : T(i) \in InTree(T(1), g[k].steps)
           S == {k \in 0 .. L : Good(k)}
<1>6. 0 \in S
  <2>1. T(1) \in Tables(graph, N)
    BY <1>1, <1>2
  <2>2. g[0] = JoinedFirst(graph, tables)
    BY <1>4
  <2>3. JoinedTree(graph, N, g[0]) /\ g[0].primary = T(1) /\ g[0].steps = <<>>
    BY <2>1, <2>2, FirstTree DEF T
  <2>4. T(1) \in InTree(T(1), <<>>)
    BY <2>1, EmptyTree
  <2>5. \A i \in 1 .. 0 + 1 : i = 1
    OBVIOUS
  <2>6. \A i \in 1 .. 0 + 1 : T(i) \in InTree(T(1), g[0].steps)
    BY <2>3, <2>4, <2>5
  <2>7. 0 \in 0 .. L
    BY <1>1
  <2> QED
    BY <2>3, <2>6, <2>7
<1>7. ASSUME NEW k \in 0 .. L - 1, k \in S PROVE k + 1 \in S
  <2>1. k + 1 \in 0 .. L /\ k + 1 \in 1 .. L /\ (k + 1) - 1 = k /\ (k + 1) + 1 \in 1 .. L + 1
    BY <1>1
  <2>2. g[k + 1] = JoinTarget(graph, g[k], T((k + 1) + 1))
    BY <1>5, <2>1 DEF JoinedNext, T
  <2>3. T((k + 1) + 1) \in Tables(graph, N)
    BY <1>2, <2>1
  <2>4. Good(k)
    BY <1>7
  <2>5. /\ JoinedTree(graph, N, g[k + 1]) /\ g[k + 1].primary = g[k].primary
        /\ g[k + 1].ok => /\ g[k].ok
                          /\ InTree(g[k].primary, g[k].steps) \subseteq InTree(g[k + 1].primary, g[k + 1].steps)
                          /\ T((k + 1) + 1) \in InTree(g[k + 1].primary, g[k + 1].steps)
    BY <2>2, <2>3, <2>4, TargetJoined
  <2>6. \A i : i \in 1 .. (k + 1) + 1 <=> i \in 1 .. k + 1 \/ i = (k + 1) + 1
    OBVIOUS
  <2> QED
    BY <2>1, <2>4, <2>5, <2>6
<1> HIDE DEF S
<1>8. 0 .. L \subseteq S
  BY <1>1, <1>6, <1>7, UpToInduction
<1>9. L \in S
  BY <1>1, <1>8
<1>10. Good(L)
  BY <1>9 DEF S
<1>11. CASE Len(tables) <= 1
  <2>1. path = Found(<<>>)
    BY <1>4, <1>11
  <2>2. L = 0
    BY <1>1, <1>11 DEF L
  <2>3. path.steps = <<>> /\ L = 0
    BY <2>1, <2>2, Answers
  <2>4. T(1) \in Tables(graph, N) /\ DOMAIN tables = {1}
    BY <1>1, <1>2, <2>3
  <2>5. IsTree(graph, N, T(1), path.steps) /\ T(1) \in InTree(T(1), path.steps)
    BY <2>4, <2>3, EmptyTree
  <2> QED
    BY <2>4, <2>5 DEF T
<1>12. CASE ~(Len(tables) <= 1)
  <2>1. path = g[L]
    <3>1. path = g[L] \/ path = Failed("ambiguous table")
      <4>1. path = g[Len(tables) - 1] \/ path = Failed("ambiguous table")
        BY <1>4, <1>12
      <4> QED
        BY <4>1 DEF L
    <3>2. path # Failed("ambiguous table")
      BY Answers
    <3> QED
      BY <3>1, <3>2
  <2>2. IsTree(graph, N, T(1), path.steps) /\ \A i \in 1 .. L + 1 : T(i) \in InTree(T(1), path.steps)
    BY <1>10, <2>1 DEF JoinedTree
  <2> QED
    BY <1>1, <2>2 DEF T
<1> QED
  BY <1>11, <1>12

-----------------------------------------------------------------------------
(* The shortest walks are the shortest routes. *)

\* A function of the numbers up to n is a sequence.
LEMMA FunctionIsSequence ==
  ASSUME NEW R, NEW n \in Nat, NEW s \in [1 .. n -> R]
  PROVE  s \in Seq(R) /\ Len(s) = n
  OBVIOUS

\* x is w with one step more: the k + 1st, along i to u.
StepAdded(w, k, i, u, x) ==
  x.at = u /\ x.steps[k + 1].rel = i /\ \A j \in 1 .. k : x.steps[j] = w.steps[j]

\* An extended walk has the steps of the walk and one more.
LEMMA LongerSteps ==
  ASSUME NEW graph, NEW N, NEW w \in Walk(graph, N), NEW k \in Nat, Len(w.steps) = k, NEW x,
         NEW i \in DOMAIN graph.rels, NEW u \in Tables(graph, N), x = Extended(w, i, u)
  PROVE  StepAdded(w, k, i, u, x)
<1> DEFINE new == [from |-> w.at, table |-> u, rel |-> i]
           old == w.steps
<1>1. old \in Seq(JoinSteps(graph, N)) /\ new \in JoinSteps(graph, N)
  BY DEF Walk, JoinSteps
<1>2. x.at = u /\ x.steps = Append(old, new) /\ new.rel = i
  BY DEF Extended
<1> HIDE DEF old, new
<1>3. Len(old) = k
  BY DEF old
<1>4. x.steps[k + 1] = new /\ \A j \in 1 .. k : x.steps[j] = old[j]
  BY <1>1, <1>2, <1>3
<1>5. \A j \in 1 .. k : x.steps[j] = w.steps[j]
  BY <1>4 DEF old
<1> QED
  BY <1>2, <1>4, <1>5 DEF StepAdded

\* The ends of a relationship are tables.
LEMMA LinkedTables ==
  ASSUME NEW graph, NEW N, NamesClear(graph, N), NEW i \in DOMAIN graph.rels
  PROVE  Link(graph, i) \subseteq Tables(graph, N)
<1> DEFINE Rel == [from : N, to : N, bidi : BOOLEAN]
<1>1. graph.rels \in Seq(Rel)
  BY DEF NamesClear
<1> HIDE DEF Rel
<1>2. graph.rels[i] \in Rel
  BY <1>1
<1>3. graph.rels[i].from \in N /\ graph.rels[i].to \in N
  BY <1>2 DEF Rel
<1>4. CanonicalOf(graph, graph.rels[i].from) \in Tables(graph, N) /\ CanonicalOf(graph, graph.rels[i].to) \in Tables(graph, N)
  BY <1>3, CanonicalMatches DEF NamesClear, Tables
<1> QED
  BY <1>4 DEF Link, CanonicalOf

Beyond(graph, i, ends) == {u \in Link(graph, i) : \E t \in ends : Link(graph, i) = {t, u}}
AreEnds(graph, a, s, g) == g = [k \in 0 .. Len(s) |-> IF k = 0 THEN {a} ELSE Beyond(graph, s[k], g[k - 1])]

EndsAt(graph, a, s, n, g) ==
  /\ Ends(graph, a, s) = g[n] /\ g[0] = {a}
  /\ \A k \in 1 .. n : g[k] = Beyond(graph, s[k], g[k - 1])

\* The ends of a route are a function of the number of relationships followed.
LEMMA EndsExist ==
  ASSUME NEW graph, NEW a, NEW s, Len(s) \in Nat
  PROVE  \E g : EndsAt(graph, a, s, Len(s), g)
<1> DEFINE L == Len(s)
           All == {a} \cup UNION {Link(graph, s[k]) : k \in 1 .. L}
           S == SUBSET All
           step == [k \in 1 .. L |-> [X \in S |-> Beyond(graph, s[k], X)]]
           g == CHOOSE f : AreEnds(graph, a, s, f)
<1>1. {a} \in S
  OBVIOUS
<1>2. \A k \in 1 .. L, X \in S : Beyond(graph, s[k], X) \in S
  BY DEF Beyond
<1>3. L \in Nat
  OBVIOUS
<1> HIDE DEF S, L
<1>4. step \in [1 .. L -> [S -> S]] /\ \A k \in 1 .. L, X \in S : step[k][X] = Beyond(graph, s[k], X)
  BY <1>2
<1> HIDE DEF step
<1>5. \E f : AreEnds(graph, a, s, f)
  <2>1. PICK f : Iteration(S, L, step, {a}, f)
    BY <1>1, <1>3, <1>4, Iterated
  <2>2. f \in [0 .. L -> S] /\ f[0] = {a} /\ \A k \in 1 .. L : f[k] = step[k][f[k - 1]]
    BY <2>1 DEF Iteration
  <2>3. ASSUME NEW k \in 0 .. L PROVE f[k] = IF k = 0 THEN {a} ELSE Beyond(graph, s[k], f[k - 1])
    <3>1. CASE k = 0
      BY <2>2, <3>1
    <3>2. CASE k # 0
      <4>1. k \in 1 .. L /\ k - 1 \in 0 .. L
        BY <1>3, <3>2
      <4>2. f[k] = step[k][f[k - 1]] /\ f[k - 1] \in S
        BY <2>2, <4>1
      <4> QED
        BY <1>4, <3>2, <4>1, <4>2
    <3> QED
      BY <3>1, <3>2
  <2>4. f = [k \in 0 .. L |-> f[k]]
    BY <2>2
  <2> QED
    BY <2>3, <2>4 DEF AreEnds, L
<1>6. AreEnds(graph, a, s, g)
  BY <1>5
<1>7. Ends(graph, a, s) = g[L]
  BY DEF Ends, AreEnds, Beyond, L
<1> HIDE DEF g
<1>8. \A k \in 0 .. L : g[k] = IF k = 0 THEN {a} ELSE Beyond(graph, s[k], g[k - 1])
  BY <1>6 DEF AreEnds, L
<1>9. g[0] = {a} /\ \A k \in 1 .. L : g[k] = Beyond(graph, s[k], g[k - 1])
  BY <1>3, <1>8
<1> QED
  BY <1>7, <1>9 DEF EndsAt, L

\* The walks from one table.
WalksOf(graph, N, a, W) == WalksFrom(graph, N, {a}, W)

\* The first k steps of w are along those of s.
Along(w, s, k) == \A j \in 1 .. k : w.steps[j].rel = s[j]

\* A route ends where the walk along it does.
LEMMA EndsOfWalks ==
  ASSUME NEW graph, NEW N, NamesClear(graph, N), NEW a \in Tables(graph, N), NEW W, WalksOf(graph, N, a, W),
         NEW n \in 0 .. Len(graph.rels), NEW s \in [1 .. n -> DOMAIN graph.rels], NEW b
  PROVE  b \in Ends(graph, a, s) <=> \E w \in W[n] : w.at = b /\ Along(w, s, n)
<1>1. Len(graph.rels) \in Nat /\ n \in Nat
  BY DEF NamesClear
<1>2. Len(s) = n
  BY <1>1, FunctionIsSequence
<1>3. PICK g : EndsAt(graph, a, s, n, g)
  BY <1>1, <1>2, EndsExist
<1>4. /\ Ends(graph, a, s) = g[n] /\ g[0] = {a}
      /\ \A k \in 1 .. n : g[k] = Beyond(graph, s[k], g[k - 1])
  BY <1>3 DEF EndsAt
<1> DEFINE Good(k) == \A c : c \in g[k] <=> \E w \in W[k] : w.at = c /\ Along(w, s, k)
           S == {k \in 0 .. n : Good(k)}
<1>5. 0 \in S
  <2>1. W[0] = {[at |-> t, steps |-> <<>>] : t \in {a}}
    BY DEF WalksOf, WalksFrom
  <2>2. W[0] = {[at |-> a, steps |-> <<>>]}
    BY <2>1
  <2>3. \A w : Along(w, s, 0)
    BY DEF Along
  <2>4. Good(0)
    BY <1>4, <2>2, <2>3
  <2> QED
    BY <1>1, <2>4
<1>6. ASSUME NEW k \in 0 .. n - 1, k \in S PROVE k + 1 \in S
  <2>1. /\ k \in Nat /\ k + 1 \in 0 .. n /\ k + 1 \in 1 .. n /\ (k + 1) - 1 = k
        /\ k + 1 \in 1 .. Len(graph.rels) /\ k \in 0 .. Len(graph.rels)
    BY <1>1
  <2>2. g[k + 1] = Beyond(graph, s[k + 1], g[k]) /\ s[k + 1] \in DOMAIN graph.rels
    BY <1>4, <2>1
  <2>3. Good(k)
    BY <1>6
  <2>4. \A w \in W[k] : w \in Walk(graph, N) /\ Len(w.steps) = k
    BY <2>1, WalksChained DEF WalksOf
  <2>5. \A j : j \in 1 .. k + 1 <=> j \in 1 .. k \/ j = k + 1
    BY <2>1
  <2>6. ASSUME NEW c, c \in g[k + 1] PROVE \E x \in W[k + 1] : x.at = c /\ Along(x, s, k + 1)
    <3>1. c \in Link(graph, s[k + 1])
      BY <2>2, <2>6 DEF Beyond
    <3>2. PICK t \in g[k] : Link(graph, s[k + 1]) = {t, c}
      BY <2>2, <2>6 DEF Beyond
    <3>3. PICK w \in W[k] : w.at = t /\ Along(w, s, k)
      BY <2>3
    <3>4. c \in Tables(graph, N)
      BY <2>2, <3>1, LinkedTables
    <3> DEFINE x == Extended(w, s[k + 1], c)
    <3>5. Longer(graph, N, w, x)
      BY <2>2, <3>2, <3>3, <3>4 DEF Longer
    <3>6. w \in Walk(graph, N) /\ Len(w.steps) = k
      BY <2>4
    <3>7. StepAdded(w, k, s[k + 1], c, x)
      BY <2>1, <2>2, <3>4, <3>6, LongerSteps
    <3> HIDE DEF x
    <3>8. /\ x.at = c /\ x.steps[k + 1].rel = s[k + 1]
          /\ \A j \in 1 .. k : x.steps[j] = w.steps[j]
      BY <3>7 DEF StepAdded
    <3>9. x \in W[k + 1]
      BY <2>1, <3>5, LongerWalks DEF WalksOf
    <3>10. Along(x, s, k + 1)
      BY <2>5, <3>3, <3>8 DEF Along
    <3> QED
      BY <3>8, <3>9, <3>10
  <2>7. ASSUME NEW x \in W[k + 1], Along(x, s, k + 1) PROVE x.at \in g[k + 1]
    <3>1. PICK w \in W[k] : Longer(graph, N, w, x)
      BY <2>1, LongerWalks DEF WalksOf
    <3>2. PICK i \in DOMAIN graph.rels, u \in Tables(graph, N) : Link(graph, i) = {w.at, u} /\ x = Extended(w, i, u)
      BY <3>1 DEF Longer
    <3>3. w \in Walk(graph, N) /\ Len(w.steps) = k
      BY <2>4
    <3>4. StepAdded(w, k, i, u, x)
      BY <2>1, <3>2, <3>3, LongerSteps
    <3>5. /\ x.at = u /\ x.steps[k + 1].rel = i
          /\ \A j \in 1 .. k : x.steps[j] = w.steps[j]
      BY <3>4 DEF StepAdded
    <3>6. i = s[k + 1] /\ Along(w, s, k)
      BY <2>5, <2>7, <3>5 DEF Along
    <3>7. w.at \in g[k]
      BY <2>3, <3>6
    <3> QED
      BY <2>2, <3>2, <3>5, <3>6, <3>7 DEF Beyond
  <2>8. Good(k + 1)
    BY <2>6, <2>7
  <2> QED
    BY <2>1, <2>8
<1> HIDE DEF S
<1>7. 0 .. n \subseteq S
  BY <1>1, <1>5, <1>6, UpToInduction
<1>8. n \in S
  BY <1>1, <1>7
<1> QED
  BY <1>4, <1>8 DEF S

\* A walk is told by its relationships.
LEMMA WalkToldApart ==
  ASSUME NEW graph, NEW N, NamesClear(graph, N), NEW a \in Tables(graph, N), NEW W, WalksOf(graph, N, a, W),
         NEW n \in 0 .. Len(graph.rels), NEW v \in W[n], NEW w \in W[n], NEW s, Along(v, s, n), Along(w, s, n)
  PROVE  v = w
<1>1. Len(graph.rels) \in Nat /\ n \in Nat
  BY DEF NamesClear
<1> DEFINE Good(k) == \A x, y \in W[k] : Along(x, s, k) /\ Along(y, s, k) => x = y
           S == {k \in 0 .. n : Good(k)}
<1>2. 0 \in S
  <2>1. W[0] = {[at |-> t, steps |-> <<>>] : t \in {a}}
    BY DEF WalksOf, WalksFrom
  <2>2. W[0] = {[at |-> a, steps |-> <<>>]}
    BY <2>1
  <2> QED
    BY <1>1, <2>2
<1>3. ASSUME NEW k \in 0 .. n - 1, k \in S PROVE k + 1 \in S
  <2>1. /\ k \in Nat /\ k + 1 \in 0 .. n /\ k + 1 \in 1 .. n /\ (k + 1) - 1 = k
        /\ k + 1 \in 1 .. Len(graph.rels) /\ k \in 0 .. Len(graph.rels)
    BY <1>1
  <2>2. Good(k)
    BY <1>3
  <2>3. \A x \in W[k] : x \in Walk(graph, N) /\ Len(x.steps) = k
    BY <2>1, WalksChained DEF WalksOf
  <2>4. \A j : j \in 1 .. k + 1 <=> j \in 1 .. k \/ j = k + 1
    BY <2>1
  <2>5. ASSUME NEW x \in W[k + 1], Along(x, s, k + 1)
        PROVE  \E p \in W[k], u \in Tables(graph, N) :
                 /\ Along(p, s, k) /\ Link(graph, s[k + 1]) = {p.at, u}
                 /\ x = Extended(p, s[k + 1], u)
    <3>1. PICK p \in W[k] : Longer(graph, N, p, x)
      BY <2>1, LongerWalks DEF WalksOf
    <3>2. PICK i \in DOMAIN graph.rels, u \in Tables(graph, N) : Link(graph, i) = {p.at, u} /\ x = Extended(p, i, u)
      BY <3>1 DEF Longer
    <3>3. p \in Walk(graph, N) /\ Len(p.steps) = k
      BY <2>3
    <3>4. StepAdded(p, k, i, u, x)
      BY <2>1, <3>2, <3>3, LongerSteps
    <3>5. x.steps[k + 1].rel = i /\ \A j \in 1 .. k : x.steps[j] = p.steps[j]
      BY <3>4 DEF StepAdded
    <3>6. i = s[k + 1] /\ Along(p, s, k)
      BY <2>4, <2>5, <3>5 DEF Along
    <3> QED
      BY <3>2, <3>6
  <2>6. ASSUME NEW x \in W[k + 1], NEW y \in W[k + 1], Along(x, s, k + 1), Along(y, s, k + 1) PROVE x = y
    <3>1. PICK p \in W[k], u \in Tables(graph, N) :
            Along(p, s, k) /\ Link(graph, s[k + 1]) = {p.at, u} /\ x = Extended(p, s[k + 1], u)
      BY <2>5, <2>6
    <3>2. PICK q \in W[k], t \in Tables(graph, N) :
            Along(q, s, k) /\ Link(graph, s[k + 1]) = {q.at, t} /\ y = Extended(q, s[k + 1], t)
      BY <2>5, <2>6
    <3>3. p = q
      BY <2>2, <3>1, <3>2
    <3>4. u = t
      <4>1. u \in {p.at, t} /\ t \in {p.at, u}
        BY <3>1, <3>2, <3>3
      <4> QED
        BY <4>1
    <3> QED
      BY <3>1, <3>2, <3>3, <3>4
  <2> QED
    BY <2>1, <2>6
<1> HIDE DEF S
<1>4. 0 .. n \subseteq S
  BY <1>1, <1>2, <1>3, UpToInduction
<1>5. n \in S
  BY <1>1, <1>4
<1> QED
  BY <1>5 DEF S

RelsOf(w, n) == [j \in 1 .. n |-> w.steps[j].rel]
HitRoutes(W, n, to) == {RelsOf(w, n) : w \in Hits(W, n, to)}

\* The routes are what the walks to the table follow.
LEMMA RoutesAreHits ==
  ASSUME NEW graph, NEW N, NamesClear(graph, N), NEW f \in N, NEW t \in N,
         NEW W, WalksOf(graph, N, CanonicalOf(graph, f), W), NEW s
  PROVE  s \in Routes(graph, f, t, DOMAIN graph.rels) <=>
           \E n \in 0 .. Len(graph.rels) :
             s \in [1 .. n -> DOMAIN graph.rels] /\ \E w \in Hits(W, n, CanonicalOf(graph, t)) : Along(w, s, n)
<1> DEFINE R == DOMAIN graph.rels
           a == CanonicalOf(graph, f)
           b == CanonicalOf(graph, t)
<1>1. a \in Tables(graph, N)
  BY CanonicalMatches DEF NamesClear, Tables
<1>2. s \in Routes(graph, f, t, R) <=>
        (\E n \in 0 .. Len(graph.rels) : s \in [1 .. n -> R]) /\ b \in Ends(graph, a, s)
  BY DEF Routes, CanonicalOf
<1>3. ASSUME NEW n \in 0 .. Len(graph.rels), s \in [1 .. n -> R]
      PROVE  b \in Ends(graph, a, s) <=> \E w \in Hits(W, n, b) : Along(w, s, n)
  <2>1. b \in Ends(graph, a, s) <=> \E w \in W[n] : w.at = b /\ Along(w, s, n)
    BY <1>1, <1>3, EndsOfWalks
  <2> QED
    BY <2>1 DEF Hits
<1> QED
  BY <1>2, <1>3

\* The shortest routes are what the shortest walks follow.
LEMMA ShortestHits ==
  ASSUME NEW graph, NEW N, NamesClear(graph, N), NEW f \in N, NEW t \in N,
         NEW W, WalksOf(graph, N, CanonicalOf(graph, f), W),
         NEW m \in 0 .. Len(graph.rels), Hits(W, m, CanonicalOf(graph, t)) # {},
         CanonicalOf(graph, t) \notin Reached(W, m - 1)
  PROVE  /\ Shortest(Routes(graph, f, t, DOMAIN graph.rels)) = HitRoutes(W, m, CanonicalOf(graph, t))
         /\ HitRoutes(W, m, CanonicalOf(graph, t)) \subseteq Routes(graph, f, t, DOMAIN graph.rels)
<1> DEFINE R == DOMAIN graph.rels
           b == CanonicalOf(graph, t)
           all == Routes(graph, f, t, R)
<1>1. Len(graph.rels) \in Nat /\ m \in Nat
  BY DEF NamesClear
<1>2. ASSUME NEW s \in all
      PROVE  /\ Len(s) \in Nat /\ Len(s) >= m
             /\ Len(s) = m => \E w \in Hits(W, m, b) : s = RelsOf(w, m)
  <2>1. PICK n \in 0 .. Len(graph.rels) : s \in [1 .. n -> R] /\ \E w \in Hits(W, n, b) : Along(w, s, n)
    BY RoutesAreHits
  <2>2. n \in Nat /\ Len(s) = n
    BY <1>1, <2>1, FunctionIsSequence
  <2>3. PICK w \in Hits(W, n, b) : Along(w, s, n)
    BY <2>1
  <2>4. w \in W[n] /\ w.at = b
    BY <2>3 DEF Hits
  <2>5. n \in 0 .. m - 1 => b \in Reached(W, m - 1)
    BY <2>4 DEF Reached
  <2>6. n >= m
    BY <1>1, <2>2, <2>5
  <2>7. s = RelsOf(w, n)
    BY <2>1, <2>3 DEF Along, RelsOf
  <2> QED
    BY <2>2, <2>3, <2>6, <2>7
<1>3. ASSUME NEW w \in Hits(W, m, b) PROVE RelsOf(w, m) \in all /\ Len(RelsOf(w, m)) = m
  <2>1. w \in Walk(graph, N) /\ Len(w.steps) = m
    BY WalksChained DEF Hits, WalksOf
  <2>2. ASSUME NEW j \in 1 .. m PROVE w.steps[j].rel \in R
    <3>1. w.steps \in Seq(JoinSteps(graph, N))
      BY <2>1 DEF Walk
    <3>2. w.steps[j] \in JoinSteps(graph, N)
      BY <2>1, <3>1
    <3> QED
      BY <3>2 DEF JoinSteps
  <2>3. RelsOf(w, m) \in [1 .. m -> R]
    BY <2>2 DEF RelsOf
  <2>4. Along(w, RelsOf(w, m), m)
    BY DEF Along, RelsOf
  <2>5. Len(RelsOf(w, m)) = m
    BY <1>1, <2>3, FunctionIsSequence
  <2> QED
    BY <2>3, <2>4, <2>5, RoutesAreHits
<1> HIDE DEF all, b
<1>4. ASSUME NEW s \in Shortest(all) PROVE \E w \in Hits(W, m, b) : s = RelsOf(w, m)
  <2>1. PICK w \in Hits(W, m, b) : TRUE
    BY DEF b
  <2>2. s \in all /\ Len(s) <= Len(RelsOf(w, m))
    BY <1>3 DEF Shortest
  <2>3. Len(s) = m
    BY <1>1, <1>2, <1>3, <2>1, <2>2
  <2> QED
    BY <1>2, <2>2, <2>3
<1>5. ASSUME NEW w \in Hits(W, m, b) PROVE RelsOf(w, m) \in Shortest(all)
  <2>1. RelsOf(w, m) \in all /\ Len(RelsOf(w, m)) = m
    BY <1>3
  <2>2. \A r \in all : Len(r) >= m /\ Len(r) \in Nat
    BY <1>2
  <2>3. \A r \in all : Len(RelsOf(w, m)) <= Len(r)
    BY <1>1, <2>1, <2>2
  <2> QED
    BY <2>1, <2>3 DEF Shortest
<1>6. Shortest(all) = HitRoutes(W, m, b)
  BY <1>4, <1>5 DEF HitRoutes
<1>7. HitRoutes(W, m, b) \subseteq all
  BY <1>3 DEF HitRoutes
<1> QED
  BY <1>6, <1>7 DEF all, b

\* Two walks that follow the same relationships are one.
LEMMA RelsTellApart ==
  ASSUME NEW graph, NEW N, NamesClear(graph, N), NEW a \in Tables(graph, N), NEW W, WalksOf(graph, N, a, W),
         NEW m \in 0 .. Len(graph.rels), NEW v \in W[m], NEW w \in W[m], RelsOf(v, m) = RelsOf(w, m)
  PROVE  v = w
<1> DEFINE s == RelsOf(v, m)
<1>1. Along(v, s, m)
  BY DEF Along, RelsOf
<1>2. Along(w, s, m)
  <2>1. Along(w, RelsOf(w, m), m)
    BY DEF Along, RelsOf
  <2> QED
    BY <2>1
<1> HIDE DEF s
<1> QED
  BY <1>1, <1>2, WalkToldApart

\* Two tables are joined just if there is one shortest route.
LEMMA JoinIsShortest ==
  ASSUME NEW graph, NEW N, NamesClear(graph, N), NEW f \in N, NEW t \in N, CanonicalOf(graph, f) # CanonicalOf(graph, t),
         NEW leg, leg = bfsJoin(graph, {CanonicalOf(graph, f)}, CanonicalOf(graph, t))
  PROVE  LET all == Routes(graph, f, t, DOMAIN graph.rels)
         IN  /\ leg.ok \in BOOLEAN
             /\ leg.ok => \E route \in all : Shortest(all) = {route}
             /\ leg.why = "no path" => all = {}
             /\ leg.why = "ambiguous path" => Several(Shortest(all))
<1> DEFINE R == DOMAIN graph.rels
           a == CanonicalOf(graph, f)
           b == CanonicalOf(graph, t)
           all == Routes(graph, f, t, R)
<1>1. a \in Tables(graph, N) /\ b \in Tables(graph, N)
  BY CanonicalMatches DEF NamesClear, Tables
<1>2. PICK W : WalksOf(graph, N, a, W)
  BY <1>1, WalksExist DEF WalksOf
<1>3. {a} \in SUBSET Tables(graph, N) /\ b \notin {a}
  BY <1>1
<1>4. /\ leg.ok \in BOOLEAN
      /\ leg.ok => \E m \in 0 .. Len(graph.rels), w \in Walk(graph, N) :
                        leg.steps = w.steps /\ Hits(W, m, b) = {w} /\ b \notin Reached(W, m - 1)
      /\ leg.why = "no path" => b \notin Reached(W, Len(graph.rels))
      /\ leg.why = "ambiguous path" =>
              \E m \in 0 .. Len(graph.rels) : Several(Hits(W, m, b)) /\ b \notin Reached(W, m - 1)
  BY <1>1, <1>2, <1>3, JoinFound DEF WalksOf
<1>5. ASSUME leg.ok PROVE \E route \in all : Shortest(all) = {route}
  <2>1. PICK m \in 0 .. Len(graph.rels), w \in Walk(graph, N) : Hits(W, m, b) = {w} /\ b \notin Reached(W, m - 1)
    BY <1>4, <1>5
  <2>2. Hits(W, m, b) # {} /\ HitRoutes(W, m, b) = {RelsOf(w, m)}
    BY <2>1 DEF HitRoutes
  <2>3. Shortest(all) = HitRoutes(W, m, b) /\ HitRoutes(W, m, b) \subseteq all
    BY <1>2, <2>1, <2>2, ShortestHits
  <2> QED
    BY <2>2, <2>3
<1>6. ASSUME leg.why = "no path" PROVE all = {}
  <2>1. ASSUME NEW s \in all PROVE FALSE
    <3>1. PICK n \in 0 .. Len(graph.rels) : \E w \in Hits(W, n, b) : TRUE
      BY <1>2, RoutesAreHits
    <3>2. b \in Reached(W, Len(graph.rels))
      BY <3>1 DEF Hits, Reached
    <3> QED
      BY <1>4, <1>6, <3>2
  <2> QED
    BY <2>1
<1>7. ASSUME leg.why = "ambiguous path" PROVE Several(Shortest(all))
  <2>1. PICK m \in 0 .. Len(graph.rels) : Several(Hits(W, m, b)) /\ b \notin Reached(W, m - 1)
    BY <1>4, <1>7
  <2>2. PICK v \in Hits(W, m, b), w \in Hits(W, m, b) : v # w
    BY <2>1 DEF Several
  <2>3. Hits(W, m, b) # {} /\ b \notin Reached(W, m - 1)
    BY <2>1, <2>2
  <2>4. Shortest(all) = HitRoutes(W, m, b)
    BY <1>2, <2>3, ShortestHits
  <2>5. v \in W[m] /\ w \in W[m]
    BY DEF Hits
  <2>6. RelsOf(v, m) # RelsOf(w, m)
    BY <1>1, <1>2, <2>2, <2>5, RelsTellApart
  <2>7. RelsOf(v, m) \in HitRoutes(W, m, b) /\ RelsOf(w, m) \in HitRoutes(W, m, b)
    BY DEF HitRoutes
  <2> QED
    BY <2>4, <2>6, <2>7 DEF Several
<1> QED
  BY <1>4, <1>5, <1>6, <1>7

\* From a table to itself the shortest route is none.
LEMMA NoWayToGo ==
  ASSUME NEW graph, NEW N, NamesClear(graph, N), NEW f \in N, NEW t \in N, CanonicalOf(graph, f) = CanonicalOf(graph, t)
  PROVE  LET all == Routes(graph, f, t, DOMAIN graph.rels)
         IN  \E route \in all : Shortest(all) = {route}
<1> DEFINE a == CanonicalOf(graph, f)
           all == Routes(graph, f, t, DOMAIN graph.rels)
           w == [at |-> a, steps |-> <<>>]
<1>1. a \in Tables(graph, N)
  BY CanonicalMatches DEF NamesClear, Tables
<1>2. PICK W : WalksOf(graph, N, a, W)
  BY <1>1, WalksExist DEF WalksOf
<1>3. W[0] = {[at |-> x, steps |-> <<>>] : x \in {a}}
  BY <1>2 DEF WalksOf, WalksFrom
<1>4. W[0] = {w} /\ w.at = a
  BY <1>3
<1> HIDE DEF w
<1>5. Hits(W, 0, a) = {w} /\ 0 - 1 = -1
  BY <1>4 DEF Hits
<1>6. a \notin Reached(W, 0 - 1)
  BY <1>2, <1>5, ReachedFirst DEF WalksOf
<1>7. 0 \in 0 .. Len(graph.rels)
  BY DEF NamesClear
<1>8. Hits(W, 0, a) # {} /\ HitRoutes(W, 0, a) = {RelsOf(w, 0)}
  BY <1>5 DEF HitRoutes
<1>9. Shortest(all) = HitRoutes(W, 0, a) /\ HitRoutes(W, 0, a) \subseteq all
  BY <1>2, <1>6, <1>7, <1>8, ShortestHits
<1> QED
  BY <1>8, <1>9

\* The joins of two tables are found just if one route between them is the shortest.
LEMMA InferredShortest ==
  ASSUME NEW graph, NEW N, NamesClear(graph, N), NEW tables \in Seq(N), Len(tables) = 2,
         ~\E i \in DOMAIN tables : AmbiguousName(graph.tables, tables[i]),
         NEW path, path = InferJoinPath(graph, tables)
  PROVE  LET all == Routes(graph, tables[1], tables[2], DOMAIN graph.rels)
         IN  /\ path.ok => \E route \in all : Shortest(all) = {route}
             /\ path.why = "no path" => all = {}
             /\ path.why = "ambiguous path" => Several(Shortest(all))
<1> DEFINE f == tables[1]
           t == tables[2]
           a == CanonicalOf(graph, f)
           b == CanonicalOf(graph, t)
           all == Routes(graph, f, t, DOMAIN graph.rels)
           start == JoinedFirst(graph, tables)
<1>1. f \in N /\ t \in N
  OBVIOUS
<1>2. a \in Tables(graph, N) /\ b \in Tables(graph, N)
  BY <1>1, CanonicalMatches DEF NamesClear, Tables
<1>3. PICK g : Infers(graph, tables, g)
  <2>1. Len(tables) >= 1
    OBVIOUS
  <2> QED
    BY <2>1, Inferred
<1>4. /\ g[0] = start
      /\ \A k \in 1 .. Len(tables) - 1 : g[k] = JoinedNext(graph, tables, k, g[k - 1])
      /\ path = IF Len(tables) <= 1 THEN Found(<<>>)
                ELSE IF \E i \in DOMAIN tables : AmbiguousName(graph.tables, tables[i])
                THEN Failed("ambiguous table") ELSE g[Len(tables) - 1]
  BY <1>3 DEF Infers
<1>5. 1 \in 1 .. Len(tables) - 1 /\ Len(tables) - 1 = 1 /\ 1 - 1 = 0 /\ 1 + 1 = 2 /\ ~(Len(tables) <= 1)
  OBVIOUS
<1>6. g[1] = JoinedNext(graph, tables, 1, g[0])
  BY <1>4, <1>5
<1>7. path = g[1]
  BY <1>4, <1>5
<1>8. path = JoinTarget(graph, start, b)
  BY <1>4, <1>5, <1>6, <1>7 DEF JoinedNext
<1>9. start.primary = a /\ start.ok = TRUE /\ start.steps = <<>> /\ start.why = ""
  BY DEF JoinedFirst
<1>10. start \in JoinPath(graph, N)
  BY <1>2, FirstTree DEF JoinedTree
<1> HIDE DEF start
<1>11. InTree(start.primary, start.steps) = {a}
  <2>1. InTree(a, <<>>) = {a}
    BY <1>2, EmptyTree
  <2> HIDE DEF a
  <2> QED
    BY <1>9, <2>1
<1>12. CASE a = b
  <2>1. path = start
    BY <1>8, <1>11, <1>12 DEF JoinTarget
  <2>2. \E route \in all : Shortest(all) = {route}
    BY <1>1, <1>12, NoWayToGo
  <2>3. path.why = ""
    BY <1>9, <2>1
  <2> QED
    BY <2>2, <2>3
<1>13. CASE a # b
  <2> DEFINE leg == bfsJoin(graph, {a}, b)
  <2>1. path = Grown(start, leg)
    BY <1>8, <1>9, <1>11, <1>13 DEF JoinTarget
  <2>2. /\ leg.ok \in BOOLEAN
        /\ leg.ok => \E route \in all : Shortest(all) = {route}
        /\ leg.why = "no path" => all = {}
        /\ leg.why = "ambiguous path" => Several(Shortest(all))
    BY <1>1, <1>13, JoinIsShortest
  <2> HIDE DEF leg
  <2>3. CASE ~leg.ok
    <3>1. path = [start EXCEPT !.ok = FALSE, !.why = leg.why]
      BY <2>1, <2>3 DEF Grown
    <3>2. path.ok = FALSE /\ path.why = leg.why
      BY <1>10, <3>1 DEF JoinPath
    <3> QED
      BY <2>2, <3>2
  <2>4. CASE leg.ok
    <3>1. \E steps : path = [start EXCEPT !.steps = steps]
      BY <2>1, <2>4 DEF Grown
    <3>2. path.why = ""
      BY <1>9, <1>10, <3>1 DEF JoinPath
    <3> QED
      BY <2>2, <2>4, <3>2
  <2> QED
    BY <2>2, <2>3, <2>4
<1> QED
  BY <1>12, <1>13

-----------------------------------------------------------------------------
(* Nothing else joins the ends of a bidirectional relationship. *)

\* The names that the relationships but i join with a name.
Beside(rels, i, at) ==
  UNION {{rels[j].to : j \in {j \in DOMAIN rels \ {i} : rels[j].from = at}},
         {rels[j].from : j \in {j \in DOMAIN rels \ {i} : rels[j].to = at}}}
Besides(rels, i, seen) == seen \cup UNION {Beside(rels, i, x) : x \in seen}
AreBeside(rels, i, g) ==
  g = [k \in 0 .. Len(rels) |-> IF k = 0 THEN {rels[i].from} ELSE Besides(rels, i, g[k - 1])]

\* The waves of ValidateFilterPaths around a bidirectional relationship do not reach its other end.
LEMMA BesideExist ==
  ASSUME NEW rels, Len(rels) \in Nat, NEW i \in DOMAIN rels, rels[i].bidi, ValidateFilterPaths(rels)
  PROVE  \E g : /\ g[0] = {rels[i].from} /\ rels[i].to \notin g[Len(rels)]
                /\ \A k \in 1 .. Len(rels) : g[k] = Besides(rels, i, g[k - 1])
<1> DEFINE L == Len(rels)
           All == {rels[i].from} \cup {rels[j].from : j \in DOMAIN rels} \cup {rels[j].to : j \in DOMAIN rels}
           S == SUBSET All
           step == [k \in 1 .. L |-> [X \in S |-> Besides(rels, i, X)]]
           g == CHOOSE h : AreBeside(rels, i, h)
<1>1. {rels[i].from} \in S
  OBVIOUS
<1>2. \A X \in S : Besides(rels, i, X) \in S
  <2>1. \A x : Beside(rels, i, x) \subseteq All
    BY DEF Beside
  <2> HIDE DEF All
  <2> QED
    BY <2>1 DEF Besides
<1>3. L \in Nat
  OBVIOUS
<1> HIDE DEF S, L
<1>4. step \in [1 .. L -> [S -> S]] /\ \A k \in 1 .. L, X \in S : step[k][X] = Besides(rels, i, X)
  BY <1>2
<1> HIDE DEF step
<1>5. \E h : AreBeside(rels, i, h)
  <2>1. PICK h : Iteration(S, L, step, {rels[i].from}, h)
    BY <1>1, <1>3, <1>4, Iterated
  <2>2. h \in [0 .. L -> S] /\ h[0] = {rels[i].from} /\ \A k \in 1 .. L : h[k] = step[k][h[k - 1]]
    BY <2>1 DEF Iteration
  <2>3. ASSUME NEW k \in 0 .. L PROVE h[k] = IF k = 0 THEN {rels[i].from} ELSE Besides(rels, i, h[k - 1])
    <3>1. CASE k = 0
      BY <2>2, <3>1
    <3>2. CASE k # 0
      <4>1. k \in 1 .. L /\ k - 1 \in 0 .. L
        BY <1>3, <3>2
      <4>2. h[k] = step[k][h[k - 1]] /\ h[k - 1] \in S
        BY <2>2, <4>1
      <4> QED
        BY <1>4, <3>2, <4>1, <4>2
    <3> QED
      BY <3>1, <3>2
  <2>4. h = [k \in 0 .. L |-> h[k]]
    BY <2>2
  <2> QED
    BY <2>3, <2>4 DEF AreBeside, L
<1>6. AreBeside(rels, i, g)
  BY <1>5
<1>7. rels[i].to \notin g[L]
  BY DEF ValidateFilterPaths, Closure, AreBeside, Besides, Beside, L
<1> HIDE DEF g
<1>8. \A k \in 0 .. L : g[k] = IF k = 0 THEN {rels[i].from} ELSE Besides(rels, i, g[k - 1])
  BY <1>6 DEF AreBeside, L
<1>9. g[0] = {rels[i].from} /\ \A k \in 1 .. L : g[k] = Besides(rels, i, g[k - 1])
  BY <1>3, <1>8
<1> QED
  BY <1>7, <1>9 DEF L

\* The ends of the relationships are declared by one name for each table.
EndNames(rels) == {rels[j].from : j \in DOMAIN rels} \cup {rels[j].to : j \in DOMAIN rels}
NamedAlike(graph) == \A m, n \in EndNames(graph.rels) : CanonicalOf(graph, m) = CanonicalOf(graph, n) => m = n

\* In a graph that is accepted no route goes around a bidirectional relationship.
LEMMA AloneIfValid ==
  ASSUME NEW graph, NEW N, NamesClear(graph, N), NamedAlike(graph), ValidateFilterPaths(graph.rels),
         NEW i \in DOMAIN graph.rels, graph.rels[i].bidi
  PROVE  Routes(graph, graph.rels[i].from, graph.rels[i].to, DOMAIN graph.rels \ {i}) = {}
<1> DEFINE rels == graph.rels
           R == DOMAIN rels \ {i}
           L == Len(rels)
           from == rels[i].from
           to == rels[i].to
<1>1. L \in Nat
  BY DEF NamesClear
<1>2. PICK g : /\ g[0] = {from} /\ to \notin g[L]
               /\ \A k \in 1 .. L : g[k] = Besides(rels, i, g[k - 1])
  BY <1>1, BesideExist
<1>3. from \in EndNames(rels) /\ to \in EndNames(rels)
  BY DEF EndNames
<1>4. SUFFICES ASSUME NEW s \in Routes(graph, from, to, R) PROVE FALSE
  OBVIOUS
<1>5. PICK n \in 0 .. L : s \in [1 .. n -> R]
  BY DEF Routes
<1>6. CanonicalOf(graph, to) \in Ends(graph, CanonicalOf(graph, from), s)
  BY DEF Routes, CanonicalOf
<1>7. n \in Nat /\ Len(s) = n
  BY <1>1, <1>5, FunctionIsSequence
<1>8. PICK e : EndsAt(graph, CanonicalOf(graph, from), s, n, e)
  BY <1>7, EndsExist
<1>9. /\ CanonicalOf(graph, to) \in e[n] /\ e[0] = {CanonicalOf(graph, from)}
      /\ \A k \in 1 .. n : e[k] = Beyond(graph, s[k], e[k - 1])
  BY <1>6, <1>8 DEF EndsAt
<1> DEFINE Good(k) == \A c \in e[k] : \E d \in EndNames(rels) : d \in g[k] /\ CanonicalOf(graph, d) = c
           S == {k \in 0 .. n : Good(k)}
<1>10. 0 \in S
  BY <1>2, <1>3, <1>7, <1>9
<1>11. ASSUME NEW k \in 0 .. n - 1, k \in S PROVE k + 1 \in S
  <2>1. k + 1 \in 0 .. n /\ k + 1 \in 1 .. n /\ k + 1 \in 1 .. L /\ (k + 1) - 1 = k
    BY <1>1, <1>7
  <2>2. Good(k)
    BY <1>11
  <2>3. g[k + 1] = Besides(rels, i, g[k]) /\ e[k + 1] = Beyond(graph, s[k + 1], e[k])
    BY <1>2, <1>9, <2>1
  <2> DEFINE j == s[k + 1]
  <2>4. j \in R
    BY <1>5, <2>1
  <2> HIDE DEF j
  <2>5. rels[j].from \in EndNames(rels) /\ rels[j].to \in EndNames(rels)
    BY <2>4 DEF EndNames
  <2>6. Link(graph, j) = {CanonicalOf(graph, rels[j].from), CanonicalOf(graph, rels[j].to)}
    BY DEF Link, CanonicalOf
  <2>7. ASSUME NEW c \in e[k + 1] PROVE \E d \in EndNames(rels) : d \in g[k + 1] /\ CanonicalOf(graph, d) = c
    <3>1. PICK t \in e[k] : Link(graph, j) = {t, c}
      BY <2>3 DEF Beyond, j
    <3>2. PICK d \in EndNames(rels) : d \in g[k] /\ CanonicalOf(graph, d) = t
      BY <2>2
    <3>3. \/ CanonicalOf(graph, rels[j].from) = t /\ CanonicalOf(graph, rels[j].to) = c
          \/ CanonicalOf(graph, rels[j].to) = t /\ CanonicalOf(graph, rels[j].from) = c
      BY <2>6, <3>1
    <3>4. \A x \in Beside(rels, i, d) : x \in g[k + 1]
      BY <2>3, <3>2 DEF Besides
    <3>5. CASE CanonicalOf(graph, rels[j].from) = t /\ CanonicalOf(graph, rels[j].to) = c
      <4>1. rels[j].from = d
        BY <2>5, <3>2, <3>5 DEF NamedAlike
      <4>2. rels[j].to \in Beside(rels, i, d)
        BY <2>4, <4>1 DEF Beside
      <4> QED
        BY <2>5, <3>4, <3>5, <4>2
    <3>6. CASE CanonicalOf(graph, rels[j].to) = t /\ CanonicalOf(graph, rels[j].from) = c
      <4>1. rels[j].to = d
        BY <2>5, <3>2, <3>6 DEF NamedAlike
      <4>2. rels[j].from \in Beside(rels, i, d)
        BY <2>4, <4>1 DEF Beside
      <4> QED
        BY <2>5, <3>4, <3>6, <4>2
    <3> QED
      BY <3>3, <3>5, <3>6
  <2> QED
    BY <2>1, <2>7
<1> HIDE DEF S
<1>12. 0 .. n \subseteq S
  BY <1>7, <1>10, <1>11, UpToInduction
<1>13. n \in S
  BY <1>7, <1>12
<1>14. PICK d \in EndNames(rels) : d \in g[n] /\ CanonicalOf(graph, d) = CanonicalOf(graph, to)
  BY <1>9, <1>13 DEF S
<1>15. d = to
  BY <1>3, <1>14 DEF NamedAlike
\* What is reached is reached by more waves too.
<1> DEFINE T == {k \in 0 .. L : k >= n => to \in g[k]}
<1>16. 0 \in T
  BY <1>1, <1>7, <1>14, <1>15
<1>17. ASSUME NEW k \in 0 .. L - 1, k \in T PROVE k + 1 \in T
  <2>1. k + 1 \in 0 .. L /\ k + 1 \in 1 .. L /\ (k + 1) - 1 = k
    BY <1>1
  <2>2. g[k] \subseteq g[k + 1]
    BY <1>2, <2>1 DEF Besides
  <2> QED
    BY <1>7, <1>14, <1>15, <1>17, <2>1, <2>2
<1> HIDE DEF T
<1>18. 0 .. L \subseteq T
  BY <1>1, <1>16, <1>17, UpToInduction
<1>19. L \in T
  BY <1>1, <1>18
<1>20. to \in g[L]
  BY <1>1, <1>5, <1>19 DEF T
<1> QED
  BY <1>2, <1>20
=============================================================================
