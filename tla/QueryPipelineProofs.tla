------------------------ MODULE QueryPipelineProofs ------------------------
(***************************************************************************)
(* Proofs about one query on its way to the emitter: the filters supplied  *)
(* beside it hold of its body, no measure it reaches depends on itself,    *)
(* and its tables are joined as they should be.                            *)
(***************************************************************************)
EXTENDS QueryPipeline, QueryPipelineLemmas, TLAPS

\* What is given does not change: one of the inputs, of the types assumed.
Given ==
  /\ schema.measures \in Seq(Measure) /\ query.defines \in Seq(Measure)
  /\ query.refs \in Seq(Reference) /\ query.filters \in Seq(GivenFilter)
  /\ query.body \in Body

LEMMA GivenInitially == Init => Given
<1> SUFFICES ASSUME Init PROVE Given
  OBVIOUS
<1>1. PICK some \in Inputs : input \in some
  BY DEF Init
<1> QED
  BY <1>1, InputsAssumption DEF Given, schema, query

LEMMA GivenKept == Given /\ [Next]_vars => Given'
<1> SUFFICES ASSUME Given, [Next]_vars PROVE Given'
  OBVIOUS
<1>1. input' = input
  BY DEF Next, Load, Filter, PreResolve, Visit, Return, Shape, Shaped, Join, Summarize, At, Fail, vars
<1> QED
  BY <1>1 DEF Given, schema, query

-----------------------------------------------------------------------------
(* Filters. *)

FilterInv ==
  /\ Given
  /\ stage \in {"load", "filters"} => expr = query.body
  /\ FiltersHold

\* Every row of an accepted query's body satisfies each filter supplied beside it
\* (executor/extfilter.go), for every query, number of filters and arguments.
THEOREM FiltersApplied == Spec => []FiltersHold
<1>1. Init => FilterInv
  BY GivenInitially DEF Init, FilterInv, FiltersHold, query
<1>2. FilterInv /\ [Next]_vars => FilterInv'
  <2> SUFFICES ASSUME FilterInv, [Next]_vars PROVE FilterInv'
    OBVIOUS
  <2>1. Given' /\ Given
    BY GivenKept DEF FilterInv
  <2>2. CASE Filter
    <3>1. expr = query.body /\ query.body \in Body /\ query.filters \in Seq(GivenFilter) /\ query' = query
      BY <2>1, <2>2 DEF FilterInv, Filter, Given, At, Fail, query
    <3>2. CASE ApplyExternalFilters(schema, expr, query.filters).ok
      <4>1. stage' = "define" /\ expr' = ApplyExternalFilters(schema, expr, query.filters).expr
        BY <2>2, <3>2 DEF Filter, At
      <4>2. Guaranteed(expr') = DOMAIN query.filters
        BY <3>1, <3>2, <4>1, AppliedOrRefused DEF Body, Plain
      <4> QED
        BY <2>1, <3>1, <4>1, <4>2 DEF FilterInv, FiltersHold
    <3>3. CASE ~ApplyExternalFilters(schema, expr, query.filters).ok
      BY <2>1, <2>2, <3>3 DEF Filter, Fail, FilterInv, FiltersHold
    <3> QED
      BY <3>2, <3>3
  <2>3. CASE Load
    BY <2>1, <2>3 DEF Load, At, Fail, FilterInv, FiltersHold, query
  <2>4. CASE UNCHANGED vars
    BY <2>1, <2>4 DEF vars, FilterInv, FiltersHold, query
  <2>5. CASE PreResolve \/ Visit \/ Return \/ Shape \/ Shaped \/ Join \/ Summarize
    <3>1. expr' = expr /\ query' = query /\ stage \notin {"load", "filters", "failed"} /\ stage' \notin {"load", "filters"}
      BY <2>5 DEF PreResolve, Visit, Return, Shape, Shaped, Join, Summarize, At, Fail, query
    <3> QED
      BY <2>1, <3>1 DEF FilterInv, FiltersHold
  <2> QED
    BY <2>2, <2>3, <2>4, <2>5 DEF Next
<1> QED
  BY <1>1, <1>2, PTL DEF Spec, FilterInv

-----------------------------------------------------------------------------
(* Measures: the graph of the definitions. *)

Root == <<"roots", 0>>
Nodes == Definitions \cup {Root}
Looked(d, j) == Targets(Followed(d)[j])

\* What is known of the definitions once their names are bound.
Bound == Given /\ \A k \in DOMAIN measures : measures[k] \in Definitions

LEMMA FollowedTyped ==
  ASSUME Given, NEW d \in Nodes
  PROVE  /\ Len(Followed(d)) \in Nat /\ DOMAIN Followed(d) = 1 .. Len(Followed(d))
         /\ \A j \in 1 .. Len(Followed(d)) :
              \/ Followed(d)[j] \in Reference
              \/ \E i \in DOMAIN query.defines : Followed(d)[j] = [def |-> <<"query", i>>]
<1>1. CASE d \in Definitions
  <2>1. d[1] # "roots" /\ Definition(d) \in Measure
    <3>1. CASE d \in {"schema"} \X DOMAIN schema.measures
      BY <3>1 DEF Given, Definition
    <3>2. CASE d \in {"query"} \X DOMAIN query.defines
      BY <3>2 DEF Given, Definition
    <3> QED
      BY <1>1, <3>1, <3>2 DEF Definitions
  <2>2. Followed(d) \in Seq(Reference)
    BY <2>1 DEF Followed, Measure
  <2> QED
    BY <2>2
<1>2. CASE d = Root
  <2> DEFINE S == Reference \cup {[def |-> <<"query", i>>] : i \in DOMAIN query.defines}
             own == [i \in DOMAIN query.defines |-> [def |-> <<"query", i>>]]
  <2>1. own \in Seq(S)
    <3>1. DOMAIN query.defines = 1 .. Len(query.defines) /\ Len(query.defines) \in Nat
      BY DEF Given
    <3>2. \A i \in DOMAIN query.defines : own[i] \in S
      OBVIOUS
    <3>3. own \in [DOMAIN query.defines -> S]
      BY <3>2
    <3> HIDE DEF own, S
    <3>4. own \in [1 .. Len(query.defines) -> S]
      BY <3>1, <3>3
    <3> QED
      BY <3>1, <3>4
  <2>2. query.refs \in Seq(S)
    BY DEF Given
  <2>3. Followed(d) = own \o query.refs
    BY <1>2 DEF Root, Followed, Roots
  <2> HIDE DEF own
  <2>4. Followed(d) \in Seq(S)
    BY <2>1, <2>2, <2>3
  <2> QED
    BY <2>4
<1> QED
  BY <1>1, <1>2 DEF Nodes

LEMMA LookedDefined ==
  ASSUME Bound, NEW d \in Nodes
  PROVE  /\ Depends(d) = UNION {Looked(d, j) : j \in 1 .. Len(Followed(d))}
         /\ \A j \in 1 .. Len(Followed(d)) : Looked(d, j) \subseteq Definitions
<1>1. DOMAIN Followed(d) = 1 .. Len(Followed(d))
  BY FollowedTyped DEF Bound
<1>2. Depends(d) = UNION {Looked(d, j) : j \in 1 .. Len(Followed(d))}
  BY <1>1 DEF Depends, Looked
<1>3. ASSUME NEW j \in 1 .. Len(Followed(d)) PROVE Looked(d, j) \subseteq Definitions
  <2>1. CASE Followed(d)[j] \in Reference
    <3>1. "def" \notin DOMAIN Followed(d)[j]
      BY <2>1 DEF Reference
    <3> QED
      BY <3>1 DEF Looked, Targets, Bound, FindMeasure
  <2>2. CASE \E i \in DOMAIN query.defines : Followed(d)[j] = [def |-> <<"query", i>>]
    BY <2>2 DEF Looked, Targets, Definitions
  <2> QED
    BY <2>1, <2>2, FollowedTyped DEF Bound
<1> QED
  BY <1>2, <1>3

LEMMA DependsDefined ==
  ASSUME Bound, NEW d \in Nodes
  PROVE  Depends(d) \subseteq Definitions
BY LookedDefined

\* A reference that is no error leads to one definition at most.
LEMMA OneTarget ==
  ASSUME NEW d, NEW j, Error(Followed(d)[j], d) = ""
  PROVE  \A e, f \in Looked(d, j) : e = f
<1> DEFINE ref == Followed(d)[j]
<1>1. CASE "def" \in DOMAIN ref
  BY <1>1 DEF Looked, Targets
<1>2. CASE "def" \notin DOMAIN ref /\ ref.table \in ref.vars
  BY <1>2 DEF Looked, Targets
<1>3. CASE "def" \notin DOMAIN ref /\ ref.table \notin ref.vars
  <2>1. \A a, b \in FindMeasure(ref) : a = b
    BY <1>3 DEF Error
  <2> QED
    BY <1>3, <2>1 DEF Looked, Targets
<1> QED
  BY <1>1, <1>2, <1>3

\* The names are bound to definitions there are.
LEMMA PreresolvedDefined ==
  ASSUME Given
  PROVE  \A key \in DOMAIN Preresolved(Len(query.defines)) : Preresolved(Len(query.defines))[key] \in Definitions
<1> DEFINE n == Len(query.defines)
           own(key) == {i \in 1 .. n : Key(query.defines[i]) = key}
           last(is) == CHOOSE i \in is : \A j \in is : j <= i
<1>1. n \in Nat /\ DOMAIN query.defines = 1 .. n
  BY DEF Given
<1>2. \A key \in DOMAIN Declared : Declared[key] \in Definitions
  BY DEF Declared, Definitions
<1>3. ASSUME NEW key, own(key) # {} PROVE last(own(key)) \in 1 .. n
  <2>1. own(key) \in SUBSET (1 .. n)
    OBVIOUS
  <2> HIDE DEF own
  <2>2. PICK i \in own(key) : \A j \in own(key) : j <= i
    BY <1>1, <1>3, <2>1, GreatestElement
  <2>3. last(own(key)) \in own(key)
    BY <2>2
  <2> QED
    BY <2>1, <2>3
<1>4. /\ DOMAIN Preresolved(n) = DOMAIN Declared \cup {Key(query.defines[i]) : i \in 1 .. n}
      /\ \A key \in DOMAIN Declared \cup {Key(query.defines[i]) : i \in 1 .. n} :
           Preresolved(n)[key] = IF own(key) = {} THEN Declared[key] ELSE <<"query", last(own(key))>>
  BY DEF Preresolved
<1> HIDE DEF own, last
<1>5. ASSUME NEW key \in DOMAIN Preresolved(n) PROVE Preresolved(n)[key] \in Definitions
  <2>1. CASE own(key) # {}
    <3>1. last(own(key)) \in 1 .. n
      BY <1>3, <2>1
    <3>2. Preresolved(n)[key] = <<"query", last(own(key))>>
      BY <1>4, <2>1
    <3> QED
      BY <1>1, <3>1, <3>2 DEF Definitions
  <2>2. CASE own(key) = {}
    <3>1. \A i \in 1 .. n : Key(query.defines[i]) # key
      BY <2>2 DEF own
    <3>2. key \in DOMAIN Declared
      BY <1>4, <3>1
    <3> QED
      BY <1>2, <1>4, <2>2, <3>2
  <2> QED
    BY <2>1, <2>2
<1> QED
  BY <1>5

-----------------------------------------------------------------------------
(* Measures: what a number of waves reaches. *)

Widened(seen) == seen \cup UNION {Depends(x) : x \in seen}
IsWave(w, start, n) == w = [k \in 0 .. n |-> IF k = 0 THEN start ELSE Widened(w[k - 1])]

\* The waves are a function: there is one for each number of them.
LEMMA WaveExists ==
  ASSUME NEW start, NEW n \in Nat
  PROVE  \E w : IsWave(w, start, n)
<1> DEFINE S == {m \in Nat : \E w : IsWave(w, start, m)}
<1>1. 0 \in S
  <2>1. IsWave([k \in 0 .. 0 |-> start], start, 0)
    BY DEF IsWave
  <2> QED
    BY <2>1
<1>2. ASSUME NEW m \in Nat, m \in S PROVE m + 1 \in S
  <2>1. PICK w : IsWave(w, start, m)
    BY <1>2
  <2> DEFINE v == [k \in 0 .. m + 1 |-> IF k = m + 1 THEN Widened(w[m]) ELSE w[k]]
  <2>2. \A k \in 0 .. m : w[k] = IF k = 0 THEN start ELSE Widened(w[k - 1])
    BY <2>1 DEF IsWave
  <2>3. ASSUME NEW k \in 0 .. m + 1 PROVE v[k] = IF k = 0 THEN start ELSE Widened(v[k - 1])
    <3>1. CASE k = m + 1
      <4>1. k # 0 /\ k - 1 = m /\ v[m] = w[m]
        BY <3>1
      <4> QED
        BY <3>1, <4>1
    <3>2. CASE k \in 0 .. m
      <4>1. v[k] = w[k] /\ (k # 0 => v[k - 1] = w[k - 1])
        BY <3>2
      <4> QED
        BY <2>2, <3>2, <4>1
    <3> QED
      BY <3>1, <3>2
  <2>4. v = [k \in 0 .. m + 1 |-> v[k]]
    OBVIOUS
  <2> HIDE DEF v
  <2>5. IsWave(v, start, m + 1)
    BY <2>3, <2>4 DEF IsWave
  <2> QED
    BY <2>5
<1> HIDE DEF S
<1>3. Nat \subseteq S
  BY <1>1, <1>2, SetInduction
<1> QED
  BY <1>3 DEF S

LEMMA Waves ==
  ASSUME NEW start, NEW n \in Nat
  PROVE  \E w : /\ w[0] = start /\ w[n] = Closure(Depends, start, n)
                /\ \A k \in 0 .. n - 1 : w[k + 1] = Widened(w[k])
<1> DEFINE w == CHOOSE g : IsWave(g, start, n)
<1>1. Closure(Depends, start, n) = w[n]
  BY DEF Closure, IsWave, Widened
<1>2. IsWave(w, start, n)
  BY WaveExists
<1> HIDE DEF w
<1>3. \A k \in 0 .. n : w[k] = IF k = 0 THEN start ELSE Widened(w[k - 1])
  BY <1>2 DEF IsWave
<1>4. w[0] = start
  BY <1>3
<1>5. ASSUME NEW k \in 0 .. n - 1 PROVE w[k + 1] = Widened(w[k])
  <2>1. k + 1 \in 0 .. n /\ k + 1 # 0 /\ (k + 1) - 1 = k
    OBVIOUS
  <2> QED
    BY <1>3, <2>1
<1> QED
  BY <1>1, <1>4, <1>5

\* A closed set that has the start has everything reached.
LEMMA ReachedWithin ==
  ASSUME NEW start, NEW n \in Nat, NEW T, start \subseteq T, \A x \in T : Depends(x) \subseteq T
  PROVE  Closure(Depends, start, n) \subseteq T
<1>1. PICK w : /\ w[0] = start /\ w[n] = Closure(Depends, start, n)
               /\ \A k \in 0 .. n - 1 : w[k + 1] = Widened(w[k])
  BY Waves
<1> DEFINE S == {k \in Nat : k <= n => w[k] \subseteq T}
<1>2. 0 \in S
  BY <1>1
<1>3. ASSUME NEW k \in Nat, k \in S PROVE k + 1 \in S
  <2> SUFFICES ASSUME k + 1 <= n PROVE w[k + 1] \subseteq T
    OBVIOUS
  <2>1. w[k + 1] = Widened(w[k]) /\ w[k] \subseteq T
    BY <1>1, <1>3
  <2> QED
    BY <2>1 DEF Widened
<1> HIDE DEF S
<1>4. Nat \subseteq S
  BY <1>2, <1>3, SetInduction
<1> QED
  BY <1>1, <1>4 DEF S

\* The end of a chain that is no longer than the waves is reached.
LEMMA ChainReached ==
  ASSUME NEW start, NEW n \in Nat, NEW m \in Nat, m <= n, NEW c,
         c[0] \in start, \A k \in 0 .. m - 1 : c[k + 1] \in Depends(c[k])
  PROVE  c[m] \in Closure(Depends, start, n)
<1>1. PICK w : /\ w[0] = start /\ w[n] = Closure(Depends, start, n)
               /\ \A k \in 0 .. n - 1 : w[k + 1] = Widened(w[k])
  BY Waves
<1> DEFINE S == {k \in Nat : (k <= m => c[k] \in w[k]) /\ (m <= k /\ k <= n => c[m] \in w[k])}
<1>2. 0 \in S
  BY <1>1
<1>3. ASSUME NEW k \in Nat, k \in S PROVE k + 1 \in S
  <2>1. ASSUME k + 1 <= m PROVE c[k + 1] \in w[k + 1]
    <3>1. k \in 0 .. n - 1 /\ k \in 0 .. m - 1 /\ c[k] \in w[k]
      BY <1>3, <2>1
    <3>2. w[k + 1] = Widened(w[k]) /\ c[k + 1] \in Depends(c[k])
      BY <1>1, <3>1
    <3> QED
      BY <3>1, <3>2 DEF Widened
  <2>2. ASSUME m <= k + 1, k + 1 <= n PROVE c[m] \in w[k + 1]
    <3>1. CASE m = k + 1
      BY <2>1, <3>1
    <3>2. CASE m <= k
      <4>1. c[m] \in w[k] /\ w[k + 1] = Widened(w[k])
        BY <1>1, <1>3, <2>2, <3>2
      <4> QED
        BY <4>1 DEF Widened
    <3> QED
      BY <2>2, <3>1, <3>2
  <2> QED
    BY <2>1, <2>2
<1> HIDE DEF S
<1>4. Nat \subseteq S
  BY <1>2, <1>3, SetInduction
<1> QED
  BY <1>1, <1>4 DEF S

-----------------------------------------------------------------------------
(* Measures: the visit. *)

\* The definitions being followed, each named by the one below it.
Chain ==
  /\ stack \in Seq([def : Nodes, at : Nat]) /\ stack # <<>> /\ stack[1].def = Root
  /\ \A i \in 2 .. Len(stack) : stack[i].def \in Definitions
  /\ \A i, j \in 1 .. Len(stack) : stack[i].def = stack[j].def => i = j
  /\ \A i \in 1 .. Len(stack) - 1, d \in Nodes : d = stack[i].def => stack[i + 1].def \in Depends(d)

\* A finished definition leads to finished ones, each of a smaller rank.
Ranked ==
  \E n \in Nat, rank \in [Definitions -> Nat] :
    /\ \A d \in Definitions : rank[d] < n
    /\ \A d \in Definitions : visited[d] = 2 => \A e \in Depends(d) : visited[e] = 2 /\ rank[e] < rank[d]

\* What the visit has behind it is finished, but for the definition it is in.
Behind ==
  \A i \in 1 .. Len(stack), d \in Nodes : d = stack[i].def =>
    /\ stack[i].at \in 1 .. Len(Followed(d)) + 1
    /\ \A j \in 1 .. stack[i].at - 1 : \A e \in Looked(d, j) :
         visited[e] = 2 \/ (i < Len(stack) /\ e = stack[i + 1].def)

Marked ==
  /\ visited \in [Definitions -> 0 .. 2]
  /\ \A d \in Definitions : visited[d] = 1 <=> \E i \in 2 .. Len(stack) : stack[i].def = d

Tracing == Chain /\ Ranked /\ Behind /\ Marked
Resolved == Ranked /\ \A e \in Depends(Root) : visited[e] = 2 /\ e \in Definitions
Looped == Chain /\ \E i \in 2 .. Len(stack), d \in Nodes : d = stack[Len(stack)].def /\ stack[i].def \in Depends(d)

MeasureInv ==
  /\ Bound
  /\ stage = "visit" => Tracing
  /\ stage \in {"shape", "join", "summarize", "done"} => Resolved
  /\ why = "circular" => stage = "failed" /\ Looped
  /\ stage \in {"load", "filters", "define"} => measures = <<>>

MeasureCount == Len(schema.measures)
DefineCount == Len(query.defines)

LEMMA Counts ==
  ASSUME Given
  PROVE  /\ MeasureCount \in Nat /\ DOMAIN schema.measures = 1 .. MeasureCount
         /\ DefineCount \in Nat /\ DOMAIN query.defines = 1 .. DefineCount
         /\ MeasureCount + DefineCount \in Nat
<1>1. MeasureCount \in Nat /\ DOMAIN schema.measures = 1 .. MeasureCount
  <2>1. schema.measures \in Seq(Measure)
    BY DEF Given
  <2> QED
    BY <2>1 DEF MeasureCount
<1>2. DefineCount \in Nat /\ DOMAIN query.defines = 1 .. DefineCount
  <2>1. query.defines \in Seq(Measure)
    BY DEF Given
  <2> QED
    BY <2>1 DEF DefineCount
<1> QED
  BY <1>1, <1>2

LEMMA ReachableWaves == \A d : Reachable(d) = Closure(Depends, Depends(d), MeasureCount + DefineCount)
BY DEF Reachable, MeasureCount, DefineCount

LEMMA StackTyped ==
  ASSUME Chain
  PROVE  /\ Len(stack) \in Nat /\ Len(stack) >= 1 /\ DOMAIN stack = 1 .. Len(stack)
         /\ \A i \in 1 .. Len(stack) : stack[i] \in [def : Nodes, at : Nat] /\ stack[i].def \in Nodes /\ stack[i].at \in Nat
<1> DEFINE F == [def : Nodes, at : Nat]
<1>1. stack \in Seq(F) /\ stack # <<>>
  BY DEF Chain
<1>2. \A f \in F : f.def \in Nodes /\ f.at \in Nat
  OBVIOUS
<1> HIDE DEF F
<1>3. Len(stack) \in Nat /\ DOMAIN stack = 1 .. Len(stack) /\ \A i \in 1 .. Len(stack) : stack[i] \in F
  BY <1>1
<1>4. Len(stack) # 0
  BY <1>1
<1> QED
  BY <1>2, <1>3, <1>4 DEF F

\* A ranked definition is not reached from itself.
LEMMA RankedNotCircular ==
  ASSUME Bound, Resolved
  PROVE  \A d \in Reachable(Root) : ~Circular(d)
<1> DEFINE N == MeasureCount + DefineCount
           F == {d \in Definitions : visited[d] = 2}
<1>1. N \in Nat
  BY Counts DEF Bound
<1>2. PICK rank \in [Definitions -> Nat] :
        \A d \in Definitions : visited[d] = 2 => \A e \in Depends(d) : visited[e] = 2 /\ rank[e] < rank[d]
  BY DEF Resolved, Ranked
<1>3. \A d \in Definitions : Depends(d) \subseteq Definitions
  BY DependsDefined DEF Nodes
<1> HIDE DEF N
<1>4. Reachable(Root) \subseteq F
  <2>1. Depends(Root) \subseteq F
    BY DEF Resolved
  <2>2. \A x \in F : Depends(x) \subseteq F
    BY <1>2, <1>3
  <2> HIDE DEF F
  <2>3. Closure(Depends, Depends(Root), N) \subseteq F
    BY <1>1, <2>1, <2>2, ReachedWithin
  <2> QED
    BY <2>3, ReachableWaves DEF N
<1>5. ASSUME NEW d \in F PROVE d \notin Reachable(d)
  <2> DEFINE T == {e \in F : rank[e] < rank[d]}
  <2>1. Depends(d) \subseteq T
    BY <1>2, <1>3
  <2>2. ASSUME NEW x \in T PROVE Depends(x) \subseteq T
    <3> SUFFICES ASSUME NEW e \in Depends(x) PROVE e \in T
      OBVIOUS
    <3>1. e \in F /\ rank[e] < rank[x] /\ rank[x] < rank[d]
      BY <1>2, <1>3
    <3>2. rank[e] \in Nat /\ rank[x] \in Nat /\ rank[d] \in Nat
      BY <3>1
    <3> QED
      BY <3>1, <3>2
  <2>3. rank[d] \in Nat
    OBVIOUS
  <2>4. d \notin T
    BY <2>3
  <2> HIDE DEF T
  <2>5. Closure(Depends, Depends(d), N) \subseteq T
    BY <1>1, <2>1, <2>2, ReachedWithin
  <2> QED
    BY <2>4, <2>5, ReachableWaves DEF N
<1> QED
  BY <1>4, <1>5 DEF Circular

\* The definitions being followed are no more than there are.
LEMMA ChainBounded ==
  ASSUME Bound, Chain
  PROVE  Len(stack) - 1 <= MeasureCount + DefineCount
<1> DEFINE M == MeasureCount
           N == M + DefineCount
           number(d) == IF d[1] = "schema" THEN d[2] ELSE M + d[2]
           f == [i \in 1 .. Len(stack) - 1 |-> number(stack[i + 1].def)]
<1>1. /\ M \in Nat /\ DefineCount \in Nat
      /\ DOMAIN schema.measures = 1 .. M /\ DOMAIN query.defines = 1 .. DefineCount
  BY Counts DEF Bound
<1>2. Len(stack) \in Nat /\ Len(stack) >= 1
  BY StackTyped
<1>3. \A d \in Definitions : number(d) \in 1 .. N
  BY <1>1 DEF Definitions
<1>4. \A d, e \in Definitions : number(d) = number(e) => d = e
  BY <1>1 DEF Definitions
<1>5. \A i \in 1 .. Len(stack) - 1 : stack[i + 1].def \in Definitions
  <2> TAKE i \in 1 .. Len(stack) - 1
  <2>1. i + 1 \in 2 .. Len(stack)
    BY <1>2
  <2> QED
    BY <2>1 DEF Chain
<1> HIDE DEF number, N
<1>6. f \in [1 .. Len(stack) - 1 -> 1 .. N]
  BY <1>3, <1>5
<1>7. \A i, j \in 1 .. Len(stack) - 1 : f[i] = f[j] => i = j
  <2> SUFFICES ASSUME NEW i \in 1 .. Len(stack) - 1, NEW j \in 1 .. Len(stack) - 1, f[i] = f[j] PROVE i = j
    OBVIOUS
  <2>1. number(stack[i + 1].def) = number(stack[j + 1].def)
    OBVIOUS
  <2>2. stack[i + 1].def = stack[j + 1].def
    BY <1>4, <1>5, <2>1
  <2>3. i + 1 \in 1 .. Len(stack) /\ j + 1 \in 1 .. Len(stack)
    BY <1>2
  <2>4. i + 1 = j + 1
    BY <2>2, <2>3 DEF Chain
  <2> QED
    BY <2>4
<1> HIDE DEF f
<1>8. Len(stack) - 1 \in Nat /\ N \in Nat
  BY <1>1, <1>2 DEF N
<1>9. Len(stack) - 1 <= N
  BY <1>6, <1>7, <1>8, NoMoreThan
<1> QED
  BY <1>9 DEF N

\* A definition that the last of the chain names is reached from itself.
LEMMA LoopedCircular ==
  ASSUME Bound, Looped
  PROVE  \E d \in Reachable(Root) : Circular(d)
<1> DEFINE N == MeasureCount + DefineCount
           L == Len(stack)
<1>1. N \in Nat /\ L \in Nat /\ L - 1 <= N /\ L >= 1
  <2>1. N \in Nat
    BY Counts DEF Bound
  <2>2. L \in Nat /\ L >= 1
    BY StackTyped DEF Looped
  <2>3. L - 1 <= N
    BY ChainBounded DEF Looped
  <2> QED
    BY <2>1, <2>2, <2>3
<1>2. PICK i \in 2 .. L : \E d \in Nodes : d = stack[L].def /\ stack[i].def \in Depends(d)
  BY DEF Looped
<1>3. stack[i].def \in Depends(stack[L].def)
  BY <1>2
<1>4. \A k \in 1 .. L - 1 : stack[k + 1].def \in Depends(stack[k].def)
  <2> TAKE k \in 1 .. L - 1
  <2>1. stack[k].def \in Nodes
    BY <1>1, StackTyped DEF Looped
  <2> QED
    BY <2>1 DEF Looped, Chain
<1>5. stack[1].def = Root
  BY DEF Looped, Chain
<1> HIDE DEF N
<1>6. stack[i].def \in Reachable(Root)
  <2> DEFINE c == [k \in 0 .. i - 2 |-> stack[k + 2].def]
  <2>1. c[0] \in Depends(Root)
    <3>1. c[0] = stack[2].def /\ 1 \in 1 .. L - 1
      BY <1>1
    <3> QED
      BY <1>4, <1>5, <3>1
  <2>2. ASSUME NEW k \in 0 .. (i - 2) - 1 PROVE c[k + 1] \in Depends(c[k])
    <3>1. c[k + 1] = stack[(k + 2) + 1].def /\ c[k] = stack[k + 2].def /\ k + 2 \in 1 .. L - 1
      BY <1>1
    <3> QED
      BY <1>4, <3>1
  <2>3. c[i - 2] = stack[i].def /\ i - 2 \in Nat /\ i - 2 <= N
    BY <1>1
  <2> HIDE DEF c
  <2>4. c[i - 2] \in Closure(Depends, Depends(Root), N)
    BY <1>1, <2>1, <2>2, <2>3, ChainReached
  <2> QED
    BY <2>3, <2>4, ReachableWaves DEF N
<1>7. stack[i].def \in Reachable(stack[i].def)
  <2> DEFINE c == [k \in 0 .. L - i |-> IF k = L - i THEN stack[i].def ELSE stack[(i + 1) + k].def]
  <2>1. c[0] \in Depends(stack[i].def)
    <3>1. CASE i = L
      BY <1>1, <1>3, <3>1
    <3>2. CASE i # L
      <4>1. c[0] = stack[i + 1].def /\ i \in 1 .. L - 1
        BY <1>1, <3>2
      <4> QED
        BY <1>4, <4>1
    <3> QED
      BY <3>1, <3>2
  <2>2. ASSUME NEW k \in 0 .. (L - i) - 1 PROVE c[k + 1] \in Depends(c[k])
    <3>1. c[k] = stack[(i + 1) + k].def
      BY <1>1
    <3>2. CASE k + 1 = L - i
      <4>1. c[k + 1] = stack[i].def /\ (i + 1) + k = L
        BY <1>1, <3>2
      <4> QED
        BY <1>3, <3>1, <4>1
    <3>3. CASE k + 1 # L - i
      <4>1. c[k + 1] = stack[((i + 1) + k) + 1].def /\ (i + 1) + k \in 1 .. L - 1
        BY <1>1, <3>3
      <4> QED
        BY <1>4, <3>1, <4>1
    <3> QED
      BY <3>2, <3>3
  <2>3. c[L - i] = stack[i].def /\ L - i \in Nat /\ L - i <= N
    BY <1>1
  <2> HIDE DEF c
  <2>4. c[L - i] \in Closure(Depends, Depends(stack[i].def), N)
    BY <1>1, <2>1, <2>2, <2>3, ChainReached
  <2> QED
    BY <2>3, <2>4, ReachableWaves DEF N
<1> QED
  BY <1>6, <1>7 DEF Circular

LEMMA MeasuresAcyclic == MeasureInv => ResolvedAcyclic
<1>1. MeasureInv /\ stage \in {"shape", "join", "summarize", "done"} => \A d \in Reachable(Root) : ~Circular(d)
  BY RankedNotCircular DEF MeasureInv
<1>2. MeasureInv /\ why = "circular" => \E d \in Reachable(Root) : Circular(d)
  BY LoopedCircular DEF MeasureInv
<1> QED
  BY <1>1, <1>2 DEF ResolvedAcyclic, Root

-----------------------------------------------------------------------------
(* Measures: the steps. *)

LEMMA GraphStill ==
  ASSUME input' = input, measures' = measures
  PROVE  /\ Definitions' = Definitions /\ Nodes' = Nodes
         /\ \A d : Followed(d)' = Followed(d) /\ Depends(d)' = Depends(d)
         /\ \A d, j : Looked(d, j)' = Looked(d, j)
<1>1. schema' = schema /\ query' = query
  BY DEF schema, query
<1>2. Definitions' = Definitions
  BY <1>1 DEF Definitions
<1>3. Nodes' = Nodes
  BY <1>2 DEF Nodes
<1>4. \A d : Followed(d)' = Followed(d)
  BY <1>1 DEF Followed, Roots, Definition
<1>5. \A d, j : Looked(d, j)' = Looked(d, j)
  BY <1>1, <1>4 DEF Looked, Targets, FindMeasure
<1>6. \A d : Depends(d)' = Depends(d)
  <2>1. \A d : Depends(d) = UNION {Looked(d, j) : j \in DOMAIN Followed(d)}
    BY DEF Depends, Looked
  <2>2. \A d : Depends(d)' = UNION {Looked(d, j)' : j \in DOMAIN Followed(d)'}
    BY DEF Depends, Looked
  <2> QED
    BY <1>4, <1>5, <2>1, <2>2
<1> QED
  BY <1>2, <1>3, <1>4, <1>5, <1>6

LEMMA BoundStill == Bound /\ [Next]_vars /\ measures' = measures => Bound'
<1> SUFFICES ASSUME Bound, [Next]_vars, measures' = measures PROVE Bound'
  OBVIOUS
<1>1. Given'
  BY GivenKept DEF Bound
<1>2. input' = input
  BY DEF Next, Load, Filter, PreResolve, Visit, Return, Shape, Shaped, Join, Summarize, At, Fail, vars
<1>3. Definitions' = Definitions
  BY <1>2, GraphStill
<1> QED
  BY <1>1, <1>3 DEF Bound

LEMMA ResolvedStill ==
  ASSUME input' = input, measures' = measures, visited' = visited, Resolved
  PROVE  Resolved'
<1>1. Definitions' = Definitions /\ \A d : Depends(d)' = Depends(d)
  BY GraphStill
<1>2. Root' = Root
  BY DEF Root
<1> QED
  BY <1>1, <1>2 DEF Resolved, Ranked

LEMMA ChainStill ==
  ASSUME input' = input, measures' = measures, stack' = stack, Chain
  PROVE  Chain'
<1>1. Definitions' = Definitions /\ Nodes' = Nodes /\ \A d : Depends(d)' = Depends(d)
  BY GraphStill
<1> QED
  BY <1>1 DEF Chain, Root

LEMMA LoopedStill ==
  ASSUME input' = input, measures' = measures, stack' = stack, Looped
  PROVE  Looped'
<1>1. Definitions' = Definitions /\ Nodes' = Nodes /\ \A d : Depends(d)' = Depends(d)
  BY GraphStill
<1> QED
  BY <1>1, ChainStill DEF Looped

LEMMA TracingStill ==
  ASSUME input' = input, measures' = measures, stack' = stack, visited' = visited, Tracing
  PROVE  Tracing'
<1>1. /\ Definitions' = Definitions /\ Nodes' = Nodes
      /\ \A d : Followed(d)' = Followed(d) /\ Depends(d)' = Depends(d)
      /\ \A d, j : Looked(d, j)' = Looked(d, j)
  BY GraphStill
<1>2. Chain'
  BY ChainStill DEF Tracing
<1>3. Ranked'
  BY <1>1 DEF Tracing, Ranked
<1>4. Behind'
  BY <1>1 DEF Tracing, Behind
<1>5. Marked'
  BY <1>1 DEF Tracing, Marked
<1> QED
  BY <1>2, <1>3, <1>4, <1>5 DEF Tracing

\* The visit begins with nothing visited.
LEMMA TracingBegins ==
  ASSUME Bound, input' = input, measures' = Preresolved(Len(query.defines)),
         visited' = [d \in Definitions |-> 0], stack' = <<[def |-> <<"roots", 0>>, at |-> 1]>>
  PROVE  Bound' /\ Tracing'
<1>1. schema' = schema /\ query' = query
  BY DEF schema, query
<1>2. Definitions' = Definitions /\ Nodes' = Nodes /\ Given'
  BY <1>1 DEF Definitions, Nodes, Bound, Given
<1>3. Bound'
  BY <1>2, PreresolvedDefined DEF Bound
<1>4. Len(stack') = 1 /\ stack'[1] = [def |-> Root, at |-> 1]
  BY DEF Root
<1>5. Chain'
  <2>1. stack' \in Seq([def : Nodes, at : Nat])
    BY DEF Root, Nodes
  <2> QED
    BY <1>2, <1>4, <2>1 DEF Chain, Root
<1>6. Ranked'
  <2>1. [d \in Definitions |-> 0] \in [Definitions -> Nat] /\ 1 \in Nat
    OBVIOUS
  <2> QED
    BY <1>2, <2>1 DEF Ranked
<1>7. Behind'
  <2>1. \A d \in Nodes : Len(Followed(d)') \in Nat
    <3>1. \A d \in Nodes : Len(Followed(d)) \in Nat
      BY FollowedTyped DEF Bound
    <3>2. \A d : Followed(d)' = Followed(d)
      BY <1>1 DEF Followed, Roots, Definition
    <3> QED
      BY <3>1, <3>2
  <2> QED
    BY <1>2, <1>4, <2>1 DEF Behind
<1>8. Marked'
  BY <1>2, <1>4 DEF Marked
<1> QED
  BY <1>3, <1>5, <1>6, <1>7, <1>8 DEF Tracing

\* The reference the top of the stack is at, and the stack past it.
LEMMA TopAt ==
  ASSUME Bound, Tracing
  PROVE  /\ Top \in [def : Nodes, at : Nat] /\ Top.def \in Nodes /\ Top.at \in Nat /\ Top = stack[Len(stack)]
         /\ Len(stack) \in 1 .. Len(stack)
         /\ Top.at \in 1 .. Len(Followed(Top.def)) + 1
         /\ \A j \in 1 .. Top.at - 1 : \A e \in Looked(Top.def, j) : visited[e] = 2
<1>1. Len(stack) \in Nat /\ Len(stack) >= 1 /\ Top \in [def : Nodes, at : Nat] /\ Top.def \in Nodes /\ Top.at \in Nat
  BY StackTyped DEF Tracing, Top
<1>2. Len(stack) \in 1 .. Len(stack) /\ ~(Len(stack) < Len(stack))
  BY <1>1
<1>3. Top = stack[Len(stack)]
  BY DEF Top
<1>4. \A i \in 1 .. Len(stack), d \in Nodes : d = stack[i].def =>
        /\ stack[i].at \in 1 .. Len(Followed(d)) + 1
        /\ \A j \in 1 .. stack[i].at - 1 : \A e \in Looked(d, j) :
             visited[e] = 2 \/ (i < Len(stack) /\ e = stack[i + 1].def)
  BY DEF Tracing, Behind
<1>5. /\ Top.at \in 1 .. Len(Followed(Top.def)) + 1
      /\ \A j \in 1 .. Top.at - 1 : \A e \in Looked(Top.def, j) : visited[e] = 2
  BY <1>1, <1>2, <1>3, <1>4
<1> QED
  BY <1>1, <1>2, <1>3, <1>5

Past == [stack EXCEPT ![Len(stack)].at = @ + 1]

LEMMA PastTyped ==
  ASSUME Bound, Tracing
  PROVE  /\ Past \in Seq([def : Nodes, at : Nat]) /\ Len(Past) = Len(stack)
         /\ \A i \in 1 .. Len(stack) : Past[i].def = stack[i].def
         /\ \A i \in 1 .. Len(stack) - 1 : Past[i].at = stack[i].at
         /\ Past[Len(stack)].at = Top.at + 1
<1> DEFINE F == [def : Nodes, at : Nat]
           frame == [stack[Len(stack)] EXCEPT !.at = Top.at + 1]
<1>1. /\ Len(stack) \in Nat /\ Len(stack) \in 1 .. Len(stack) /\ DOMAIN stack = 1 .. Len(stack)
      /\ Top = stack[Len(stack)] /\ Top \in F /\ Top.at \in Nat
  BY StackTyped, TopAt DEF Tracing
<1>2. frame \in F /\ frame.def = stack[Len(stack)].def /\ frame.at = Top.at + 1
  BY <1>1
<1>3. Past = [stack EXCEPT ![Len(stack)] = frame]
  BY DEF Past, Top
<1>4. stack \in Seq(F)
  BY DEF Tracing, Chain
<1> HIDE DEF F, frame
<1>5. Past \in Seq(F) /\ Len(Past) = Len(stack)
  BY <1>1, <1>2, <1>3, <1>4
<1>6. /\ \A i \in 1 .. Len(stack) : i # Len(stack) => Past[i] = stack[i]
      /\ Past[Len(stack)] = frame
  BY <1>1, <1>3
<1>7. \A i \in 1 .. Len(stack) : Past[i].def = stack[i].def
  BY <1>2, <1>6
<1>8. ASSUME NEW i \in 1 .. Len(stack) - 1 PROVE Past[i].at = stack[i].at
  <2>1. Len(stack) \in Nat
    BY <1>1
  <2>2. i \in 1 .. Len(stack) /\ i # Len(stack)
    BY <2>1
  <2> QED
    BY <1>6, <2>2
<1> QED
  BY <1>2, <1>5, <1>6, <1>7, <1>8 DEF F

\* One reference is behind: what it leads to is finished.
LEMMA TracingPast ==
  ASSUME Bound, Tracing, input' = input, measures' = measures, visited' = visited, stack' = Past,
         Top.at <= Len(Followed(Top.def)), \A e \in Looked(Top.def, Top.at) : visited[e] = 2
  PROVE  Tracing'
<1>1. /\ Definitions' = Definitions /\ Nodes' = Nodes
      /\ \A d : Followed(d)' = Followed(d) /\ Depends(d)' = Depends(d)
      /\ \A d, j : Looked(d, j)' = Looked(d, j)
  BY GraphStill
<1>2. /\ stack' \in Seq([def : Nodes, at : Nat]) /\ Len(stack') = Len(stack)
      /\ \A i \in 1 .. Len(stack) : stack'[i].def = stack[i].def
      /\ \A i \in 1 .. Len(stack) - 1 : stack'[i].at = stack[i].at
      /\ stack'[Len(stack)].at = Top.at + 1
  BY PastTyped
<1>3. Len(stack) \in Nat /\ Len(stack) >= 1 /\ Top = stack[Len(stack)] /\ Top.def \in Nodes /\ Top.at \in Nat
  BY StackTyped, TopAt DEF Tracing
<1>4. Chain'
  <2>1. stack'[1].def = Root /\ stack' # <<>>
    BY <1>2, <1>3 DEF Tracing, Chain
  <2>2. ASSUME NEW i \in 2 .. Len(stack) PROVE stack'[i].def \in Definitions
    <3>1. i \in 1 .. Len(stack) /\ stack[i].def \in Definitions
      BY <1>3 DEF Tracing, Chain
    <3> QED
      BY <1>2, <3>1
  <2>3. \A i, j \in 1 .. Len(stack) : stack'[i].def = stack'[j].def => i = j
    BY <1>2 DEF Tracing, Chain
  <2>4. ASSUME NEW i \in 1 .. Len(stack) - 1, NEW d \in Nodes, d = stack'[i].def PROVE stack'[i + 1].def \in Depends(d)
    <3>1. i \in 1 .. Len(stack) /\ i + 1 \in 1 .. Len(stack)
      BY <1>3
    <3>2. d = stack[i].def /\ stack'[i + 1].def = stack[i + 1].def
      BY <1>2, <2>4, <3>1
    <3> QED
      BY <3>2 DEF Tracing, Chain
  <2> QED
    BY <1>1, <1>2, <2>1, <2>2, <2>3, <2>4 DEF Chain, Root
<1>5. Ranked'
  BY <1>1 DEF Tracing, Ranked
<1>6. Behind'
  <2>1. ASSUME NEW i \in 1 .. Len(stack), NEW d \in Nodes, d = stack'[i].def
        PROVE  /\ stack'[i].at \in 1 .. Len(Followed(d)) + 1
               /\ \A j \in 1 .. stack'[i].at - 1 : \A e \in Looked(d, j) :
                    visited[e] = 2 \/ (i < Len(stack) /\ e = stack'[i + 1].def)
    <3>1. CASE i = Len(stack)
      <4>1. d = Top.def /\ stack'[i].at = Top.at + 1
        BY <1>2, <1>3, <2>1, <3>1
      <4>2. /\ Top.at \in 1 .. Len(Followed(Top.def)) + 1
            /\ \A j \in 1 .. Top.at - 1 : \A e \in Looked(Top.def, j) : visited[e] = 2
        BY TopAt
      <4>3. Len(Followed(Top.def)) \in Nat
        BY <1>3, FollowedTyped DEF Bound
      <4>4. Top.at + 1 \in 1 .. Len(Followed(Top.def)) + 1
        BY <1>3, <4>3
      <4>5. \A j \in 1 .. (Top.at + 1) - 1 : j \in 1 .. Top.at - 1 \/ j = Top.at
        BY <1>3
      <4> QED
        BY <4>1, <4>2, <4>4, <4>5
    <3>2. CASE i # Len(stack)
      <4>1. i \in 1 .. Len(stack) - 1 /\ i + 1 \in 1 .. Len(stack) /\ i < Len(stack)
        BY <1>3, <3>2
      <4>2. d = stack[i].def /\ stack'[i].at = stack[i].at /\ stack'[i + 1].def = stack[i + 1].def
        BY <1>2, <2>1, <4>1
      <4> QED
        BY <4>1, <4>2 DEF Tracing, Behind
    <3> QED
      BY <3>1, <3>2
  <2> QED
    BY <1>1, <1>2, <2>1 DEF Behind
<1>7. Marked'
  <2>1. ASSUME NEW i \in 2 .. Len(stack) PROVE stack'[i].def = stack[i].def
    <3>1. i \in 1 .. Len(stack)
      BY <1>3
    <3> QED
      BY <1>2, <3>1
  <2>2. Definitions' = Definitions /\ Len(stack') = Len(stack) /\ Marked
    BY <1>1, <1>2 DEF Tracing
  <2>3. \A d \in Definitions : visited[d] = 1 <=> \E i \in 2 .. Len(stack) : stack'[i].def = d
    BY <2>1, <2>2 DEF Marked
  <2> QED
    BY <2>2, <2>3 DEF Marked
<1> QED
  BY <1>4, <1>5, <1>6, <1>7 DEF Tracing

\* A definition is entered: it was not visited, and the reference leads to it only.
LEMMA TracingEnters ==
  ASSUME Bound, Tracing, input' = input, measures' = measures, NEW c \in Definitions,
         stack' = Append(Past, [def |-> c, at |-> 1]), visited' = [visited EXCEPT ![c] = 1],
         Top.at <= Len(Followed(Top.def)), visited[c] = 0, c \in Looked(Top.def, Top.at),
         \A e \in Looked(Top.def, Top.at) : e = c
  PROVE  Tracing'
<1> DEFINE L == Len(stack)
<1>1. /\ Definitions' = Definitions /\ Nodes' = Nodes
      /\ \A d : Followed(d)' = Followed(d) /\ Depends(d)' = Depends(d)
      /\ \A d, j : Looked(d, j)' = Looked(d, j)
  BY GraphStill
<1>2. L \in Nat /\ L >= 1 /\ Top = stack[L] /\ Top.def \in Nodes /\ Top.at \in Nat
  BY StackTyped, TopAt DEF Tracing
<1>3. /\ Past \in Seq([def : Nodes, at : Nat]) /\ Len(Past) = L
      /\ \A i \in 1 .. L : Past[i].def = stack[i].def
      /\ \A i \in 1 .. L - 1 : Past[i].at = stack[i].at
      /\ Past[L].at = Top.at + 1
  BY PastTyped
<1>4. /\ stack' \in Seq([def : Nodes, at : Nat]) /\ Len(stack') = L + 1
      /\ stack'[L + 1] = [def |-> c, at |-> 1]
      /\ \A i \in 1 .. L : stack'[i] = Past[i]
  <2> DEFINE F == [def : Nodes, at : Nat]
             new == [def |-> c, at |-> 1]
  <2>1. new \in F /\ Past \in Seq(F) /\ Len(Past) = L
    BY <1>3 DEF Nodes
  <2>2. stack' = Append(Past, new)
    OBVIOUS
  <2> HIDE DEF F, new
  <2>3. stack' \in Seq(F) /\ Len(stack') = L + 1 /\ stack'[L + 1] = new
    BY <2>1, <2>2
  <2>4. \A i \in 1 .. L : stack'[i] = Past[i]
    BY <2>1, <2>2
  <2> QED
    BY <2>3, <2>4 DEF F, new
<1>5. ASSUME NEW i \in 1 .. L PROVE stack'[i].def = stack[i].def
  BY <1>3, <1>4
<1>6. stack'[L + 1].def = c /\ stack'[L + 1].at = 1
  BY <1>4
<1>7. \A i \in 1 .. L : stack[i].def # c
  <2> SUFFICES ASSUME NEW i \in 1 .. L, stack[i].def = c PROVE FALSE
    OBVIOUS
  <2>1. CASE i = 1
    <3>1. c = Root
      BY <2>1 DEF Tracing, Chain
    <3> QED
      BY <3>1 DEF Root, Definitions
  <2>2. CASE i # 1
    <3>1. i \in 2 .. Len(stack)
      BY <1>2, <2>2
    <3>2. visited[c] = 1
      BY <3>1 DEF Tracing, Marked
    <3> QED
      BY <3>2
  <2> QED
    BY <2>1, <2>2
<1>8. Chain'
  <2>1. stack'[1].def = Root /\ stack' # <<>>
    <3>1. 1 \in 1 .. L /\ stack[1].def = Root
      BY <1>2 DEF Tracing, Chain
    <3> QED
      BY <1>2, <1>4, <1>5, <3>1
  <2>2. ASSUME NEW i \in 2 .. L + 1 PROVE stack'[i].def \in Definitions
    <3>1. CASE i = L + 1
      BY <1>6, <3>1
    <3>2. CASE i # L + 1
      <4>1. i \in 1 .. L /\ stack[i].def \in Definitions
        BY <1>2, <3>2 DEF Tracing, Chain
      <4> QED
        BY <1>5, <4>1
    <3> QED
      BY <3>1, <3>2
  <2>3. ASSUME NEW i \in 1 .. L + 1, NEW j \in 1 .. L + 1, stack'[i].def = stack'[j].def PROVE i = j
    <3>1. \A k \in 1 .. L + 1 : k = L + 1 \/ k \in 1 .. L
      BY <1>2
    <3>2. CASE i \in 1 .. L /\ j \in 1 .. L
      <4>1. stack[i].def = stack[j].def
        BY <1>5, <2>3, <3>2
      <4> QED
        BY <3>2, <4>1 DEF Tracing, Chain
    <3>3. CASE i = L + 1 /\ j \in 1 .. L
      BY <1>5, <1>6, <1>7, <2>3, <3>3
    <3>4. CASE i \in 1 .. L /\ j = L + 1
      BY <1>5, <1>6, <1>7, <2>3, <3>4
    <3>5. CASE i = L + 1 /\ j = L + 1
      BY <3>5
    <3> QED
      BY <3>1, <3>2, <3>3, <3>4, <3>5
  <2>4. ASSUME NEW i \in 1 .. (L + 1) - 1, NEW d \in Nodes, d = stack'[i].def PROVE stack'[i + 1].def \in Depends(d)
    <3>0. i \in 1 .. L
      BY <1>2
    <3>1. d = stack[i].def
      BY <1>5, <2>4, <3>0
    <3>2. CASE i = L
      <4>1. d = Top.def /\ stack'[i + 1].def = c
        BY <1>2, <1>6, <3>1, <3>2
      <4>2. Top.at \in 1 .. Len(Followed(Top.def))
        BY TopAt, <1>2
      <4>3. Depends(d) = UNION {Looked(d, j) : j \in 1 .. Len(Followed(d))}
        BY LookedDefined
      <4>4. c \in Looked(d, Top.at) /\ Top.at \in 1 .. Len(Followed(d))
        BY <4>1, <4>2
      <4> QED
        BY <4>1, <4>3, <4>4
    <3>3. CASE i # L
      <4>1. i \in 1 .. L - 1 /\ i + 1 \in 1 .. L
        BY <1>2, <3>0, <3>3
      <4>2. stack'[i + 1].def = stack[i + 1].def
        BY <1>5, <4>1
      <4> QED
        BY <3>1, <4>1, <4>2 DEF Tracing, Chain
    <3> QED
      BY <3>2, <3>3
  <2> QED
    BY <1>1, <1>4, <2>1, <2>2, <2>3, <2>4 DEF Chain, Root
<1>9. visited \in [Definitions -> 0 .. 2]
  BY DEF Tracing, Marked
<1>10. /\ visited'[c] = 1 /\ \A d \in Definitions : d # c => visited'[d] = visited[d]
       /\ \A d \in Definitions : visited'[d] = 2 <=> visited[d] = 2
       /\ visited' \in [Definitions -> 0 .. 2]
  BY <1>9
<1>11. \A d \in Nodes : Depends(d) \subseteq Definitions
  BY DependsDefined
<1>12. Ranked'
  <2>1. PICK n \in Nat, rank \in [Definitions -> Nat] :
          /\ \A d \in Definitions : rank[d] < n
          /\ \A d \in Definitions : visited[d] = 2 => \A e \in Depends(d) : visited[e] = 2 /\ rank[e] < rank[d]
    BY DEF Tracing, Ranked
  <2>2. ASSUME NEW d \in Definitions, visited'[d] = 2, NEW e \in Depends(d) PROVE visited'[e] = 2 /\ rank[e] < rank[d]
    <3>1. visited[d] = 2 /\ e \in Definitions
      BY <1>10, <1>11, <2>2 DEF Nodes
    <3> QED
      BY <1>10, <2>1, <3>1
  <2> QED
    BY <1>1, <2>1, <2>2 DEF Ranked
<1>13. Behind'
  <2>1. ASSUME NEW i \in 1 .. L + 1, NEW d \in Nodes, d = stack'[i].def
        PROVE  /\ stack'[i].at \in 1 .. Len(Followed(d)) + 1
               /\ \A j \in 1 .. stack'[i].at - 1 : \A e \in Looked(d, j) :
                    visited'[e] = 2 \/ (i < L + 1 /\ e = stack'[i + 1].def)
    <3>0. Len(Followed(d)) \in Nat /\ DOMAIN Followed(d) = 1 .. Len(Followed(d))
      BY FollowedTyped DEF Bound
    <3>1. CASE i = L + 1
      <4>1. stack'[i].at = 1
        BY <1>6, <3>1, Zenon
      <4>2. 1 \in 1 .. Len(Followed(d)) + 1
        BY <3>0
      <4>3. 1 .. 1 - 1 = {}
        OBVIOUS
      <4>4. 1 .. stack'[i].at - 1 = {} /\ stack'[i].at \in 1 .. Len(Followed(d)) + 1
        BY <4>1, <4>2, <4>3, Zenon
      <4> QED
        BY <4>4
    <3>2. CASE i = L
      <4>1. d = Top.def /\ stack'[i].at = Top.at + 1 /\ stack'[i + 1].def = c
        BY <1>2, <1>3, <1>4, <1>5, <1>6, <2>1, <3>2
      <4>2. /\ Top.at \in 1 .. Len(Followed(Top.def)) + 1
            /\ \A j \in 1 .. Top.at - 1 : \A e \in Looked(Top.def, j) : visited[e] = 2
        BY TopAt
      <4>3. Top.at + 1 \in 1 .. Len(Followed(d)) + 1
        BY <1>2, <3>0, <4>1
      <4>4. ASSUME NEW j \in 1 .. (Top.at + 1) - 1, NEW e \in Looked(d, j)
            PROVE  visited'[e] = 2 \/ e = c
        <5>1. CASE j = Top.at
          BY <4>1, <4>4, <5>1
        <5>2. CASE j # Top.at
          <6>1. j \in 1 .. Top.at - 1 /\ j \in 1 .. Len(Followed(d))
            BY <1>2, <3>0, <4>1, <4>2, <5>2
          <6>2. visited[e] = 2 /\ e \in Definitions
            BY <4>1, <4>2, <6>1, LookedDefined
          <6> QED
            BY <1>10, <6>2
        <5> QED
          BY <5>1, <5>2
      <4>5. i < L + 1
        BY <1>2, <3>2
      <4> QED
        BY <4>1, <4>3, <4>4, <4>5
    <3>3. CASE i \in 1 .. L - 1
      <4>1. i \in 1 .. L /\ i + 1 \in 1 .. L /\ i < L /\ i < L + 1
        BY <1>2, <3>3
      <4>2. d = stack[i].def /\ stack'[i].at = stack[i].at /\ stack'[i + 1].def = stack[i + 1].def
        BY <1>3, <1>4, <1>5, <2>1, <3>3, <4>1
      <4>3. /\ stack[i].at \in 1 .. Len(Followed(d)) + 1
            /\ \A j \in 1 .. stack[i].at - 1 : \A e \in Looked(d, j) : visited[e] = 2 \/ e = stack[i + 1].def
        BY <4>1, <4>2 DEF Tracing, Behind
      <4>4. ASSUME NEW j \in 1 .. stack[i].at - 1, NEW e \in Looked(d, j), visited[e] = 2 PROVE visited'[e] = 2
        <5>1. stack[i].at \in Nat
          BY <3>0, <4>3
        <5>2. j \in 1 .. Len(Followed(d))
          BY <3>0, <4>3, <5>1
        <5>3. e \in Definitions
          BY <5>2, LookedDefined
        <5> QED
          BY <1>10, <4>4, <5>3
      <4>5. stack'[i].at \in 1 .. Len(Followed(d)) + 1
        BY <4>2, <4>3
      <4>6. ASSUME NEW j \in 1 .. stack[i].at - 1, NEW e \in Looked(d, j) PROVE visited'[e] = 2 \/ e = stack'[i + 1].def
        BY <4>2, <4>3, <4>4
      <4>7. stack'[i].at = stack[i].at /\ i < L + 1
        BY <4>1, <4>2
      <4> QED
        BY <4>5, <4>6, <4>7
    <3>4. i = L + 1 \/ i = L \/ i \in 1 .. L - 1
      BY <1>2
    <3> QED
      BY <3>1, <3>2, <3>3, <3>4
  <2> QED
    BY <1>1, <1>4, <2>1 DEF Behind
<1>14. Marked'
  <2>1. ASSUME NEW d \in Definitions PROVE visited'[d] = 1 <=> \E i \in 2 .. L + 1 : stack'[i].def = d
    <3>1. CASE d = c
      <4>1. L + 1 \in 2 .. L + 1
        BY <1>2
      <4> QED
        BY <1>6, <1>10, <3>1, <4>1
    <3>2. CASE d # c
      <4>1. visited'[d] = 1 <=> \E i \in 2 .. L : stack[i].def = d
        BY <1>10, <3>2 DEF Tracing, Marked
      <4>2. \A i \in 2 .. L : i \in 1 .. L /\ i \in 2 .. L + 1
        BY <1>2
      <4>3. \A i \in 2 .. L + 1 : i = L + 1 \/ i \in 2 .. L
        BY <1>2
      <4> QED
        BY <1>5, <1>6, <3>2, <4>1, <4>2, <4>3
    <3> QED
      BY <3>1, <3>2
  <2>2. Definitions' = Definitions /\ Len(stack') = L + 1 /\ visited' \in [Definitions -> 0 .. 2]
    BY <1>1, <1>4, <1>10
  <2> QED
    BY <2>1, <2>2 DEF Marked
<1> QED
  BY <1>8, <1>12, <1>13, <1>14 DEF Tracing

\* The definition at the top is finished, and ranks above all that were.
LEMMA TracingReturns ==
  ASSUME Bound, Tracing, input' = input, measures' = measures,
         Len(stack) # 1, Top.at > Len(Followed(Top.def)),
         stack' = SubSeq(stack, 1, Len(stack) - 1), visited' = [visited EXCEPT ![Top.def] = 2]
  PROVE  Tracing'
<1> DEFINE L == Len(stack)
           t == Top.def
<1>1. /\ Definitions' = Definitions /\ Nodes' = Nodes
      /\ \A d : Followed(d)' = Followed(d) /\ Depends(d)' = Depends(d)
      /\ \A d, j : Looked(d, j)' = Looked(d, j)
  BY GraphStill
<1>2. L \in Nat /\ L >= 2 /\ Top = stack[L] /\ t = stack[L].def /\ t \in Nodes /\ Top.at \in Nat
  BY StackTyped, TopAt DEF Tracing
<1>3. t \in Definitions
  <2>1. L \in 2 .. Len(stack)
    BY <1>2
  <2> QED
    BY <1>2, <2>1 DEF Tracing, Chain
<1>4. /\ stack' \in Seq([def : Nodes, at : Nat]) /\ Len(stack') = L - 1
      /\ \A i \in 1 .. L - 1 : stack'[i] = stack[i]
  <2> DEFINE F == [def : Nodes, at : Nat]
  <2>1. stack \in Seq(F)
    BY DEF Tracing, Chain
  <2> HIDE DEF F
  <2>2. stack' \in Seq(F) /\ Len(stack') = L - 1 /\ \A i \in 1 .. L - 1 : stack'[i] = stack[i]
    BY <1>2, <2>1
  <2> QED
    BY <2>2 DEF F
<1>5. \A e \in Depends(t) : visited[e] = 2 /\ e \in Definitions
  <2>1. /\ Top.at \in 1 .. Len(Followed(t)) + 1
        /\ \A j \in 1 .. Top.at - 1 : \A e \in Looked(t, j) : visited[e] = 2
    BY TopAt
  <2>2. Len(Followed(t)) \in Nat
    BY <1>2, FollowedTyped DEF Bound
  <2>3. Top.at - 1 = Len(Followed(t))
    BY <1>2, <2>1, <2>2
  <2>4. Depends(t) = UNION {Looked(t, j) : j \in 1 .. Len(Followed(t))}
    BY <1>2, LookedDefined
  <2>5. Depends(t) \subseteq Definitions
    BY <1>2, DependsDefined
  <2> QED
    BY <2>1, <2>3, <2>4, <2>5
<1>6. visited \in [Definitions -> 0 .. 2] /\ visited[t] = 1
  <2>1. L \in 2 .. Len(stack)
    BY <1>2
  <2> QED
    BY <1>2, <1>3, <2>1 DEF Tracing, Marked
<1> HIDE DEF t
<1>7. visited' = [visited EXCEPT ![t] = 2]
  BY DEF t
<1>8. /\ visited'[t] = 2 /\ \A d \in Definitions : d # t => visited'[d] = visited[d]
      /\ visited' \in [Definitions -> 0 .. 2]
  BY <1>3, <1>6, <1>7
<1>9. \A d \in Definitions : visited[d] = 2 => visited'[d] = 2
  BY <1>6, <1>8
<1>10. Chain'
  <2>1. stack'[1].def = Root /\ stack' # <<>>
    <3>1. 1 \in 1 .. L - 1
      BY <1>2
    <3>2. stack[1].def = Root
      BY DEF Tracing, Chain
    <3>3. stack'[1].def = Root
      BY <1>4, <3>1, <3>2
    <3>4. Len(stack') # 0
      BY <1>2, <1>4
    <3>5. stack' # <<>>
      BY <3>4
    <3> QED
      BY <3>3, <3>5
  <2>2. ASSUME NEW i \in 2 .. L - 1 PROVE stack'[i].def \in Definitions
    <3>1. i \in 1 .. L - 1 /\ i \in 2 .. L
      BY <1>2
    <3> QED
      BY <1>4, <3>1 DEF Tracing, Chain
  <2>3. ASSUME NEW i \in 1 .. L - 1, NEW j \in 1 .. L - 1, stack'[i].def = stack'[j].def PROVE i = j
    <3>1. i \in 1 .. L /\ j \in 1 .. L
      BY <1>2
    <3>2. stack[i].def = stack[j].def
      BY <1>4, <2>3
    <3> QED
      BY <3>1, <3>2 DEF Tracing, Chain
  <2>4. ASSUME NEW i \in 1 .. (L - 1) - 1, NEW d \in Nodes, d = stack'[i].def PROVE stack'[i + 1].def \in Depends(d)
    <3>1. i \in 1 .. L - 1 /\ i + 1 \in 1 .. L - 1
      BY <1>2
    <3>2. d = stack[i].def /\ stack'[i + 1].def = stack[i + 1].def
      BY <1>4, <2>4, <3>1
    <3> QED
      BY <3>1, <3>2 DEF Tracing, Chain
  <2>5. /\ stack' \in Seq([def : Nodes', at : Nat]) /\ Len(stack') = L - 1
        /\ Definitions' = Definitions /\ Nodes' = Nodes /\ Root' = Root
    BY <1>1, <1>4 DEF Root
  <2>6. \A d : Depends(d)' = Depends(d)
    BY <1>1
  <2> QED
    BY <2>1, <2>2, <2>3, <2>4, <2>5, <2>6 DEF Chain
<1>11. Ranked'
  <2>1. PICK n \in Nat, rank \in [Definitions -> Nat] :
          /\ \A d \in Definitions : rank[d] < n
          /\ \A d \in Definitions : visited[d] = 2 => \A e \in Depends(d) : visited[e] = 2 /\ rank[e] < rank[d]
    BY DEF Tracing, Ranked
  <2> DEFINE above == [rank EXCEPT ![t] = n]
  <2>2. above \in [Definitions -> Nat] /\ above[t] = n /\ \A d \in Definitions : d # t => above[d] = rank[d]
    BY <1>3
  <2>3. \A d \in Definitions : above[d] < n + 1
    <3> TAKE d \in Definitions
    <3>1. rank[d] \in Nat /\ rank[d] < n
      BY <2>1
    <3>2. above[d] = n \/ above[d] = rank[d]
      BY <2>2
    <3> HIDE DEF above
    <3> QED
      BY <3>1, <3>2
  <2> HIDE DEF above
  <2>4. ASSUME NEW d \in Definitions, visited'[d] = 2, NEW e \in Depends(d) PROVE visited'[e] = 2 /\ above[e] < above[d]
    <3>1. CASE d = t
      <4>1. visited[e] = 2 /\ e \in Definitions /\ e # t
        BY <1>5, <1>6, <2>4, <3>1
      <4> QED
        BY <1>9, <2>1, <2>2, <3>1, <4>1
    <3>2. CASE d # t
      <4>1. visited[d] = 2 /\ e \in Definitions
        BY <1>8, <2>4, <3>2, DependsDefined DEF Nodes
      <4>2. visited[e] = 2 /\ rank[e] < rank[d]
        BY <2>1, <4>1
      <4>3. e # t
        BY <1>6, <4>2
      <4> QED
        BY <1>9, <2>2, <3>2, <4>1, <4>2, <4>3
    <3> QED
      BY <3>1, <3>2
  <2>5. n + 1 \in Nat
    OBVIOUS
  <2> QED
    BY <1>1, <2>2, <2>3, <2>4, <2>5 DEF Ranked
<1>12. Behind'
  <2>1. ASSUME NEW i \in 1 .. L - 1, NEW d \in Nodes, d = stack'[i].def
        PROVE  /\ stack'[i].at \in 1 .. Len(Followed(d)) + 1
               /\ \A j \in 1 .. stack'[i].at - 1 : \A e \in Looked(d, j) :
                    visited'[e] = 2 \/ (i < L - 1 /\ e = stack'[i + 1].def)
    <3>1. i \in 1 .. L /\ stack'[i] = stack[i] /\ d = stack[i].def
      BY <1>2, <1>4, <2>1
    <3>2. /\ stack[i].at \in 1 .. Len(Followed(d)) + 1
          /\ \A j \in 1 .. stack[i].at - 1 : \A e \in Looked(d, j) : visited[e] = 2 \/ e = stack[i + 1].def
      BY <3>1 DEF Tracing, Behind
    <3>3. ASSUME NEW j \in 1 .. stack[i].at - 1, NEW e \in Looked(d, j)
          PROVE  visited'[e] = 2 \/ (i < L - 1 /\ e = stack'[i + 1].def)
      <4>1. e \in Definitions
        <5>1. Len(Followed(d)) \in Nat
          BY FollowedTyped DEF Bound
        <5>2. j \in 1 .. Len(Followed(d))
          BY <3>2, <5>1
        <5> QED
          BY <5>2, LookedDefined
      <4>2. CASE visited[e] = 2
        BY <1>9, <4>1, <4>2
      <4>3. CASE e = stack[i + 1].def /\ i = L - 1
        <5>1. e = t
          BY <1>2, <4>3
        <5> QED
          BY <1>8, <5>1
      <4>4. CASE e = stack[i + 1].def /\ i # L - 1
        <5>1. i < L - 1 /\ i + 1 \in 1 .. L - 1
          BY <1>2, <4>4
        <5> QED
          BY <1>4, <4>4, <5>1
      <4> QED
        BY <3>2, <4>2, <4>3, <4>4
    <3> QED
      BY <3>1, <3>2, <3>3
  <2>2. Nodes' = Nodes /\ Len(stack') = L - 1
    BY <1>1, <1>4
  <2> QED
    BY <1>1, <2>1, <2>2 DEF Behind
<1>13. Marked'
  <2>1. ASSUME NEW d \in Definitions PROVE visited'[d] = 1 <=> \E i \in 2 .. L - 1 : stack'[i].def = d
    <3>1. \A i \in 2 .. L - 1 : i \in 2 .. L /\ i \in 1 .. L - 1 /\ i \in 1 .. L /\ i # L
      BY <1>2
    <3>2. CASE d = t
      <4>1. visited'[d] = 2
        BY <1>8, <3>2
      <4>2. ASSUME NEW i \in 2 .. L - 1, stack'[i].def = d PROVE FALSE
        <5>1. L \in 1 .. L /\ i \in 1 .. L /\ i # L /\ i \in 1 .. L - 1
          BY <1>2, <3>1
        <5>2. stack[i].def = stack[L].def
          BY <1>2, <1>4, <3>2, <4>2, <5>1
        <5> QED
          BY <5>1, <5>2 DEF Tracing, Chain
      <4> QED
        BY <4>1, <4>2
    <3>3. CASE d # t
      <4>1. visited'[d] = 1 <=> \E i \in 2 .. L : stack[i].def = d
        BY <1>8, <3>3 DEF Tracing, Marked
      <4>2. \A i \in 2 .. L : i = L \/ i \in 2 .. L - 1
        BY <1>2
      <4> QED
        BY <1>2, <1>4, <3>1, <3>3, <4>1, <4>2
    <3> QED
      BY <3>2, <3>3
  <2>2. Definitions' = Definitions /\ Len(stack') = L - 1 /\ visited' \in [Definitions -> 0 .. 2]
    BY <1>1, <1>4, <1>8
  <2> QED
    BY <2>1, <2>2 DEF Marked
<1> QED
  BY <1>10, <1>11, <1>12, <1>13 DEF Tracing

LEMMA VisitSteps ==
  ASSUME MeasureInv, Visit, [Next]_vars
  PROVE  MeasureInv'
<1> DEFINE ref == Followed(Top.def)[Top.at]
           open == {d \in Targets(ref) : visited[d] < 2}
           at == Top.at
           t == Top.def
<1>1. /\ Bound /\ Tracing /\ stage = "visit" /\ why # "circular"
      /\ at <= Len(Followed(t)) /\ measures' = measures
  BY DEF MeasureInv, Visit
<1>2. Bound'
  BY <1>1, BoundStill
<1>3. t \in Nodes /\ at \in 1 .. Len(Followed(t)) /\ at \in Nat
  <2>1. Top.def \in Nodes /\ Top.at \in Nat /\ Top.at \in 1 .. Len(Followed(Top.def)) + 1
    BY <1>1, TopAt
  <2>2. Len(Followed(t)) \in Nat
    BY <1>1, <2>1, FollowedTyped DEF Bound
  <2> QED
    BY <1>1, <2>1, <2>2
<1>4. Targets(ref) = Looked(t, at) /\ Looked(t, at) \subseteq Definitions
  <2>1. Targets(ref) = Looked(t, at)
    BY DEF Looked
  <2> HIDE DEF ref
  <2>2. Looked(t, at) \subseteq Definitions
    BY <1>1, <1>3, LookedDefined
  <2> QED
    BY <2>1, <2>2
<1>5. visited \in [Definitions -> 0 .. 2]
  BY <1>1 DEF Tracing, Marked
<1>6. CASE Error(ref, t) # "" /\ Fail(Error(ref, t))
  <2>1. Error(ref, t) # "circular"
    BY DEF Error
  <2>2. stage' = "failed" /\ why' # "circular"
    BY <1>6, <2>1 DEF Fail
  <2> QED
    BY <1>2, <2>2 DEF MeasureInv
<1>7. CASE Error(ref, t) = "" /\ (\E d \in open : visited[d] = 1) /\ Fail("circular") /\ UNCHANGED <<visited, stack>>
  <2>1. PICK d \in open : visited[d] = 1
    BY <1>7
  <2>2. d \in Looked(t, at) /\ d \in Definitions
    BY <1>4, <2>1
  <2>3. PICK i \in 2 .. Len(stack) : stack[i].def = d
    BY <1>1, <2>1, <2>2 DEF Tracing, Marked
  <2>4. d \in Depends(t)
    <3>1. Depends(t) = UNION {Looked(t, j) : j \in 1 .. Len(Followed(t))}
      BY <1>1, <1>3, LookedDefined
    <3> QED
      BY <1>3, <2>2, <3>1
  <2>5. Looped
    <3>1. t = stack[Len(stack)].def
      BY DEF Top
    <3> QED
      BY <1>1, <1>3, <2>3, <2>4, <3>1 DEF Looped, Tracing
  <2>6. Looped'
    BY <1>1, <1>7, <2>5, LoopedStill DEF Fail
  <2> QED
    BY <1>2, <1>7, <2>6 DEF MeasureInv, Fail
<1>8. CASE open = {} /\ stack' = Past /\ UNCHANGED <<input, stage, why, visited>>
  <2>1. \A e \in Looked(t, at) : visited[e] = 2
    <3> SUFFICES ASSUME NEW e \in Looked(t, at) PROVE visited[e] = 2
      OBVIOUS
    <3>1. e \notin open /\ visited[e] \in 0 .. 2
      BY <1>4, <1>5, <1>8
    <3>2. ~(visited[e] < 2)
      BY <1>4, <3>1
    <3> QED
      BY <3>1, <3>2
  <2>2. Tracing'
    BY <1>1, <1>8, <2>1, TracingPast
  <2> QED
    BY <1>1, <1>2, <1>8, <2>2 DEF MeasureInv
<1>9. CASE /\ Error(ref, t) = "" /\ UNCHANGED <<input, stage, why>>
           /\ \E d \in open : visited[d] = 0 /\ stack' = Append(Past, [def |-> d, at |-> 1]) /\ Enter(d)
  <2>1. PICK d \in open : visited[d] = 0 /\ stack' = Append(Past, [def |-> d, at |-> 1]) /\ Enter(d)
    BY <1>9
  <2>2. d \in Looked(t, at) /\ d \in Definitions
    BY <1>4, <2>1
  <2>3. \A e \in Looked(t, at) : e = d
    <3>1. \A e, f \in Looked(t, at) : e = f
      BY <1>9, OneTarget
    <3> QED
      BY <2>2, <3>1
  <2>4. Tracing'
    BY <1>1, <1>9, <2>1, <2>2, <2>3, TracingEnters DEF Enter
  <2> QED
    BY <1>1, <1>2, <1>9, <2>4 DEF MeasureInv
<1> QED
  BY <1>6, <1>7, <1>8, <1>9 DEF Visit, Past

LEMMA ReturnSteps ==
  ASSUME MeasureInv, Return, [Next]_vars
  PROVE  MeasureInv'
<1>1. /\ Bound /\ Tracing /\ stage = "visit" /\ why # "circular" /\ input' = input /\ why' = why
      /\ Top.at > Len(Followed(Top.def)) /\ measures' = measures
  BY DEF MeasureInv, Return, At
<1>2. Bound'
  BY <1>1, BoundStill
<1>3. CASE Len(stack) = 1
  <2>1. stage' = "shape" /\ visited' = visited /\ stack' = stack
    BY <1>3 DEF Return, At
  <2>2. Top.def = Root /\ Root \in Nodes
    BY <1>1, <1>3 DEF Tracing, Chain, Top, Nodes
  <2>3. \A e \in Depends(Root) : visited[e] = 2 /\ e \in Definitions
    <3>1. /\ Top.at \in 1 .. Len(Followed(Root)) + 1 /\ Top.at \in Nat
          /\ \A j \in 1 .. Top.at - 1 : \A e \in Looked(Root, j) : visited[e] = 2
      BY <1>1, <2>2, TopAt
    <3>2. Len(Followed(Root)) \in Nat
      BY <1>1, <2>2, FollowedTyped DEF Bound
    <3>3. Top.at - 1 = Len(Followed(Root))
      BY <1>1, <2>2, <3>1, <3>2
    <3>4. Depends(Root) = UNION {Looked(Root, j) : j \in 1 .. Len(Followed(Root))}
      BY <1>1, <2>2, LookedDefined
    <3>5. Depends(Root) \subseteq Definitions
      BY <1>1, <2>2, DependsDefined
    <3> QED
      BY <3>1, <3>3, <3>4, <3>5
  <2>4. Resolved
    BY <1>1, <2>3 DEF Resolved, Tracing
  <2>5. Resolved'
    BY <1>1, <2>1, <2>4, ResolvedStill
  <2> QED
    BY <1>1, <1>2, <2>1, <2>5 DEF MeasureInv
<1>4. CASE Len(stack) # 1
  <2>1. /\ stage' = "visit" /\ stack' = SubSeq(stack, 1, Len(stack) - 1)
        /\ visited' = [visited EXCEPT ![Top.def] = 2]
    BY <1>1, <1>4 DEF Return
  <2>2. Tracing'
    BY <1>1, <1>4, <2>1, TracingReturns
  <2> QED
    BY <1>1, <1>2, <2>1, <2>2 DEF MeasureInv
<1> QED
  BY <1>3, <1>4

\* The emitter, which expands measures without a limit, gets a query only if none of the
\* measures it reaches depends on itself; a query is refused as circular only if one does
\* (semantic/resolver.go): for every schema, every query and every order of definitions.
THEOREM MeasuresResolved == Spec => []ResolvedAcyclic
<1>1. Init => MeasureInv
  <2> SUFFICES ASSUME Init PROVE MeasureInv
    OBVIOUS
  <2>1. stage = "load" /\ why = ""
    BY DEF Init
  <2>2. measures = <<>>
    BY DEF Init
  <2>3. Bound
    <3>1. DOMAIN measures = {}
      BY <2>2
    <3> QED
      BY <3>1, GivenInitially DEF Bound
  <2> QED
    BY <2>1, <2>2, <2>3 DEF MeasureInv
<1>2. MeasureInv /\ [Next]_vars => MeasureInv'
  <2> SUFFICES ASSUME MeasureInv, [Next]_vars PROVE MeasureInv'
    OBVIOUS
  <2>1. CASE Load \/ Filter
    <3>1. measures' = measures /\ why # "circular"
      BY <2>1 DEF Load, Filter, MeasureInv
    <3>2. Bound'
      BY <3>1, BoundStill DEF MeasureInv
    <3>3. /\ stage \in {"load", "filters"} /\ stage' \in {"filters", "define", "failed"}
          /\ why' # "circular"
      BY <2>1, <3>1 DEF Load, Filter, At, Fail
    <3> QED
      BY <3>1, <3>2, <3>3 DEF MeasureInv
  <2>2. CASE PreResolve
    <3>1. stage = "define" /\ why # "circular" /\ input' = input /\ Bound
      BY <2>2 DEF PreResolve, MeasureInv, At, Fail
    <3>2. CASE stage' = "failed"
      <4>1. why' # "circular" /\ measures' = measures
        BY <2>2, <3>2 DEF PreResolve, At, Fail
      <4> QED
        BY <3>1, <3>2, <4>1, BoundStill DEF MeasureInv
    <3>3. CASE stage' # "failed"
      <4>1. /\ stage' = "visit" /\ why' = why /\ measures' = Preresolved(Len(query.defines))
            /\ visited' = [d \in Definitions |-> 0] /\ stack' = <<[def |-> <<"roots", 0>>, at |-> 1]>>
        BY <2>2, <3>3 DEF PreResolve, At, Fail
      <4>2. Bound' /\ Tracing'
        BY <3>1, <4>1, TracingBegins
      <4> QED
        BY <3>1, <4>1, <4>2 DEF MeasureInv
    <3> QED
      BY <3>2, <3>3
  <2>3. CASE Visit
    BY <2>3, VisitSteps
  <2>4. CASE Return
    BY <2>4, ReturnSteps
  <2>5. CASE Shape \/ Shaped \/ Join \/ Summarize
    <3>1. /\ stage \in {"shape", "join", "summarize"} /\ stage' \in {"shape", "join", "summarize", "done", "failed"}
          /\ input' = input /\ measures' = measures /\ visited' = visited
      BY <2>5 DEF Shape, Shaped, Join, Summarize, At, Fail
    <3>2. why # "circular" /\ Resolved /\ Bound
      BY <3>1 DEF MeasureInv
    <3>3. why' # "circular"
      BY <2>5, <3>2 DEF Shape, Shaped, Join, Summarize, At, Fail
    <3>4. Resolved' /\ Bound'
      BY <3>1, <3>2, ResolvedStill, BoundStill
    <3> QED
      BY <3>1, <3>3, <3>4 DEF MeasureInv
  <2>6. CASE UNCHANGED vars
    <3>1. /\ input' = input /\ measures' = measures /\ visited' = visited /\ stack' = stack
          /\ stage' = stage /\ why' = why
      BY <2>6 DEF vars
    <3>2. Bound'
      BY <3>1, BoundStill DEF MeasureInv
    <3>3. Tracing => Tracing'
      BY <3>1, TracingStill
    <3>4. Resolved => Resolved'
      BY <3>1, ResolvedStill
    <3>5. Looped => Looped'
      BY <3>1, LoopedStill
    <3> QED
      BY <3>1, <3>2, <3>3, <3>4, <3>5 DEF MeasureInv
  <2> QED
    BY <2>1, <2>2, <2>3, <2>4, <2>5, <2>6 DEF Next
<1> QED
  BY <1>1, <1>2, MeasuresAcyclic, PTL DEF Spec

-----------------------------------------------------------------------------
(* Joins. *)

GraphGiven == input.graph.rels \in Seq(Relationship) /\ query.tables \in Seq(Name)

\* The names that the relationships and the query use, and the tables they stand for.
UsedNames == EndNames(input.graph.rels) \cup {query.tables[i] : i \in DOMAIN query.tables}
AllNames == UsedNames \cup {Canonical(n) : n \in UsedNames}

\* No name matches two tables (the code lets a bare name match every table of that
\* name, join.go:222), and the relationships have one name for each table.
NamesToldApart ==
  /\ \A m, n \in AllNames : tableNamesMatch(m, n) => Canonical(m) = Canonical(n)
  /\ NamedAlike(input.graph)

\* The graph is validated on the way in, the joins are inferred once.
JoinInv ==
  /\ GraphGiven
  /\ stage \notin {"load", "failed"} => ValidateFilterPaths(input.graph.rels)
  /\ stage \in {"load", "filters", "define", "visit", "shape", "join"} => path = Found(<<>>)
  /\ stage \in {"summarize", "done"} => path = InferJoinPath(input.graph, query.tables) /\ path.ok
  /\ stage = "failed" => path = Found(<<>>) \/ path = InferJoinPath(input.graph, query.tables)

\* The names that are used are those of a graph in which they can be told apart.
LEMMA NamesAreClear ==
  ASSUME GraphGiven, NamesToldApart
  PROVE  NamesClear(input.graph, AllNames) /\ query.tables \in Seq(AllNames)
<1> DEFINE rels == input.graph.rels
           Rel == [from : AllNames, to : AllNames, bidi : BOOLEAN]
<1>1. rels \in Seq(Relationship) /\ query.tables \in Seq(Name)
  BY DEF GraphGiven
<1>2. \A j \in DOMAIN rels : rels[j] \in Relationship
  BY <1>1
<1>3. EndNames(rels) \subseteq AllNames /\ \A i \in DOMAIN query.tables : query.tables[i] \in AllNames
  BY DEF AllNames, UsedNames
<1>4. \A j \in DOMAIN rels : rels[j].from \in AllNames /\ rels[j].to \in AllNames
  BY <1>3 DEF EndNames
<1>5. rels \in Seq(Rel)
  <2>1. \A j \in DOMAIN rels : rels[j] \in Rel
    BY <1>2, <1>4 DEF Relationship
  <2> HIDE DEF Rel
  <2> QED
    BY <1>1, <2>1
<1>6. query.tables \in Seq(AllNames)
  BY <1>1, <1>3
<1>7. ASSUME NEW n \in AllNames PROVE Canonical(n) \in AllNames
  <2>1. CASE n \in UsedNames
    BY <2>1 DEF AllNames
  <2>2. CASE n \notin UsedNames
    <3>1. PICK m \in UsedNames : n = Canonical(m)
      BY <2>2 DEF AllNames
    <3>2. Canonical(n) = n
      BY <3>1, CanonicalMatches DEF CanonicalOf, Canonical
    <3> QED
      BY <3>2
  <2> QED
    BY <2>1, <2>2
<1>8. \A n \in AllNames : CanonicalOf(input.graph, n) \in AllNames
  BY <1>7 DEF CanonicalOf, Canonical
<1>9. \A m, n \in AllNames : tableNamesMatch(m, n) => CanonicalOf(input.graph, m) = CanonicalOf(input.graph, n)
  BY DEF NamesToldApart, CanonicalOf, Canonical
<1> QED
  BY <1>5, <1>6, <1>8, <1>9 DEF NamesClear

LEMMA BridgesStandAlone ==
  ASSUME JoinInv, NamesToldApart, stage \notin {"load", "failed"}
  PROVE  BridgesAlone
<1> SUFFICES ASSUME NEW i \in DOMAIN input.graph.rels, input.graph.rels[i].bidi
             PROVE  Routes(input.graph, input.graph.rels[i].from, input.graph.rels[i].to, DOMAIN input.graph.rels \ {i}) = {}
  BY DEF BridgesAlone
<1>1. NamesClear(input.graph, AllNames)
  BY NamesAreClear DEF JoinInv
<1>2. NamedAlike(input.graph) /\ ValidateFilterPaths(input.graph.rels)
  BY DEF JoinInv, NamesToldApart
<1> QED
  BY <1>1, <1>2, AloneIfValid

LEMMA TreeOfJoins ==
  ASSUME JoinInv, NamesToldApart, stage = "done", query.tables # <<>>
  PROVE  JoinsAreTree
<1> DEFINE G == input.graph
           tables == query.tables
           primary == CanonicalOf(G, tables[1])
<1>1. NamesClear(G, AllNames) /\ tables \in Seq(AllNames)
  BY NamesAreClear DEF JoinInv
<1>2. path = InferJoinPath(G, tables) /\ path.ok
  BY DEF JoinInv
<1>3. Len(tables) >= 1
  BY <1>1
<1>4. /\ IsTree(G, AllNames, primary, path.steps)
      /\ \A i \in DOMAIN tables : CanonicalOf(G, tables[i]) \in InTree(primary, path.steps)
  BY <1>1, <1>2, <1>3, InferredTree
<1>5. InTree(primary, path.steps) = TreeBefore(primary, path.steps, Len(path.steps) + 1)
  BY <1>4, TreeEnds
<1>6. /\ \A k \in DOMAIN path.steps :
           /\ path.steps[k].from \in TreeBefore(primary, path.steps, k)
           /\ path.steps[k].table \notin TreeBefore(primary, path.steps, k)
           /\ Link(G, path.steps[k].rel) = {path.steps[k].from, path.steps[k].table}
      /\ \A i \in DOMAIN tables : CanonicalOf(G, tables[i]) \in TreeBefore(primary, path.steps, Len(path.steps) + 1)
  BY <1>4, <1>5 DEF IsTree
<1> QED
  BY <1>6 DEF JoinsAreTree, TreeBefore, CanonicalOf, Canonical

LEMMA ShortestJoins ==
  ASSUME JoinInv, NamesToldApart, stage \in {"done", "failed"}, Len(query.tables) = 2, ~Unclear
  PROVE  JoinsAreShortest
<1> DEFINE G == input.graph
           tables == query.tables
           all == Routes(G, tables[1], tables[2], DOMAIN G.rels)
<1>1. NamesClear(G, AllNames) /\ tables \in Seq(AllNames)
  BY NamesAreClear DEF JoinInv
<1>2. ~\E i \in DOMAIN tables : AmbiguousName(G.tables, tables[i])
  BY DEF Unclear
<1>3. CASE path = InferJoinPath(G, tables)
  <2>1. /\ path.ok => \E route \in all : Shortest(all) = {route}
        /\ path.why = "no path" => all = {}
        /\ path.why = "ambiguous path" => Several(Shortest(all))
    BY <1>1, <1>2, <1>3, InferredShortest
  <2>2. stage = "done" => path.ok
    BY DEF JoinInv
  <2> QED
    BY <2>1, <2>2 DEF JoinsAreShortest
<1>4. CASE path = Found(<<>>) /\ stage = "failed"
  <2>1. path.why = ""
    BY <1>4, Answers
  <2>2. path.why # "no path" /\ path.why # "ambiguous path" /\ stage # "done"
    BY <1>4, <2>1
  <2> QED
    BY <2>2 DEF JoinsAreShortest
<1> QED
  BY <1>3, <1>4 DEF JoinInv

LEMMA SoundJoins == JoinInv => (NamesToldApart => JoinsSound)
<1> SUFFICES ASSUME JoinInv, NamesToldApart PROVE JoinsSound
  OBVIOUS
<1>1. stage \in {"filters", "join", "summarize", "done"} => BridgesAlone
  BY BridgesStandAlone
<1>2. stage = "done" /\ query.tables # <<>> => JoinsAreTree
  BY TreeOfJoins
<1>3. stage \in {"done", "failed"} /\ Len(query.tables) = 2 /\ ~Unclear => JoinsAreShortest
  BY ShortestJoins
<1> QED
  BY <1>1, <1>2, <1>3 DEF JoinsSound

\* An accepted graph has no second way around a bidirectional relationship; the joins of
\* a query are a tree of relationships with every table of it, and two tables are joined
\* just if there is one shortest way between them (semantic/join.go): for every graph
\* and query whose names are those of one table each.
THEOREM JoinsCorrect == Spec => [](NamesToldApart => JoinsSound)
<1>1. Init => JoinInv
  <2> SUFFICES ASSUME Init PROVE JoinInv
    OBVIOUS
  <2>1. PICK some \in Inputs : input \in some
    BY DEF Init
  <2>2. GraphGiven
    BY <2>1, InputsAssumption DEF GraphGiven, query
  <2>3. stage = "load" /\ path = Found(<<>>)
    BY DEF Init
  <2> QED
    BY <2>2, <2>3 DEF JoinInv
<1>2. JoinInv /\ [Next]_vars => JoinInv'
  <2> SUFFICES ASSUME JoinInv, [Next]_vars PROVE JoinInv'
    OBVIOUS
  <2>1. input' = input
    BY DEF Next, Load, Filter, PreResolve, Visit, Return, Shape, Shaped, Join, Summarize, At, Fail, vars
  <2>2. GraphGiven' /\ query' = query
    BY <2>1 DEF JoinInv, GraphGiven, query
  <2>3. CASE Load
    <3>1. stage = "load" /\ path' = path
      BY <2>3 DEF Load
    <3>2. stage' = "failed" \/ (stage' = "filters" /\ ValidateFilterPaths(input.graph.rels))
      BY <2>3 DEF Load, At, Fail
    <3> QED
      BY <2>1, <2>2, <3>1, <3>2 DEF JoinInv
  <2>4. CASE Filter \/ PreResolve \/ Visit \/ Return \/ Shape \/ Shaped
    <3>1. path' = path
      BY <2>4 DEF Filter, PreResolve, Visit, Return, Shape, Shaped
    <3>2. stage \in {"filters", "define", "visit", "shape"}
      BY <2>4 DEF Filter, PreResolve, Visit, Return, Shape, Shaped
    <3>3. stage' \in {"filters", "define", "visit", "shape", "join", "failed"}
      BY <2>4 DEF Filter, PreResolve, Visit, Return, Shape, Shaped, At, Fail
    <3> QED
      BY <2>1, <2>2, <3>1, <3>2, <3>3 DEF JoinInv
  <2>5. CASE Join
    <3>1. stage = "join" /\ path' = InferJoinPath(input.graph, query.tables)
      BY <2>5 DEF Join
    <3>2. stage' = "failed" \/ (stage' \in {"summarize", "done"} /\ path'.ok)
      BY <2>5 DEF Join, At, Fail
    <3> QED
      BY <2>1, <2>2, <3>1, <3>2 DEF JoinInv
  <2>6. CASE Summarize
    <3>1. stage = "summarize" /\ path' = path /\ stage' \in {"done", "failed"}
      BY <2>6 DEF Summarize, At, Fail
    <3> QED
      BY <2>1, <2>2, <3>1 DEF JoinInv
  <2>7. CASE UNCHANGED vars
    <3>1. stage' = stage /\ path' = path
      BY <2>7 DEF vars
    <3> QED
      BY <2>1, <2>2, <3>1 DEF JoinInv
  <2> QED
    BY <2>3, <2>4, <2>5, <2>6, <2>7 DEF Next
<1> QED
  BY <1>1, <1>2, SoundJoins, PTL DEF Spec
=============================================================================
