------------------------ MODULE StaticPipelineProofs ------------------------
(***************************************************************************)
(* Proofs about the static pipeline, for any source, any number of tools   *)
(* and any MAX_HOPS: the search of the callers finds the tools that calls  *)
(* lead back to, and no others; the facts, the profiles and the end of the *)
(* run follow.                                                             *)
(***************************************************************************)
EXTENDS StaticPipeline, WellFoundedInduction, FiniteSetTheorems, TLAPS

(* Induction over the hops of a search, as the least counterexample.       *)
LEMMA Least ==
  ASSUME NEW S \in SUBSET Nat, S # {}
  PROVE  \E x \in S : \A y \in S : x <= y
<1>1. \A x, y \in Nat : y < x => <<y, x>> \in OpToRel(<, Nat)
  BY DEF OpToRel
<1>2. PICK x \in S : \A y \in S : <<y, x>> \notin OpToRel(<, Nat)
  BY NatLessThanWellFounded, WFMin
<1>3. ASSUME NEW y \in S PROVE x <= y
  <2>1. x \in Nat /\ y \in Nat
    OBVIOUS
  <2>2. ~ (y < x)
    BY <1>1, <1>2, <2>1
  <2> QED  BY <2>1, <2>2
<1> QED  BY <1>3

-----------------------------------------------------------------------------
(* The search of the callers                                               *)

(* What a hop finds, from the hops before it.                              *)
Layer(hop, n, start, calls, m) ==
  IF n = 0 THEN {start}
  ELSE (UNION {Callers(calls, f) : f \in {g \in hop[n - 1] : n = 1 \/ m[g] = None}})
       \ (UNION {hop[k] : k \in 0 .. n - 1})

LEMMA LayerLocal ==
  ASSUME NEW start, NEW calls, NEW m, NEW n \in Nat, NEW f, NEW g,
         \A k \in 0 .. n - 1 : f[k] = g[k]
  PROVE  Layer(f, n, start, calls, m) = Layer(g, n, start, calls, m)
<1>1. CASE n = 0
  BY <1>1 DEF Layer
<1>2. CASE n # 0
  <2>1. f[n - 1] = g[n - 1]
    BY <1>2
  <2>2. UNION {f[k] : k \in 0 .. n - 1} = UNION {g[k] : k \in 0 .. n - 1}
    OBVIOUS
  <2> QED  BY <2>1, <2>2 DEF Layer
<1> QED  BY <1>1, <1>2

(* The recursion of Hops defines a function.                               *)
LEMMA HopsEquation ==
  ASSUME NEW start, NEW calls, NEW m
  PROVE  Hops(start, calls, m) =
           [n \in 0 .. MaxHops |-> Layer(Hops(start, calls, m), n, start, calls, m)]
<1> DEFINE L(f, n) == Layer(f, n, start, calls, m)
           Upto(f, n) == \A j \in 0 .. n : f[j] = L(f, j)
           Bad == {n \in 0 .. MaxHops : ~ \E f : Upto(f, n)}
<1>0. MaxHops \in Nat
  BY AttributionAssumption
<1>1. Bad = {}
  <2> SUFFICES ASSUME Bad # {} PROVE FALSE
    OBVIOUS
  <2>1. PICK n \in Bad : \A k \in Bad : n <= k
    <3>1. Bad \in SUBSET Nat
      BY <1>0
    <3> HIDE DEF Bad
    <3> QED  BY <3>1, Least
  <2>2. n \in Nat /\ n <= MaxHops
    BY <1>0
  <2>3. CASE n = 0
    <3> DEFINE f == [j \in 0 .. 0 |-> {start}]
    <3>1. \A j \in 0 .. 0 : f[j] = L(f, j)
      BY DEF Layer
    <3> QED  BY <2>3, <3>1
  <2>4. CASE n # 0
    <3>1. n - 1 \in 0 .. MaxHops /\ n - 1 \notin Bad
      BY <1>0, <2>1, <2>2, <2>4
    <3>2. PICK g : Upto(g, n - 1)
      BY <3>1
    <3> DEFINE f == [j \in 0 .. n |-> IF j = n THEN L(g, n) ELSE g[j]]
    <3> HIDE DEF L
    <3>3. ASSUME NEW j \in 0 .. n PROVE f[j] = L(f, j)
      <4>1. \A k \in 0 .. j - 1 : f[k] = g[k]
        BY <2>2
      <4>2. L(f, j) = L(g, j)
        <5> HIDE DEF f
        <5>1. j \in Nat
          BY <2>2
        <5> QED  BY <4>1, <5>1, LayerLocal DEF L
      <4>3. j = n \/ j \in 0 .. n - 1
        BY <2>2
      <4> QED  BY <3>2, <4>2, <4>3
    <3> HIDE DEF f
    <3>4. Upto(f, n)
      BY <3>3
    <3> QED  BY <3>4
  <2> QED  BY <2>3, <2>4
<1>2. PICK g : Upto(g, MaxHops)
  BY <1>0, <1>1
<1> DEFINE total == [n \in 0 .. MaxHops |-> g[n]]
<1> HIDE DEF L
<1>3. total = [n \in 0 .. MaxHops |-> L(total, n)]
  <2>1. ASSUME NEW n \in 0 .. MaxHops PROVE g[n] = L(total, n)
    <3>1. \A k \in 0 .. n - 1 : total[k] = g[k]
      BY <1>0
    <3>2. L(total, n) = L(g, n)
      <4> HIDE DEF total
      <4>1. n \in Nat
        BY <1>0
      <4> QED  BY <3>1, <4>1, LayerLocal DEF L
    <3> QED  BY <1>2, <3>2
  <2> QED  BY <2>1
<1> HIDE DEF total
<1>4. Hops(start, calls, m) = CHOOSE f : f = [n \in 0 .. MaxHops |-> L(f, n)]
  BY DEF Hops, L, Layer
<1> QED  BY <1>3, <1>4, Zenon DEF L

(* A function found at hop n is a caller of one that is searched from, and *)
(* new; and any caller of one that is searched from is found by then.      *)
LEMMA HopMembers ==
  ASSUME NEW start, NEW calls, NEW m
  PROVE  LET hop == Hops(start, calls, m) IN
         /\ \A f : f \in hop[0] <=> f = start
         /\ \A n \in 1 .. MaxHops : \A f :
              f \in hop[n] <=>
                /\ \E g \in hop[n - 1] : (n = 1 \/ m[g] = None) /\ f \in Callers(calls, g)
                /\ \A k \in 0 .. n - 1 : f \notin hop[k]
<1> DEFINE hop == Hops(start, calls, m)
<1>1. \A n \in 0 .. MaxHops : hop[n] = Layer(hop, n, start, calls, m)
  <2> DEFINE F == [n \in 0 .. MaxHops |-> Layer(hop, n, start, calls, m)]
  <2>1. hop = F
    BY HopsEquation
  <2>2. \A n \in 0 .. MaxHops : F[n] = Layer(hop, n, start, calls, m)
    OBVIOUS
  <2> HIDE DEF hop, F
  <2> QED  BY <2>1, <2>2
<1> HIDE DEF hop
<1>2. 0 \in 0 .. MaxHops /\ \A n \in 1 .. MaxHops : n \in 0 .. MaxHops /\ n # 0
  BY AttributionAssumption
<1>3. hop[0] = {start}
  BY <1>1, <1>2 DEF Layer
<1>4. ASSUME NEW n \in 1 .. MaxHops
      PROVE  \A f : f \in hop[n] <=>
               /\ \E g \in hop[n - 1] : (n = 1 \/ m[g] = None) /\ f \in Callers(calls, g)
               /\ \A k \in 0 .. n - 1 : f \notin hop[k]
  <2> DEFINE from == {g \in hop[n - 1] : n = 1 \/ m[g] = None}
  <2>1. hop[n] = (UNION {Callers(calls, f) : f \in from}) \ (UNION {hop[k] : k \in 0 .. n - 1})
    BY <1>1, <1>2 DEF Layer
  <2>2. \A f : f \in UNION {Callers(calls, g) : g \in from} <=> \E g \in from : f \in Callers(calls, g)
    OBVIOUS
  <2>3. \A f : f \in UNION {hop[k] : k \in 0 .. n - 1} <=> \E k \in 0 .. n - 1 : f \in hop[k]
    OBVIOUS
  <2> QED  BY <2>1, <2>2, <2>3
<1> QED  BY <1>3, <1>4 DEF hop

(* A path that the search follows back from the sink.                      *)
Chain(p, k, site, calls, m) ==
  /\ p \in [0 .. k -> Fns] /\ p[0] = site
  /\ \A i \in 0 .. k - 1 : p[i + 1] \in Callers(calls, p[i])
  /\ \A i \in 1 .. k - 1 : m[p[i]] = None

(* Whatever is found at hop n is at the end of a path of n calls.          *)
LEMMA FoundByPath ==
  ASSUME NEW site \in Fns, NEW calls, NEW m, NEW n \in 0 .. MaxHops,
         NEW f \in Hops(site, calls, m)[n]
  PROVE  \E p : Chain(p, n, site, calls, m) /\ p[n] = f
<1> DEFINE hop == Hops(site, calls, m)
           Path(k, x) == \E p : Chain(p, k, site, calls, m) /\ p[k] = x
           Bad == {k \in 0 .. MaxHops : ~ \A x \in hop[k] : Path(k, x)}
<1>0. MaxHops \in Nat
  BY AttributionAssumption
<1>h. /\ \A x : x \in hop[0] <=> x = site
      /\ \A k \in 1 .. MaxHops : \A x :
           x \in hop[k] => \E g \in hop[k - 1] : (k = 1 \/ m[g] = None) /\ x \in Callers(calls, g)
  BY HopMembers
<1> HIDE DEF hop
<1>1. Bad = {}
  <2> SUFFICES ASSUME Bad # {} PROVE FALSE
    OBVIOUS
  <2>1. PICK k \in Bad : \A j \in Bad : k <= j
    <3>1. Bad \in SUBSET Nat
      BY <1>0
    <3> HIDE DEF Bad
    <3> QED  BY <3>1, Least
  <2>2. k \in Nat /\ k <= MaxHops
    BY <1>0
  <2>3. PICK x \in hop[k] : ~ Path(k, x)
    BY <2>1
  <2>4. CASE k = 0
    <3> DEFINE p == [i \in 0 .. 0 |-> site]
    <3>1. Chain(p, 0, site, calls, m) /\ p[0] = site
      BY DEF Chain
    <3> HIDE DEF p
    <3> QED  BY <1>h, <2>3, <2>4, <3>1
  <2>5. CASE k # 0
    <3>1. k \in 1 .. MaxHops /\ k - 1 \in 0 .. MaxHops /\ k - 1 \notin Bad
      BY <1>0, <2>1, <2>2, <2>5
    <3>2. PICK g \in hop[k - 1] : (k = 1 \/ m[g] = None) /\ x \in Callers(calls, g)
      BY <1>h, <2>3, <3>1
    <3>3. PICK q : Chain(q, k - 1, site, calls, m) /\ q[k - 1] = g
      BY <3>1, <3>2
    <3> DEFINE p == [i \in 0 .. k |-> IF i = k THEN x ELSE q[i]]
    <3>4. x \in Fns
      BY <3>2 DEF Callers
    <3>5. p \in [0 .. k -> Fns] /\ p[0] = site /\ p[k] = x
      <4>1. \A i \in 0 .. k : i = k \/ i \in 0 .. k - 1
        BY <2>2
      <4>2. 0 # k /\ 0 \in 0 .. k
        BY <2>2, <2>5
      <4> QED  BY <2>2, <3>3, <3>4, <4>1, <4>2 DEF Chain
    <3>6. ASSUME NEW i \in 0 .. k - 1 PROVE p[i + 1] \in Callers(calls, p[i])
      <4>1. p[i] = q[i]
        BY <2>2
      <4>2. CASE i = k - 1
        <5>1. p[i + 1] = x /\ q[i] = g
          BY <2>2, <3>3, <4>2
        <5> QED  BY <3>2, <4>1, <5>1
      <4>3. CASE i # k - 1
        <5>1. i \in 0 .. k - 1 - 1 /\ p[i + 1] = q[i + 1]
          BY <2>2, <4>3
        <5> QED  BY <3>3, <4>1, <5>1 DEF Chain
      <4> QED  BY <4>2, <4>3
    <3>7. ASSUME NEW i \in 1 .. k - 1 PROVE m[p[i]] = None
      <4>1. p[i] = q[i]
        BY <2>2
      <4>2. CASE i = k - 1
        BY <2>2, <3>2, <3>3, <4>1, <4>2
      <4>3. CASE i # k - 1
        <5>1. i \in 1 .. k - 1 - 1
          BY <2>2, <4>3
        <5> QED  BY <3>3, <4>1, <5>1 DEF Chain
      <4> QED  BY <4>2, <4>3
    <3> HIDE DEF p
    <3>8. Chain(p, k, site, calls, m)
      BY <3>5, <3>6, <3>7 DEF Chain
    <3> QED  BY <2>3, <3>5, <3>8
  <2> QED  BY <2>4, <2>5
<1> QED  BY <1>1 DEF hop

(* And whatever is at the end of such a path is found, at the latest at    *)
(* the hop of its length.                                                  *)
LEMMA PathIsFound ==
  ASSUME NEW site \in Fns, NEW calls, NEW m, NEW k \in 0 .. MaxHops, NEW p,
         Chain(p, k, site, calls, m)
  PROVE  \E j \in 0 .. k : p[k] \in Hops(site, calls, m)[j]
<1> DEFINE hop == Hops(site, calls, m)
           Met(i) == \E j \in 0 .. i : p[i] \in hop[j]
           Bad == {i \in 0 .. k : ~ Met(i)}
<1>0. MaxHops \in Nat /\ k \in Nat /\ k <= MaxHops
  BY AttributionAssumption
<1>h. /\ \A x : x \in hop[0] <=> x = site
      /\ \A n \in 1 .. MaxHops : \A x :
           x \in hop[n] <=>
             /\ \E g \in hop[n - 1] : (n = 1 \/ m[g] = None) /\ x \in Callers(calls, g)
             /\ \A l \in 0 .. n - 1 : x \notin hop[l]
  BY HopMembers
<1> HIDE DEF hop
<1>1. Bad = {}
  <2> SUFFICES ASSUME Bad # {} PROVE FALSE
    OBVIOUS
  <2>1. PICK i \in Bad : \A j \in Bad : i <= j
    <3>1. Bad \in SUBSET Nat
      BY <1>0
    <3> HIDE DEF Bad
    <3> QED  BY <3>1, Least
  <2>2. i \in Nat /\ i <= k /\ ~ Met(i)
    BY <1>0, <2>1
  <2>3. i # 0
    <3>1. p[0] \in hop[0]
      BY <1>h DEF Chain
    <3>2. 0 \in 0 .. 0
      OBVIOUS
    <3> QED  BY <2>2, <3>1, <3>2
  <2>4. /\ i - 1 \in 0 .. k /\ i - 1 \notin Bad /\ i - 1 \in 0 .. k - 1 /\ i - 1 + 1 = i
    BY <1>0, <2>1, <2>2, <2>3
  <2>5. PICK j \in 0 .. i - 1 : /\ p[i - 1] \in hop[j]
                                /\ j + 1 = 1 \/ m[p[i - 1]] = None
    <3>1. CASE i = 1
      <4>1. p[0] \in hop[0] /\ 0 \in 0 .. i - 1 /\ i - 1 = 0
        BY <1>h, <3>1 DEF Chain
      <4> QED  BY <4>1
    <3>2. CASE i # 1
      <4>1. PICK j \in 0 .. i - 1 : p[i - 1] \in hop[j]
        BY <2>4
      <4>2. i - 1 \in 1 .. k - 1
        BY <1>0, <2>2, <2>3, <3>2
      <4>3. m[p[i - 1]] = None
        BY <4>2 DEF Chain
      <4> QED  BY <4>1, <4>3
    <3> QED  BY <3>1, <3>2
  <2>6. p[i] \in Callers(calls, p[i - 1])
    BY <2>4 DEF Chain
  <2> DEFINE n == j + 1
  <2>7. n \in 1 .. MaxHops /\ n - 1 = j /\ n \in 0 .. i /\ 0 .. n - 1 \subseteq 0 .. i
    BY <1>0, <2>2
  <2>8. n = 1 \/ m[p[i - 1]] = None
    BY <2>5
  <2> HIDE DEF n
  <2>9. p[i] \in hop[n] \/ \E l \in 0 .. n - 1 : p[i] \in hop[l]
    <3>1. \E g \in hop[n - 1] : (n = 1 \/ m[g] = None) /\ p[i] \in Callers(calls, g)
      BY <2>5, <2>6, <2>7, <2>8
    <3> QED  BY <1>h, <2>7, <3>1
  <2> QED  BY <2>2, <2>7, <2>9
<1>2. k \in 0 .. k
  BY <1>0
<1> QED  BY <1>1, <1>2 DEF hop

(* The listing has a first and a last tool of any it has some of.          *)
LEMMA FirstLast ==
  ASSUME NEW S \in SUBSET Tools
  PROVE  /\ First(S) \in S \union {None} /\ Last(S) \in S \union {None}
         /\ S # {} => First(S) \in S /\ Last(S) \in S
<1> DEFINE n == Cardinality(Tools)
<1>1. n \in Nat
  BY FS_CardinalityType, AttributionAssumption
<1> HIDE DEF n
<1>2. \A t \in S : Rank[t] \in 1 .. n
  BY AttributionAssumption DEF n
<1>3. CASE S = {}
  BY <1>3 DEF First, Last
<1>4. CASE S # {}
  <2>1. \E t \in S : \A u \in S : Rank[t] <= Rank[u]
    <3> DEFINE R == {Rank[t] : t \in S}
    <3>1. R \in SUBSET Nat /\ R # {}
      BY <1>1, <1>2, <1>4
    <3>2. PICK x \in R : \A y \in R : x <= y
      <4> HIDE DEF R
      <4> QED  BY <3>1, Least
    <3> QED  BY <3>2
  <2>2. \E t \in S : \A u \in S : Rank[u] <= Rank[t]
    <3> DEFINE R == {n - Rank[t] : t \in S}
    <3>1. R \in SUBSET Nat /\ R # {}
      BY <1>1, <1>2, <1>4
    <3>2. PICK x \in R : \A y \in R : x <= y
      <4> HIDE DEF R
      <4> QED  BY <3>1, Least
    <3>3. PICK t \in S : x = n - Rank[t]
      BY <3>2
    <3>4. ASSUME NEW u \in S PROVE Rank[u] <= Rank[t]
      <4>1. n - Rank[t] <= n - Rank[u]
        BY <3>2, <3>3
      <4>2. Rank[t] \in Int /\ Rank[u] \in Int
        BY <1>2
      <4> QED  BY <1>1, <4>1, <4>2
    <3> QED  BY <3>4
  <2>3. First(S) \in S
    BY <1>4, <2>1 DEF First
  <2>4. Last(S) \in S
    BY <1>4, <2>2 DEF Last
  <2> QED  BY <2>3, <2>4
<1> QED  BY <1>3, <1>4

LEMMA MatchType ==
  ASSUME NEW h
  PROVE  Match(h) \in [Fns -> Tools \union {None}]
<1>1. \A p : InFile(h, p) \in SUBSET Tools /\ Named(h, p) \in SUBSET Tools
  BY DEF InFile, Named
<1>2. \A p : Last(InFile(h, p)) \in Tools \union {None} /\ First(Named(h, p)) \in Tools \union {None}
  BY <1>1, FirstLast
<1> QED  BY <1>2 DEF Match

(* reverse_paths finds the tools from whose functions a path of at most    *)
(* MAX_HOPS calls leads to the sink with no other tool's function in       *)
(* between, and no tool else: neither its visited set, which keeps only    *)
(* the first hop a function is found at, nor its stop at a tool's function *)
(* loses a tool, in any source.                                            *)
THEOREM SearchIsExact ==
  ASSUME NEW site \in Fns, NEW calls, NEW m \in [Fns -> Tools \union {None}]
  PROVE  ReversePaths(site, calls, m) = {t \in Tools : Reaches(t, site, calls, m)}
<1> DEFINE hop == Hops(site, calls, m)
<1>0. MaxHops \in Nat /\ None \notin Tools
  BY AttributionAssumption
<1>1. ASSUME NEW t \in ReversePaths(site, calls, m)
      PROVE  t \in Tools /\ Reaches(t, site, calls, m)
  <2>1. PICK n \in 0 .. MaxHops : \E f \in hop[n] : t = m[f] /\ t # None
    BY <1>1 DEF ReversePaths
  <2>2. PICK f \in hop[n] : t = m[f] /\ t # None
    BY <2>1
  <2>3. PICK p : Chain(p, n, site, calls, m) /\ p[n] = f
    BY <2>2, FoundByPath
  <2>4. n \in 0 .. n /\ f \in Fns
    BY <1>0, <2>3 DEF Chain
  <2>5. Reaches(t, site, calls, m)
    BY <2>2, <2>3 DEF Chain, Reaches
  <2> QED  BY <2>2, <2>4, <2>5
<1>2. ASSUME NEW t \in Tools, Reaches(t, site, calls, m)
      PROVE  t \in ReversePaths(site, calls, m)
  <2>1. PICK k \in 0 .. MaxHops : \E p : Chain(p, k, site, calls, m) /\ m[p[k]] = t
    BY <1>2 DEF Reaches, Chain
  <2>2. PICK p : Chain(p, k, site, calls, m) /\ m[p[k]] = t
    BY <2>1
  <2>3. PICK j \in 0 .. k : p[k] \in hop[j]
    BY <2>2, PathIsFound
  <2>4. j \in 0 .. MaxHops /\ t # None
    BY <1>0
  <2> HIDE DEF hop
  <2>5. p[k] \in UNION {hop[n] : n \in 0 .. MaxHops}
    BY <2>3, <2>4
  <2> QED  BY <2>2, <2>4, <2>5 DEF ReversePaths, hop
<1>3. ReversePaths(site, calls, m) \subseteq {t \in Tools : Reaches(t, site, calls, m)}
  BY <1>1
<1>4. {t \in Tools : Reaches(t, site, calls, m)} \subseteq ReversePaths(site, calls, m)
  BY <1>2
<1> QED  BY <1>3, <1>4

LEMMA SearchesFacts ==
  ASSUME NEW s \in Searches
  PROVE  s.site \in Fns /\ s.hits = s.reaching /\ s.reaching \subseteq Tools
<1>1. PICK h \in Handlers, calls \in Graphs, site \in Fns :
        s = [handler |-> h, site |-> site, hits |-> ReversePaths(site, calls, Match(h)),
             reaching |-> {t \in Tools : Reaches(t, site, calls, Match(h))}]
  BY DEF Searches
<1>2. ReversePaths(site, calls, Match(h)) = {t \in Tools : Reaches(t, site, calls, Match(h))}
  BY MatchType, SearchIsExact
<1> QED  BY <1>1, <1>2

LEMMA DirectType ==
  ASSUME NEW site, NEW from, NEW h, NEW l
  PROVE  Direct(site, from, h, l) \subseteq Tools
<1>1. \A p : /\ InFile(h, p) \in SUBSET Tools /\ Named(h, p) \in SUBSET Tools
             /\ ToolsAt(h, p) \in SUBSET Tools
  BY DEF InFile, Named, ToolsAt
<1>2. Tainting(h, from, l) \in Tools \union {None}
  <2>1. /\ Last(InFile(h, from)) \in Tools \union {None}
        /\ First(ToolsAt(h, from)) \in Tools \union {None}
        /\ First(Named(h, from)) \in Tools \union {None}
    BY <1>1, FirstLast
  <2> QED  BY <2>1 DEF Tainting
<1> QED  BY <1>1, <1>2 DEF Direct

(* Without callers the tools are those of the place, or of the name.       *)
LEMMA NearestType ==
  ASSUME NEW h, NEW p
  PROVE  ToolsAt(h, p) \subseteq Tools /\ Nearest(h, p) \subseteq Tools
<1>1. ToolsAt(h, p) \in SUBSET Tools /\ Named(h, p) \in SUBSET Tools
  BY DEF Named, ToolsAt
<1>2. First(Named(h, p)) \in Tools \union {None}
  BY <1>1, FirstLast
<1> QED  BY <1>1, <1>2 DEF Nearest

-----------------------------------------------------------------------------
(* The inductive invariant                                                 *)

Early == {"launch", "handshake", "terminate", "kill", "tools"}
Late == {"profiles", "write", "done"}

TypeInv ==
  /\ pc \in Early \union Late \union {"lanes", "failed"}
  /\ lane \in [{"A", "B", "C"} -> {"waiting", "running", "done", "raised"}]
  /\ server \in {None, "running", "deaf", "doomed", "gone"}
  /\ categories \in Selected /\ listed \subseteq Tools
  /\ facts \subseteq [tool : Tools \union {None}, site : Fns, confidence : {"proximate", "direct"}]
  /\ \A f \in facts : f.confidence = "direct" => f.tool \in Tools
  /\ inventory \subseteq {"W4", "W10"} \intersect categories

(* Where the server and the lanes can be, at each line of run().           *)
Stages ==
  /\ pc = "launch" => server = None
  /\ server = "running" => pc \in {"handshake", "terminate"}
  /\ server = "deaf" => pc = "kill"
  /\ pc \in Early => \A l \in DOMAIN lane : lane[l] = "waiting"
  /\ pc \in Late => \A l \in DOMAIN lane : lane[l] = "done"
  /\ pc = "failed" => \A l \in DOMAIN lane : lane[l] # "running"
  /\ pc = "done" <=> files # {}

(* The lanes come after discovery, and the search is an exact one.         *)
Searched ==
  /\ pc \in Early => search = NoSearch
  /\ IF search.site \in Fns THEN search.hits = search.reaching ELSE search.reaching = {}
  /\ search.reaching \subseteq Tools

Joins == pc = "profiles" => \E guarded \in {{}, Fns} : findings = Joined(guarded)

IInv == TypeInv /\ Stages /\ Searched /\ Joins /\ Attributed /\ ProfilesTrue

NoSearchFacts ==
  NoSearch.site = None /\ NoSearch.hits = {} /\ NoSearch.reaching = {}

LEMMA NoSearchHas == NoSearchFacts
  BY DEF NoSearch, NoSearchFacts

LEMMA InitIInv == Init => IInv
<1> SUFFICES ASSUME Init PROVE IInv
  OBVIOUS
<1> USE NoSearchHas, AttributionAssumption, StaticPipelineAssumption DEF NoSearchFacts
<1>1. TypeInv
  BY DEF Init, TypeInv, Early, Late
<1>2. Stages
  <2>1. pc = "launch" /\ server = None /\ lane = [l \in {"A", "B", "C"} |-> "waiting"] /\ files = {}
    BY DEF Init
  <2>2. server \notin {"running", "deaf"}
    BY <2>1 DEF None
  <2> HIDE NoSearchHas, AttributionAssumption, StaticPipelineAssumption
  <2> QED  BY <2>1, <2>2 DEF Stages, Early, Late
<1>3. Searched
  BY DEF Init, Searched
<1>4. Attributed /\ ProfilesTrue /\ Joins
  BY DEF Init, Attributed, ProfilesTrue, Joins
<1> QED  BY <1>1, <1>2, <1>3, <1>4 DEF IInv

(* What the scans add to the facts.                                        *)
LEMMA FactTypes ==
  ASSUME NEW site \in Fns, NEW hits \in SUBSET Tools
  PROVE  /\ ProximateFacts(site, hits) \subseteq
              [tool : Tools \union {None}, site : Fns, confidence : {"proximate"}]
         /\ DirectFacts(site, hits) \subseteq [tool : Tools, site : Fns, confidence : {"direct"}]
  BY DEF ProximateFacts, DirectFacts

LEMMA NextTypeInv == IInv /\ [Next]_vars => TypeInv'
<1> SUFFICES ASSUME IInv, [Next]_vars PROVE TypeInv'
  OBVIOUS
<1>0. TypeInv
  BY DEF IInv
<1> USE <1>0 DEF TypeInv, Early, Late, session, discovery, laneA, laneB, report
<1>1. CASE Launch  BY <1>1 DEF Launch
<1>2. CASE Handshake  BY <1>2 DEF Handshake
<1>3. CASE Terminate  BY <1>3 DEF Terminate
<1>4. CASE KillServer  BY <1>4 DEF KillServer
<1>5. CASE Discover
  <2>1. listed' \subseteq Tools
    BY <1>5 DEF Discover, Listed
  <2> QED  BY <1>5, <2>1 DEF Discover
<1>6. CASE Join  BY <1>6 DEF Join
<1>7. CASE Assemble  BY <1>7 DEF Assemble
<1>8. CASE Write  BY <1>8 DEF Write
<1>9. CASE AdvertiseByRules  BY <1>9 DEF AdvertiseByRules, Classified, Running
<1>10. CASE AdvertiseByModel  BY <1>10 DEF AdvertiseByModel, Classified, Running
<1>11. CASE Shadow  BY <1>11 DEF Shadow, Running
<1>12. CASE PatternScan
  <2>1. PICK s \in Searches : search' = s /\ facts' = ProximateFacts(s.site, Proximate(s))
    BY <1>12 DEF PatternScan
  <2>2. s.site \in Fns /\ s.hits \subseteq Tools
    BY <2>1, SearchesFacts
  <2>3. Proximate(s) \subseteq Tools
    BY <2>2, NearestType DEF Proximate
  <2>4. facts' \subseteq [tool : Tools \union {None}, site : Fns, confidence : {"proximate"}]
    BY <2>1, <2>2, <2>3, FactTypes
  <2>5. UNCHANGED <<pc, lane, server, categories, listed, inventory>>
    BY <1>12 DEF PatternScan
  <2> QED  BY <2>4, <2>5
<1>13. CASE NoResults  BY <1>13 DEF NoResults
<1>14. CASE TaintScan
  <2>1. UNCHANGED <<pc, server, categories, listed, search, inventory>>
    BY <1>14 DEF TaintScan
  <2>2. lane' \in [{"A", "B", "C"} -> {"waiting", "running", "done", "raised"}]
    BY <1>14 DEF TaintScan
  <2>3. /\ facts' \subseteq [tool : Tools \union {None}, site : Fns, confidence : {"proximate", "direct"}]
        /\ \A f \in facts' : f.confidence = "direct" => f.tool \in Tools
    <3>1. CASE facts' = {} \/ facts' = facts
      BY <3>1
    <3>2. ASSUME NEW site \in Fns, NEW from \in Sources,
                 facts' = Merge(facts, DirectFacts(site, Direct(site, from, handler, language)))
          PROVE  /\ facts' \subseteq [tool : Tools \union {None}, site : Fns,
                                      confidence : {"proximate", "direct"}]
                 /\ \A f \in facts' : f.confidence = "direct" => f.tool \in Tools
      <4> DEFINE new == DirectFacts(site, Direct(site, from, handler, language))
      <4>1. new \subseteq [tool : Tools, site : Fns, confidence : {"direct"}]
        BY DirectType, FactTypes
      <4>2. \A f \in Merge(facts, new) : f \in facts \/ f \in new
        BY DEF Merge
      <4> HIDE DEF new
      <4>3. \A f \in new : f.tool \in Tools
                           /\ f \in [tool : Tools \union {None}, site : Fns, confidence : {"proximate", "direct"}]
        BY <4>1
      <4> QED  BY <3>2, <4>2, <4>3 DEF new
    <3> QED  BY <1>14, <3>1, <3>2 DEF TaintScan
  <2> QED  BY <2>1, <2>2, <2>3
<1>15. CASE Inventory  BY <1>15 DEF Inventory, Credentials, ScaScan, Running
<1>16. CASE ServerExits  BY <1>16 DEF ServerExits
<1>17. CASE UNCHANGED vars  BY <1>17 DEF vars
<1> QED
  BY <1>1, <1>2, <1>3, <1>4, <1>5, <1>6, <1>7, <1>8, <1>9, <1>10, <1>11, <1>12, <1>13,
     <1>14, <1>15, <1>16, <1>17 DEF Next, Run, Lanes

LEMMA NextStages == IInv /\ [Next]_vars => Stages'
<1> SUFFICES ASSUME IInv, [Next]_vars PROVE Stages'
  OBVIOUS
<1>0. TypeInv /\ Stages
  BY DEF IInv
<1> USE <1>0 DEF TypeInv, Stages, Early, Late, Running, session, discovery, laneA, laneB, report
<1>1. CASE Launch  BY <1>1 DEF Launch
<1>2. CASE Handshake  BY <1>2 DEF Handshake
<1>3. CASE Terminate  BY <1>3 DEF Terminate
<1>4. CASE KillServer  BY <1>4 DEF KillServer
<1>5. CASE Discover  BY <1>5 DEF Discover
<1>6. CASE Join  BY <1>6 DEF Join
<1>7. CASE Assemble  BY <1>7 DEF Assemble
<1>8. CASE Write  BY <1>8 DEF Write
<1>9. CASE AdvertiseByRules  BY <1>9 DEF AdvertiseByRules, Classified
<1>10. CASE AdvertiseByModel  BY <1>10 DEF AdvertiseByModel, Classified
<1>11. CASE Shadow  BY <1>11 DEF Shadow
<1>12. CASE PatternScan  BY <1>12 DEF PatternScan
<1>13. CASE NoResults  BY <1>13 DEF NoResults
<1>14. CASE TaintScan  BY <1>14 DEF TaintScan
<1>15. CASE Inventory  BY <1>15 DEF Inventory
<1>16. CASE ServerExits  BY <1>16 DEF ServerExits, None
<1>17. CASE UNCHANGED vars  BY <1>17 DEF vars
<1> QED
  BY <1>1, <1>2, <1>3, <1>4, <1>5, <1>6, <1>7, <1>8, <1>9, <1>10, <1>11, <1>12, <1>13,
     <1>14, <1>15, <1>16, <1>17 DEF Next, Run, Lanes

LEMMA NextSearched == IInv /\ [Next]_vars => Searched'
<1> SUFFICES ASSUME IInv, [Next]_vars PROVE Searched'
  OBVIOUS
<1>0. Searched
  BY DEF IInv
<1>1. CASE PatternScan
  <2>1. PICK s \in Searches : search' = s
    BY <1>1 DEF PatternScan
  <2>2. pc' = "lanes"
    BY <1>1 DEF PatternScan, Running
  <2> QED  BY <2>1, <2>2, SearchesFacts DEF Searched, Early
<1>2. CASE NoResults
  <2>1. search'.site = "nowhere" /\ search'.reaching = {}
    BY <1>2 DEF NoResults, NoSearch
  <2>2. pc' = "lanes"
    BY <1>2 DEF NoResults, Running
  <2> QED  BY <2>1, <2>2, StaticPipelineAssumption DEF Searched, Early
<1>3. CASE ~ (PatternScan \/ NoResults)
  <2>1. search' = search /\ (pc' \in Early => pc \in Early)
    <3> USE DEF Early, Running, discovery, laneA, laneB, report
    <3>1. CASE Run
      BY <3>1 DEF Run, Launch, Handshake, Terminate, KillServer, Discover, Join, Assemble, Write
    <3>2. CASE AdvertiseByRules \/ AdvertiseByModel \/ Shadow \/ TaintScan \/ Inventory
      BY <3>2 DEF AdvertiseByRules, AdvertiseByModel, Shadow, TaintScan, Inventory
    <3>3. CASE ServerExits \/ UNCHANGED vars
      BY <3>3 DEF ServerExits, vars
    <3> QED  BY <1>3, <3>1, <3>2, <3>3 DEF Next, Lanes
  <2> QED  BY <1>0, <2>1 DEF Searched
<1> QED  BY <1>1, <1>2, <1>3

LEMMA NextJoins == IInv /\ [Next]_vars => Joins'
<1> SUFFICES ASSUME IInv, [Next]_vars, pc' = "profiles"
             PROVE  \E guarded \in {{}, Fns} : findings' = Joined(guarded)'
  BY DEF Joins
<1> USE DEF session, discovery, laneA, laneB, report
<1>1. ASSUME UNCHANGED <<categories, listed, declared, poisoned, shadows, facts, inventory>>,
             NEW guarded \in {{}, Fns}, findings' = Joined(guarded)
      PROVE  \E g \in {{}, Fns} : findings' = Joined(g)'
  <2>1. Joined(guarded)' = Joined(guarded)
    BY <1>1 DEF Joined, CrossCheck, AccessCheck, Injections, CodeCaps, FactsOf, Claimed, Finding
  <2> QED  BY <1>1, <2>1
<1>2. CASE Join
  <2>1. PICK guarded \in {{}, Fns} : findings' = Joined(guarded)
    BY <1>2 DEF Join
  <2>2. UNCHANGED <<categories, listed, declared, poisoned, shadows, facts, inventory>>
    BY <1>2 DEF Join
  <2> QED  BY <1>1, <2>1, <2>2
<1>3. CASE ~Join
  <2>1. /\ pc = "profiles"
        /\ UNCHANGED <<categories, listed, declared, poisoned, shadows, facts, inventory, findings>>
    <3>1. ~ Lanes
      BY DEF Lanes, Running, AdvertiseByRules, AdvertiseByModel, Shadow, PatternScan, NoResults,
             TaintScan, Inventory
    <3>2. ~ Run
      BY <1>3 DEF Run, Launch, Handshake, Terminate, KillServer, Discover, Assemble, Write
    <3> QED  BY <3>1, <3>2 DEF Next, ServerExits, vars
  <2>2. PICK guarded \in {{}, Fns} : findings = Joined(guarded)
    BY <2>1 DEF IInv, Joins
  <2> QED  BY <1>1, <2>1, <2>2
<1> QED  BY <1>2, <1>3

-----------------------------------------------------------------------------
(* Which tool has a fact                                                   *)

LEMMA NextAttributed == IInv /\ [Next]_vars => Attributed'
<1> SUFFICES ASSUME IInv, [Next]_vars, language' = "python", search'.site \in Fns, lane'["B"] # "raised"
             PROVE  LET at == {f \in facts' : f.site = search'.site}
                        proximate == {f.tool : f \in {g \in at : g.confidence = "proximate"}}
                    IN  /\ Owners' \subseteq {f.tool : f \in at}
                        /\ proximate \subseteq Owners' \union {None}
                        /\ None \in proximate <=> Owners' = {}
  BY DEF Attributed
<1>0. /\ TypeInv /\ Stages /\ Searched /\ Attributed /\ None \notin Tools /\ None \notin Fns
      /\ NoSearch.site = None
  BY AttributionAssumption, NoSearchHas DEF IInv, NoSearchFacts
<1> USE DEF session, discovery, laneA, laneB, report
<1>1. CASE PatternScan
  <2>1. PICK s \in Searches : search' = s /\ facts' = ProximateFacts(s.site, Proximate(s))
    BY <1>1 DEF PatternScan
  <2>2. s.hits = s.reaching
    BY SearchesFacts
  <2>3. Proximate(s) = Owners' /\ Owners' \subseteq Tools
    <3>1. UNCHANGED <<language, handler>>
      BY <1>1 DEF PatternScan
    <3>2. s.reaching \subseteq Tools /\ ToolsAt(handler, PlaceOf[s.site]) \subseteq Tools
      BY SearchesFacts, NearestType
    <3> QED  BY <2>1, <2>2, <3>1, <3>2 DEF Proximate, Owners
  <2> DEFINE hits == Owners'
  <2>4. facts' = {[tool |-> t, site |-> s.site, confidence |-> "proximate"] :
                    t \in IF hits = {} THEN {None} ELSE hits}
    BY <2>1, <2>3 DEF ProximateFacts
  <2> HIDE DEF hits
  <2>5. {f \in facts' : f.site = s.site} = facts' /\ {g \in facts' : g.confidence = "proximate"} = facts'
    BY <2>4
  <2>6. {f.tool : f \in facts'} = IF hits = {} THEN {None} ELSE hits
    <3> DEFINE S == IF hits = {} THEN {None} ELSE hits
    <3> HIDE DEF S
    <3>1. facts' = {[tool |-> t, site |-> s.site, confidence |-> "proximate"] : t \in S}
      BY <2>4 DEF S
    <3>2. \A t \in S : \E f \in facts' : f.tool = t
      <4> SUFFICES ASSUME NEW t \in S PROVE \E f \in facts' : f.tool = t
        OBVIOUS
      <4> DEFINE f == [tool |-> t, site |-> s.site, confidence |-> "proximate"]
      <4>1. f \in facts' /\ f.tool = t
        BY <3>1
      <4> QED  BY <4>1
    <3>3. \A f \in facts' : f.tool \in S
      BY <3>1
    <3>4. {f.tool : f \in facts'} = S
      BY <3>2, <3>3
    <3> QED  BY <3>4 DEF S
  <2>7. hits = Owners' /\ search'.site = s.site
    BY <2>1 DEF hits
  <2> QED  BY <1>0, <2>3, <2>5, <2>6, <2>7
<1>2. CASE NoResults
  <2>1. search'.site = "nowhere"
    BY <1>2 DEF NoResults, NoSearch
  <2> QED  BY <2>1, StaticPipelineAssumption
<1>3. CASE TaintScan
  <2>0. UNCHANGED <<language, search, Owners>>
    BY <1>3 DEF TaintScan, Owners
  <2>1. lane["B"] # "raised"
    BY <1>3 DEF TaintScan, Running
  <2> DEFINE at == {f \in facts : f.site = search.site}
             proximate == {f.tool : f \in {g \in at : g.confidence = "proximate"}}
  <2>2. /\ Owners \subseteq {f.tool : f \in at}
        /\ proximate \subseteq Owners \union {None}
        /\ None \in proximate <=> Owners = {}
    BY <1>0, <2>0, <2>1 DEF Attributed
  <2>3. lane' # [lane EXCEPT !["B"] = "raised"]
    BY <1>0 DEF TypeInv
  <2>4. CASE UNCHANGED facts
    BY <2>0, <2>2, <2>4
  <2>5. ASSUME NEW site \in Fns, NEW from \in Sources,
               facts' = Merge(facts, DirectFacts(site, Direct(site, from, handler, language)))
        PROVE  LET after == {f \in facts' : f.site = search.site}
                   proximateAfter == {f.tool : f \in {g \in after : g.confidence = "proximate"}}
               IN  /\ Owners \subseteq {f.tool : f \in after}
                   /\ proximateAfter \subseteq Owners \union {None}
                   /\ None \in proximateAfter <=> Owners = {}
    <3> DEFINE new == DirectFacts(site, Direct(site, from, handler, language))
    <3>1. /\ new \subseteq [tool : Tools, site : Fns, confidence : {"direct"}]
      BY <1>0, DirectType, FactTypes DEF TypeInv
    <3> HIDE DEF new
    <3>2. facts' = {f \in facts : ~\E g \in new : f.tool = g.tool /\ f.site = g.site} \union new
      BY <2>5 DEF Merge, SameFact, new
    <3>3. ASSUME NEW t \in Owners PROVE \E f \in facts' : f.site = search.site /\ f.tool = t
      <4>1. PICK f \in facts : f.site = search.site /\ f.tool = t
        BY <2>2
      <4> QED  BY <3>2, <4>1
    <3>4. \A f \in facts' : f.confidence = "proximate" => f \in facts
      BY <3>1, <3>2
    <3>5. ASSUME NEW f \in facts, f.tool = None PROVE f \in facts'
      <4>1. \A g \in new : g.tool # None
        BY <1>0, <3>1
      <4> QED  BY <3>2, <3>5, <4>1
    <3> QED  BY <2>2, <3>3, <3>4, <3>5
  <2> QED  BY <1>3, <2>0, <2>3, <2>4, <2>5 DEF TaintScan
<1>4. CASE ~ (PatternScan \/ NoResults \/ TaintScan)
  <2>1. /\ UNCHANGED <<language, search, facts>> /\ (lane["B"] # "raised" \/ search = NoSearch)
        /\ UNCHANGED handler \/ search = NoSearch
    <3> USE DEF Running
    <3>1. CASE Discover
      BY <1>0, <3>1 DEF Discover, Searched, Early
    <3>2. CASE Run /\ ~Discover
      BY <3>2 DEF Run, Launch, Handshake, Terminate, KillServer, Join, Assemble, Write
    <3>3. CASE AdvertiseByRules \/ AdvertiseByModel \/ Shadow \/ Inventory
      <4>1. lane'["B"] = lane["B"] /\ UNCHANGED <<language, search, handler, facts>>
        BY <1>0, <3>3 DEF AdvertiseByRules, AdvertiseByModel, Shadow, Inventory, Classified, TypeInv
      <4> QED  BY <4>1
    <3>4. CASE ServerExits \/ UNCHANGED vars
      BY <3>4 DEF ServerExits, vars
    <3> QED  BY <1>4, <3>1, <3>2, <3>3, <3>4 DEF Next, Lanes
  <2>2. lane["B"] # "raised" /\ UNCHANGED Owners
    BY <1>0, <2>1 DEF Owners
  <2> QED  BY <1>0, <2>1, <2>2 DEF Attributed
<1> QED  BY <1>1, <1>2, <1>3, <1>4

-----------------------------------------------------------------------------
(* What the report says of a tool                                          *)

(* The findings by their ids: what a profile's known flags come from.      *)
LEMMA JoinedBy ==
  ASSUME NEW guarded, TypeInv
  PROVE  /\ \A f \in Joined(guarded) : f.id \in categories
         /\ \A f \in Joined(guarded) : f.id \in {"W5", "W6", "W7"} => f \in Injections
         /\ \A w \in inventory : Finding("*", w, "MEDIUM") \in Joined(guarded)
         /\ \A t \in listed : "W3" \in categories /\ CodeCaps(t) # Claimed(t) =>
              \E f \in Joined(guarded) : f.tool = t /\ f.id = "W3"
<1>1. \A f \in Joined(guarded) : f.id \in categories
  BY DEF Joined
<1>2. ASSUME NEW f \in Joined(guarded), f.id \in {"W5", "W6", "W7"} PROVE f \in Injections
  <2>1. \A g \in CrossCheck : g.id = "W3"
    BY DEF CrossCheck, Finding
  <2>2. \A g \in AccessCheck(guarded) : g.id = "W8"
    BY DEF AccessCheck, Finding
  <2>3. f \notin {Finding("*", w, "MEDIUM") : w \in inventory}
    BY <1>2 DEF Finding, TypeInv
  <2>4. /\ f \notin {Finding(t, "W1", "MEDIUM") : t \in poisoned}
        /\ f \notin {Finding(t, "W2", "MEDIUM") : t \in shadows}
    BY <1>2 DEF Finding
  <2>5. f \notin CrossCheck /\ f \notin AccessCheck(guarded)
    BY <1>2, <2>1, <2>2
  <2> QED  BY <2>3, <2>4, <2>5 DEF Joined
<1>3. ASSUME NEW w \in inventory PROVE Finding("*", w, "MEDIUM") \in Joined(guarded)
  <2>1. Finding("*", w, "MEDIUM").id \in categories
    BY DEF Finding, TypeInv
  <2> QED  BY <2>1 DEF Joined
<1>4. ASSUME NEW t \in listed, "W3" \in categories, CodeCaps(t) # Claimed(t)
      PROVE  \E f \in Joined(guarded) : f.tool = t /\ f.id = "W3"
  <2>1. \E f \in CrossCheck : f.tool = t /\ f.id = "W3"
    <3>1. CASE CodeCaps(t) \ Claimed(t) # {}
      <4> DEFINE f == Finding(t, "W3",
            IF \E g \in FactsOf(t) : /\ g.confidence = "direct"
                                     /\ CapabilityOf(SinkOf[g.site]) \in HighUnderdeclared \ Claimed(t)
            THEN "HIGH" ELSE "MEDIUM")
      <4>1. t \in {u \in listed : CodeCaps(u) \ Claimed(u) # {}}
        BY <3>1
      <4>2. f \in CrossCheck
        BY <4>1 DEF CrossCheck
      <4>3. f.tool = t /\ f.id = "W3"
        BY DEF Finding
      <4> QED  BY <4>2, <4>3
    <3>2. CASE Claimed(t) \ CodeCaps(t) # {}
      <4> DEFINE f == Finding(t, "W3", "LOW")
      <4>1. t \in {u \in listed : Claimed(u) \ CodeCaps(u) # {}}
        BY <3>2
      <4>2. f \in CrossCheck
        BY <4>1 DEF CrossCheck
      <4>3. f.tool = t /\ f.id = "W3"
        BY DEF Finding
      <4> QED  BY <4>2, <4>3
    <3>3. CodeCaps(t) \ Claimed(t) # {} \/ Claimed(t) \ CodeCaps(t) # {}
      BY <1>4
    <3> QED  BY <3>1, <3>2, <3>3
  <2> QED  BY <1>4, <2>1 DEF Joined
<1> QED  BY <1>1, <1>2, <1>3, <1>4

(* The flags of a listed tool: those of its findings and of the server's.  *)
LEMMA KnownBy ==
  ASSUME NEW t
  PROVE  \A w : w \in KnownFlags(t) <=>
                  \E g \in findings : g.id = w /\ (g.tool = t \/ (g.tool = "*" /\ t \in listed))
  BY DEF KnownFlags

LEMMA NextProfiles == IInv /\ [Next]_vars => ProfilesTrue'
<1> SUFFICES ASSUME IInv, [Next]_vars, pc' \in {"write", "done"} PROVE ProfilesTrue'
  BY DEF ProfilesTrue
<1>0. /\ TypeInv /\ Stages /\ Searched /\ Joins /\ Attributed /\ ProfilesTrue
      /\ "*" \notin Tools
  BY StaticPipelineAssumption DEF IInv
<1> USE DEF session, discovery, laneA, laneB, report
<1>1. CASE Assemble
  <2>0. /\ pc = "profiles" /\ UNCHANGED <<language, listed, categories, search, facts, inventory, declared>>
        /\ profiles' = [t \in listed \union ({f.tool : f \in findings} \ {"*"}) |->
                          [declared |-> IF t \in Tools THEN declared[t] ELSE {},
                           code |-> IF t \in Tools THEN CodeCaps(t) ELSE {}, known |-> KnownFlags(t)]]
    BY <1>1 DEF Assemble
  <2>1. PICK guarded \in {{}, Fns} : findings = Joined(guarded)
    BY <1>0, <2>0 DEF Joins
  <2> SUFFICES ASSUME NEW t \in listed
               PROVE  /\ language = "python" /\ search.site \in Fns /\ t \in Owners =>
                           CapabilityOf(SinkOf[search.site]) \in profiles'[t].code \union {None}
                      /\ "W3" \in categories \ profiles'[t].known =>
                           profiles'[t].declared \ {"BENIGN_UTILITY"} = profiles'[t].code
                      /\ \A w \in profiles'[t].known \intersect {"W5", "W6", "W7"} :
                           \E f \in facts : f.tool = t /\ f.confidence = "direct"
                                            /\ InjectionOf(SinkOf[f.site]) = w
                      /\ inventory \subseteq profiles'[t].known /\ profiles'[t].known \subseteq categories
    <3>1. UNCHANGED Owners
      BY <1>1 DEF Assemble, Owners
    <3> QED  BY <2>0, <3>1 DEF ProfilesTrue
  <2>2. t \in Tools /\ t # "*"
    BY <1>0 DEF TypeInv
  <2>3. profiles'[t] = [declared |-> declared[t], code |-> CodeCaps(t), known |-> KnownFlags(t)]
    BY <2>0, <2>2
  <2>4. /\ \A f \in findings : f.id \in categories
        /\ \A f \in findings : f.id \in {"W5", "W6", "W7"} => f \in Injections
        /\ \A w \in inventory : Finding("*", w, "MEDIUM") \in findings
        /\ "W3" \in categories /\ CodeCaps(t) # Claimed(t) =>
             \E f \in findings : f.tool = t /\ f.id = "W3"
    BY <1>0, <2>1, JoinedBy
  <2>5. \A w : w \in KnownFlags(t) <=>
                 \E g \in findings : g.id = w /\ (g.tool = t \/ g.tool = "*")
    BY KnownBy
  <2>6. ASSUME language = "python", search.site \in Fns, t \in Owners
        PROVE  CapabilityOf(SinkOf[search.site]) \in CodeCaps(t) \union {None}
    <3>1. lane["B"] # "raised"
      BY <1>0, <2>0 DEF Stages, Late, TypeInv
    <3>2. PICK f \in facts : f.site = search.site /\ f.tool = t
      BY <1>0, <2>6, <3>1 DEF Attributed
    <3> QED  BY <3>2 DEF CodeCaps, FactsOf
  <2>7. ASSUME "W3" \in categories \ KnownFlags(t) PROVE declared[t] \ {"BENIGN_UTILITY"} = CodeCaps(t)
    BY <2>4, <2>5, <2>7 DEF Claimed
  <2>8. ASSUME NEW w \in KnownFlags(t) \intersect {"W5", "W6", "W7"}
        PROVE  \E f \in facts : f.tool = t /\ f.confidence = "direct" /\ InjectionOf(SinkOf[f.site]) = w
    <3>1. PICK g \in findings : g.id = w /\ (g.tool = t \/ g.tool = "*")
      BY <2>5
    <3>2. g \in Injections
      BY <2>4, <3>1
    <3>3. PICK f \in facts : /\ f.confidence = "direct" /\ f.tool # None
                             /\ g = Finding(f.tool, InjectionOf(SinkOf[f.site]), "HIGH")
      BY <3>2 DEF Injections
    <3>4. g.tool = f.tool /\ g.id = InjectionOf(SinkOf[f.site]) /\ f.tool \in Tools
      BY <1>0, <3>3 DEF Finding, TypeInv
    <3> QED  BY <1>0, <3>1, <3>3, <3>4
  <2>9. ASSUME NEW w \in inventory PROVE w \in KnownFlags(t)
    <3>1. Finding("*", w, "MEDIUM").tool = "*" /\ Finding("*", w, "MEDIUM").id = w
      BY DEF Finding
    <3> QED  BY <2>4, <2>5, <3>1
  <2>10. KnownFlags(t) \subseteq categories
    BY <2>4, <2>5
  <2> QED  BY <2>3, <2>6, <2>7, <2>8, <2>9, <2>10
<1>2. CASE ~Assemble
  <2>1. /\ pc \in {"write", "done"}
        /\ UNCHANGED <<language, listed, categories, search, handler, facts, inventory, profiles>>
    <3>1. ~ Lanes
      BY DEF Lanes, Running, AdvertiseByRules, AdvertiseByModel, Shadow, PatternScan, NoResults,
             TaintScan, Inventory
    <3>2. Run => Write
      BY <1>2 DEF Run, Launch, Handshake, Terminate, KillServer, Discover, Join
    <3> QED  BY <3>1, <3>2 DEF Next, Write, ServerExits, vars
  <2>2. UNCHANGED Owners
    BY <2>1 DEF Owners
  <2> QED  BY <1>0, <2>1, <2>2 DEF ProfilesTrue
<1> QED  BY <1>1, <1>2

-----------------------------------------------------------------------------
LEMMA Inductive == Spec => []IInv
<1>1. IInv /\ [Next]_vars => IInv'
  BY NextTypeInv, NextStages, NextSearched, NextJoins, NextAttributed, NextProfiles DEF IInv
<1> QED  BY InitIInv, <1>1, PTL DEF Spec

(* In Python the owners of the sink that the pattern scan found have a     *)
(* fact of it, whatever the taint scan adds; only they have a proximate    *)
(* one, and it is nobody's exactly when it has no owner.  The owners are   *)
(* the tools from whose functions, told by file and name as match_tool     *)
(* tells them, at most MAX_HOPS calls lead to the sink past no other       *)
(* tool's function, or else the tools of its place.                        *)
THEOREM AttributedHolds == Spec => []Attributed
<1>1. IInv => Attributed
  BY DEF IInv
<1> QED  BY <1>1, Inductive, PTL

(* The profiles that the runtime run is judged against: what the facts,    *)
(* the inventory and the declarations say, for any declarations a text or  *)
(* a reply can make; a tool free of W3 may still declare a benign utility. *)
THEOREM ProfilesTrueHolds == Spec => []ProfilesTrue
<1>1. IInv => ProfilesTrue
  BY DEF IInv
<1> QED  BY <1>1, Inductive, PTL

(* However the run goes, the process of the handshake has ended or has     *)
(* been sent SIGKILL, no lane is left running, and there is a report       *)
(* exactly when nothing failed.                                            *)
THEOREM SettledHolds == Spec => []Settled
<1>1. IInv => Settled
  BY DEF IInv, Settled, TypeInv, Stages, Early, Late
<1> QED  BY <1>1, Inductive, PTL
=============================================================================
