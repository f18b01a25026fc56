------------------------------ MODULE WebProofs -------------------------------
(* Proofs about the pages of the web client (MCWeb).  Each page has an        *)
(* inductive invariant, Inv of its module: it holds at first, every step of   *)
(* the page keeps it, and it implies what the page promises.  The pages share *)
(* their variables, one page being explored in each behaviour: the theorems   *)
(* at the end put the eleven proofs together.                                 *)
EXTENDS MCWeb, FiniteSetTheorems, SequenceTheorems, TLAPS

-----------------------------------------------------------------------------
(* Of finite sets in an order *)

LEMMA LeastNumber ==
  ASSUME NEW T \in SUBSET Nat, T # {}
  PROVE  \E x \in T : \A y \in T : x <= y
<1>1. \E x \in T : \A y \in T : ~(<<y, x>> \in OpToRel(<, Nat))
  BY NatLessThanWellFounded, WFMin
<1>2. \A x, y \in T : ~(<<y, x>> \in OpToRel(<, Nat)) => x <= y
  BY DEF OpToRel
<1>3. QED BY <1>1, <1>2

\* In an order that is given by what is before each element, at most m elements
\* have less than m before them.
LEMMA TopAreFew ==
  ASSUME NEW S, IsFiniteSet(S), NEW m \in Nat, NEW before \in [S -> SUBSET S],
         \A x \in S : x \notin before[x],
         \A x, y, z \in S : x \in before[y] /\ y \in before[z] => x \in before[z],
         \A x, y \in S : x # y => x \in before[y] \/ y \in before[x],
         NEW T \in SUBSET S, \A x \in S : x \in T <=> Cardinality(before[x]) < m
  PROVE  IsFiniteSet(T) /\ Cardinality(T) \in Nat /\ Cardinality(T) <= m
<1> DEFINE among == [x \in T |-> before[x] \cap T]
           c == [x \in T |-> Cardinality(among[x])]
<1>2. IsFiniteSet(T) /\ Cardinality(T) \in Nat
  BY FS_Subset, FS_CardinalityType
<1>3. CASE T = {}
  <2>1. Cardinality(T) = 0
    BY <1>3, FS_EmptySet
  <2>2. QED BY <1>2, <2>1
<1>4. CASE T # {}
  <2>1. ASSUME NEW x \in T
        PROVE  /\ IsFiniteSet(among[x]) /\ c[x] = Cardinality(among[x])
               /\ c[x] \in Nat /\ c[x] <= Cardinality(T)
    <3>1. among[x] \in SUBSET T /\ c[x] = Cardinality(among[x])
      OBVIOUS
    <3> HIDE DEF among, c
    <3>2. QED BY <1>2, <3>1, FS_Subset, FS_CardinalityType
  <2>2. PICK x \in T : \A y \in T : c[y] <= c[x]
    <3> HIDE DEF c
    <3> DEFINE L == {n \in Nat : \E y \in T : n = Cardinality(T) - c[y]}
    <3>0. \A y \in T : c[y] \in Nat /\ c[y] <= Cardinality(T)
      BY <2>1
    <3>1. \A y \in T : Cardinality(T) - c[y] \in L
      <4>1. SUFFICES ASSUME NEW y \in T PROVE Cardinality(T) - c[y] \in Nat
        OBVIOUS
      <4>2. QED BY <1>2, <3>0
    <3>2. PICK l \in L : \A k \in L : l <= k
      <4>1. L \in SUBSET Nat /\ L # {}
        BY <1>4, <3>1
      <4> HIDE DEF L
      <4>2. QED BY <4>1, LeastNumber
    <3>3. PICK x \in T : l = Cardinality(T) - c[x]
      BY <3>2
    <3>4. \A y \in T : Cardinality(T) - c[x] <= Cardinality(T) - c[y]
      BY <3>1, <3>2, <3>3
    <3>5. QED BY <1>2, <3>0, <3>4
  <2>3. \A y \in T : y # x => y \in before[x]
    <3> SUFFICES ASSUME NEW y \in T, y # x, y \notin before[x] PROVE FALSE
      OBVIOUS
    <3>1. x \in before[y]
      OBVIOUS
    <3>2. among[x] \cup {x} \in SUBSET among[y] /\ x \notin among[x]
      BY <3>1
    <3>3. c[x] = Cardinality(among[x]) /\ c[y] = Cardinality(among[y])
          /\ c[x] \in Nat /\ c[y] \in Nat /\ c[y] <= c[x]
      BY <2>1, <2>2
    <3>4. IsFiniteSet(among[x]) /\ IsFiniteSet(among[y])
      BY <2>1
    <3> HIDE DEF among, c
    <3>5. Cardinality(among[x] \cup {x}) = c[x] + 1
      BY <3>2, <3>3, <3>4, FS_AddElement
    <3>6. Cardinality(among[x] \cup {x}) <= c[y]
      BY <3>2, <3>3, <3>4, FS_Subset
    <3>7. QED BY <3>3, <3>5, <3>6
  <2> DEFINE B == before[x]
  <2>4. T \ {x} \in SUBSET B /\ Cardinality(B) < m /\ B \in SUBSET S
    BY <2>3
  <2> HIDE DEF B
  <2>5. IsFiniteSet(B) /\ Cardinality(B) \in Nat
    BY <2>4, FS_Subset, FS_CardinalityType
  <2>6. Cardinality(T \ {x}) <= Cardinality(B)
    BY <2>4, <2>5, FS_Subset
  <2>7. Cardinality(T \ {x}) = Cardinality(T) - 1
    BY <1>2, FS_RemoveElement
  <2>8. QED BY <1>2, <2>4, <2>5, <2>6, <2>7
<1>5. QED BY <1>3, <1>4

\* Of numbers the first m, or all if there are no more.
LEMMA FirstOfNumbers ==
  ASSUME NEW S \in SUBSET Nat, IsFiniteSet(S), NEW m \in Nat,
         NEW T \in SUBSET S, \A x \in S : x \in T <=> Cardinality({y \in S : y < x}) < m
  PROVE  Cardinality(T) = IF m <= Cardinality(S) THEN m ELSE Cardinality(S)
<1> DEFINE before == [x \in S |-> {y \in S : y < x}]
<1>1. /\ before \in [S -> SUBSET S]
      /\ \A x \in S : x \notin before[x]
      /\ \A x, y, z \in S : x \in before[y] /\ y \in before[z] => x \in before[z]
      /\ \A x, y \in S : x # y => x \in before[y] \/ y \in before[x]
  OBVIOUS
<1>2. \A x \in S : x \in T <=> Cardinality(before[x]) < m
  OBVIOUS
<1> HIDE DEF before
<1>3. IsFiniteSet(T) /\ Cardinality(T) \in Nat /\ Cardinality(T) <= m
  BY <1>1, <1>2, TopAreFew
<1>4. Cardinality(T) <= Cardinality(S) /\ Cardinality(S) \in Nat
  BY FS_Subset, FS_CardinalityType
<1>5. CASE T = S
  BY <1>3, <1>4, <1>5
<1>6. CASE T # S
  <2>1. S \ T \in SUBSET Nat /\ S \ T # {}
    BY <1>6
  <2>2. PICK x \in S \ T : \A y \in S \ T : x <= y
    BY <2>1, LeastNumber
  <2> DEFINE B == {y \in S : y < x}
  <2>3. B \in SUBSET T
    <3>1. SUFFICES ASSUME NEW y \in B, y \notin T PROVE FALSE
      OBVIOUS
    <3>2. y \in Nat /\ x \in Nat /\ y < x /\ x <= y
      BY <2>2, <3>1
    <3>3. QED BY <3>2
  <2>4. ~(Cardinality(B) < m)
    BY <2>2
  <2> HIDE DEF B
  <2>5. Cardinality(B) \in Nat /\ Cardinality(B) <= Cardinality(T)
    BY <1>3, <2>3, FS_Subset, FS_CardinalityType
  <2>6. QED BY <1>3, <1>4, <2>4, <2>5
<1>7. QED BY <1>5, <1>6

-----------------------------------------------------------------------------
(* The recommender *)

\* An instance has a Cardinality of its own.
LEMMA SameCountAdvice == \A S : Advice!Cardinality(S) = Cardinality(S)
  BY DEF Advice!Cardinality, Cardinality

LEMMA AdviceInit == Advice!Init => Advice!Inv
  BY DEF Advice!Init, Advice!Inv, Advice!ColdProfile

LEMMA AdviceStep == Advice!Inv /\ Advice!Next => Advice!Inv'
<1> SUFFICES ASSUME Advice!Inv, Advice!Next PROVE Advice!Inv'
  OBVIOUS
<1>1. PICK D \in SUBSET Dims : \E f \in [D -> Scores] : \E c :
        page' = [sessions |-> 1, score |-> f, cleared |-> c] /\ UNCHANGED flow
  BY DEF Advice!Next, Advice!Play
<1>2. PICK f \in [D -> Scores] : \E c :
        page' = [sessions |-> 1, score |-> f, cleared |-> c] /\ UNCHANGED flow
  BY <1>1
<1>3. QED BY <1>2 DEF Advice!Inv

\* A level that is clamped is one of the scenario.
LEMMA LevelIsOffered ==
  ASSUME NEW s \in Catalog, s.levels # {}, NEW w
  PROVE  Advice!LevelFor(w, s) \in s.levels
<1>1. s.levels \subseteq 1..4
  BY WebAssumption
<1>2. ASSUME NEW S \in SUBSET (1..4), S # {}
      PROVE  Advice!Max(S) \in S /\ Advice!Min(S) \in S
  <2>1. \E x \in S : \A y \in S : x <= y
    <3>1. S \in SUBSET Nat
      OBVIOUS
    <3>2. QED BY <1>2, <3>1, LeastNumber
  <2>2. \E x \in S : \A y \in S : x >= y
    <3>1. CASE 4 \in S
      BY <3>1
    <3>2. CASE 4 \notin S /\ 3 \in S
      BY <3>2
    <3>3. CASE 4 \notin S /\ 3 \notin S /\ 2 \in S
      BY <3>3
    <3>4. CASE 4 \notin S /\ 3 \notin S /\ 2 \notin S
      <4>1. \A z \in S : z = 1
        BY <3>4
      <4>2. PICK z \in S : z = 1
        BY <1>2, <4>1
      <4>3. \A y \in S : z >= y
        BY <4>1, <4>2
      <4>4. QED BY <4>3
    <3>5. QED BY <3>1, <3>2, <3>3, <3>4
  <2>3. QED BY <2>1, <2>2 DEF Advice!Max, Advice!Min
<1> DEFINE below == {l \in s.levels : l <= w}
<1>3. below \in SUBSET (1..4) /\ below \subseteq s.levels
  BY <1>1
<1>4. below # {} => Advice!Max(below) \in s.levels
  <2> HIDE DEF below
  <2>1. QED BY <1>2, <1>3
<1>5. Advice!Min(s.levels) \in s.levels
  BY <1>1, <1>2
<1>6. QED BY <1>4, <1>5 DEF Advice!LevelFor

LEMMA AdvisedHolds == Advice!Inv => Advice!AdvisedIsOffered
<1> SUFFICES ASSUME Advice!Inv, page.sessions > 0,
                    NEW i \in Advice!Recommended(page), flow[i].levels # {}
             PROVE  Advice!Level(page, i) \in flow[i].levels
  BY DEF Advice!AdvisedIsOffered
<1>1. page.sessions # 0
  BY DEF Advice!Inv
<1>2. flow[i] \in Catalog
  BY <1>1 DEF Advice!Recommended, Advice!Ranked, Advice!Inv
<1>3. QED BY <1>1, <1>2, LevelIsOffered DEF Advice!Level

\* No more dimensions count as weak than are looked at.
LEMMA WeakAreFew ==
  ASSUME Advice!Inv
  PROVE  /\ IsFiniteSet(Advice!WeakDims(page)) /\ Cardinality(Advice!WeakDims(page)) <= 3
<1> DEFINE D == DOMAIN page.score
           before == [x \in D |-> {y \in D : Advice!Weaker(page, y, x)}]
<1>1. IsFiniteSet(D) /\ D \subseteq Int /\ \A d \in D : page.score[d] \in Int
  BY WebAssumption, FS_Subset DEF Advice!Inv
<1>2. /\ before \in [D -> SUBSET D]
      /\ \A x \in D : x \notin before[x]
      /\ \A x, y, z \in D : x \in before[y] /\ y \in before[z] => x \in before[z]
      /\ \A x, y \in D : x # y => x \in before[y] \/ y \in before[x]
  BY <1>1 DEF Advice!Weaker
<1>3. /\ Advice!WeakDims(page) \in SUBSET D
      /\ \A x \in D : x \in Advice!WeakDims(page) <=> Cardinality(before[x]) < 3
  BY SameCountAdvice DEF Advice!WeakDims, Advice!Most
<1> DEFINE W == Advice!WeakDims(page)
<1>4. W \in SUBSET D /\ \A x \in D : x \in W <=> Cardinality(before[x]) < 3
  BY <1>3
<1> HIDE DEF D, before, W
<1>5. IsFiniteSet(D) /\ 3 \in Nat
  BY <1>1
<1>6. IsFiniteSet(W) /\ Cardinality(W) <= 3
  BY <1>2, <1>4, <1>5, TopAreFew
<1>7. QED BY <1>6 DEF W

\* What is wanted has more points than anything that is not.
LEMMA WantedHavePoints ==
  ASSUME Advice!Inv, NEW i \in Places
  PROVE  LET pts == Advice!Points(page, Advice!Need(page), i) IN
         /\ pts \in Int
         /\ i \in Advice!Wanted => pts >= 3
         /\ i \notin Advice!Wanted => pts <= 2
<1> DEFINE need == Advice!Need(page)
           hits == flow[i].drills \cap need.weak
           had == Advice!Cleared(page, i, Advice!LevelFor(need.level, flow[i]))
           rung == flow[i].ladder = need.ladder
<1>1. need.weak = Advice!WeakDims(page)
  BY DEF Advice!Need
<1>2. IsFiniteSet(hits) /\ Cardinality(hits) \in 0..3 /\ (Cardinality(hits) = 0 <=> hits = {})
  <2>1. IsFiniteSet(need.weak) /\ Cardinality(need.weak) <= 3
    BY <1>1, WeakAreFew
  <2>2. hits \in SUBSET need.weak
    OBVIOUS
  <2> HIDE DEF hits, need
  <2>3. QED BY <2>1, <2>2, FS_Subset, FS_CardinalityType, FS_EmptySet
<1>3. Advice!Points(page, need, i)
        = 3 * Cardinality(hits) + (IF rung THEN 2 ELSE 0) - (IF had THEN 10 ELSE 0)
  BY SameCountAdvice DEF Advice!Points
<1>4. i \in Advice!Wanted <=> hits # {} /\ ~had
  BY DEF Advice!Wanted
<1> HIDE DEF need, hits, had, rung
<1>5. QED BY <1>2, <1>3, <1>4 DEF need

LEMMA DrillsHold == Advice!Inv => Advice!DrillsComeFirst
<1> SUFFICES ASSUME Advice!Inv, page.sessions > 0,
                    NEW i \in Advice!Wanted, i \notin Advice!Recommended(page),
                    NEW j \in Advice!Recommended(page), j \notin Advice!Wanted
             PROVE  FALSE
  BY DEF Advice!DrillsComeFirst
<1> DEFINE pts(k) == Advice!Points(page, Advice!Need(page), k)
           ahead(k) == {l \in Places : pts(l) > pts(k) \/ (pts(l) = pts(k) /\ l < k)}
<1>1. Advice!Recommended(page) = {k \in Places : Cardinality(ahead(k)) < 3}
  <2>1. page.sessions # 0
    BY DEF Advice!Inv
  <2> DEFINE points == [k \in Places |-> pts(k)]
             ahead2(k) == {l \in Places : points[l] > points[k] \/ (points[l] = points[k] /\ l < k)}
  <2>2. Advice!Recommended(page) = {k \in Places : Advice!Cardinality(ahead2(k)) < 3}
    BY <2>1 DEF Advice!Recommended, Advice!Ranked, Advice!Most
  <2>3. \A k \in Places : ahead2(k) = ahead(k)
    OBVIOUS
  <2>4. QED BY <2>2, <2>3, SameCountAdvice
<1>2. i \in Places /\ j \in Places
  BY <1>1 DEF Advice!Wanted
<1>3. \A k \in Places : pts(k) \in Int
  BY WantedHavePoints
<1>4. pts(i) > pts(j)
  <2>1. pts(i) >= 3 /\ pts(j) <= 2
    BY <1>2, WantedHavePoints
  <2> HIDE DEF pts
  <2>2. QED BY <1>2, <1>3, <2>1
<1>5. \A k : IsFiniteSet(ahead(k)) /\ Cardinality(ahead(k)) \in Nat
  <2> SUFFICES ASSUME NEW k PROVE IsFiniteSet(ahead(k)) /\ Cardinality(ahead(k)) \in Nat
    OBVIOUS
  <2>1. ahead(k) \in SUBSET Places
    OBVIOUS
  <2> HIDE DEF ahead
  <2>2. QED BY <2>1, WebAssumption, FS_Subset, FS_CardinalityType
<1>6. ahead(i) \in SUBSET ahead(j)
  <2> HIDE DEF pts
  <2>1. QED BY <1>2, <1>3, <1>4
<1>7. ~(Cardinality(ahead(i)) < 3) /\ Cardinality(ahead(j)) < 3
  BY <1>1, <1>2
<1> HIDE DEF ahead
<1>8. Cardinality(ahead(i)) <= Cardinality(ahead(j))
  BY <1>5, <1>6, FS_Subset
<1>9. QED BY <1>5, <1>7, <1>8

\* One scenario of each pack there is a choice of, the first of it.
LEMMA ColdIsOfEachPack ==
  ASSUME Advice!Inv, NEW pool \in SUBSET Places,
         NEW cold, cold = {i \in pool : ~\E j \in pool : j < i /\ flow[j].pack = flow[i].pack},
         NEW T \in SUBSET cold
  PROVE  /\ IsFiniteSet(T)
         /\ {flow[i].pack : i \in cold} = {flow[i].pack : i \in pool}
         /\ Cardinality({flow[i].pack : i \in T}) = Cardinality(T)
<1>1. IsFiniteSet(pool) /\ pool \subseteq Nat
  BY WebAssumption, FS_Subset
<1>2. cold \in SUBSET pool /\ T \in SUBSET pool
  OBVIOUS
<1>3. IsFiniteSet(T)
  BY <1>1, <1>2, FS_Subset
<1>4. \A i, j \in cold : flow[i].pack = flow[j].pack => i = j
  BY <1>1
<1>5. ASSUME NEW i \in pool PROVE \E j \in cold : flow[j].pack = flow[i].pack
  <2> DEFINE P == {j \in pool : flow[j].pack = flow[i].pack}
  <2>1. P \in SUBSET Nat /\ P # {}
    BY <1>1
  <2>2. PICK j \in P : \A k \in P : j <= k
    <3> HIDE DEF P
    <3>1. QED BY <2>1, LeastNumber
  <2>3. j \in cold
    BY <1>1, <2>2
  <2>4. QED BY <2>2, <2>3
<1>6. {flow[i].pack : i \in cold} = {flow[i].pack : i \in pool}
  BY <1>2, <1>5
<1> DEFINE U == {flow[i].pack : i \in T}
           f == [i \in T |-> flow[i].pack]
<1>7. f \in Bijection(T, U)
  BY <1>4 DEF Bijection, Injection, Surjection, IsInjective
<1>8. Cardinality(U) = Cardinality(T)
  <2> HIDE DEF U, f
  <2>1. QED BY <1>3, <1>7, FS_Bijection DEF ExistsBijection
<1>9. QED BY <1>3, <1>6, <1>8

LEMMA BeginnersHold == Advice!Inv => Advice!BeginnersGetIntros
<1> SUFFICES ASSUME Advice!Inv, page.sessions = 0 PROVE Advice!BeginnersGetIntros
  BY DEF Advice!BeginnersGetIntros
<1> DEFINE intros == {i \in Places : flow[i].ladder = "intro"}
           pool == IF intros # {} THEN intros ELSE Places
           cold == {i \in pool : ~\E j \in pool : j < i /\ flow[j].pack = flow[i].pack}
           T == {i \in cold : Cardinality({j \in cold : j < i}) < 3}
           packs == {flow[i].pack : i \in pool}
<1>1. Advice!Recommended(page) = T
  BY SameCountAdvice DEF Advice!Recommended, Advice!Cold, Advice!Most
<1>2. intros # {} => T \subseteq intros
  OBVIOUS
<1>3. pool \in SUBSET Places
  OBVIOUS
<1>4. T \in SUBSET cold /\ cold \in SUBSET cold
  OBVIOUS
<1>5. cold \in SUBSET Nat
  BY <1>3, WebAssumption
<1>6. IsFiniteSet(cold) /\ {flow[i].pack : i \in cold} = packs
      /\ Cardinality({flow[i].pack : i \in cold}) = Cardinality(cold)
  <2> HIDE DEF pool
  <2>1. QED BY <1>3, <1>4, ColdIsOfEachPack
<1>7. Cardinality({flow[i].pack : i \in T}) = Cardinality(T)
  <2> HIDE DEF pool, T
  <2>1. QED BY <1>3, <1>4, ColdIsOfEachPack
<1>8. Cardinality(T) = IF 3 <= Cardinality(cold) THEN 3 ELSE Cardinality(cold)
  <2> HIDE DEF cold
  <2>1. \A x \in cold : x \in T <=> Cardinality({y \in cold : y < x}) < 3
    OBVIOUS
  <2>2. T \in SUBSET cold /\ 3 \in Nat
    OBVIOUS
  <2> HIDE DEF T
  <2>3. QED BY <1>5, <1>6, <2>1, <2>2, FirstOfNumbers
<1>9. Cardinality(packs) = Cardinality(cold) /\ Cardinality(cold) \in Nat
  BY <1>6, FS_CardinalityType
<1>10. ASSUME NEW n \in Nat PROVE Advice!Min({3, n}) = IF 3 <= n THEN 3 ELSE n
  BY DEF Advice!Min
<1>11. Advice!BeginnersGetIntros <=>
        /\ intros # {} => Advice!Recommended(page) \subseteq intros
        /\ Cardinality({flow[i].pack : i \in Advice!Recommended(page)})
             = Advice!Min({3, Cardinality(packs)})
  BY SameCountAdvice DEF Advice!BeginnersGetIntros, Advice!Most
<1> HIDE DEF packs, T, cold, pool, intros
<1>12. QED BY <1>1, <1>2, <1>7, <1>8, <1>9, <1>10, <1>11

-----------------------------------------------------------------------------
(* The set-up *)

LEMMA SetupInit == Init => Inv
<1> SUFFICES ASSUME Init PROVE Inv
  OBVIOUS
<1>1. PICK kind \in Known(srv.outcome) : guard = Mounted(mirror, {Asked(kind)})
  BY DEF Init
<1>2. /\ page = "home" /\ flow = Fresh("welcome", 0) /\ calls = Idle
      /\ srv \in [jobs : {<<>>, <<"running">>}, outcome : BOOLEAN]
      /\ hist = [done |-> FALSE, late |-> FALSE, seen |-> 0, bounces |-> 0]
  BY DEF Init
<1>3. guard = [status |-> guard.status, asks |-> {[kind |-> kind, live |-> TRUE]}]
      /\ guard.status \in {"loading", "ready"} /\ kind \in {"ready", "incomplete", "never-run"}
  BY <1>1 DEF Mounted, Asked, Known
<1>4. Shape
  <2>1. Jobs \subseteq Nat \ {0}
    BY <1>2 DEF Jobs
  <2>a. PICK a : a = [kind |-> kind, live |-> TRUE]
    OBVIOUS
  <2>b. a \in [kind : {"ready", "incomplete", "never-run"}, live : BOOLEAN]
    BY <1>3, <2>a
  <2>2. guard.asks \subseteq [kind : {"ready", "incomplete", "never-run"}, live : BOOLEAN]
    <3>1. guard.asks = {a}
      BY <1>3, <2>a
    <3>2. QED BY <2>b, <3>1
  <2>3. FlowShape(flow) /\ calls \in [Kinds -> Nat]
    BY <1>2 DEF FlowShape, Fresh, Idle
  <2>4. QED BY <1>2, <1>3, <2>1, <2>2, <2>3 DEF Shape
<1>5. ~flow.busy /\ flow.step = "welcome"
  BY <1>2 DEF Fresh
<1>6. QED
  BY <1>2, <1>4, <1>5 DEF Inv, BusyIsCalled, JobPolled, InFlow, BouncedOnce, OutcomeStored,
    FinishedStays

LEMMA MoreCalls ==
  ASSUME NEW c \in [Kinds -> Nat], NEW k \in Kinds
  PROVE  More(c, k) \in [Kinds -> Nat] /\ (\A j \in Kinds : More(c, k)[j] >= c[j]) /\ More(c, k)[k] > 0
BY DEF More

\* The effects of a render keep the job and what is busy, and only send requests.
LEMMA RenderKeeps ==
  ASSUME NEW f, FlowShape(f), NEW sh, NEW came, NEW c \in [Kinds -> Nat], Rendered(f, sh, came, c)
  PROVE  /\ FlowShape(flow') /\ flow'.id = f.id /\ flow'.busy = f.busy
         /\ flow'.step = "installing" => f.step = "installing"
         /\ calls' \in [Kinds -> Nat] /\ \A k \in Kinds : calls'[k] >= c[k]
<1> DEFINE Keeps(g) == /\ FlowShape(g) /\ g.id = f.id /\ g.busy = f.busy
                       /\ g.step = "installing" => f.step = "installing"
<1>1. Keeps(Seeded(f))
  BY DEF Seeded, FlowShape
<1>2. ASSUME NEW g, Keeps(g) PROVE Keeps(Noticed(g, sh, came))
  BY <1>2 DEF Noticed, FlowShape
<1>3. ASSUME NEW g, Keeps(g) PROVE Keeps(Bounced(g))
  BY <1>3 DEF Bounced, FlowShape
<1>4. ASSUME NEW g, Keeps(g) PROVE Keeps(Stranded(g))
  BY <1>4 DEF Stranded, FlowShape
<1> HIDE DEF Keeps
<1>5. PICK g : g = Stranded(Bounced(Noticed(Seeded(f), sh, came)))
  OBVIOUS
<1>6. Keeps(g)
  BY <1>1, <1>2, <1>3, <1>4, <1>5
<1>7. {"load", "bench", "mark"} \subseteq Kinds
  BY DEF Kinds
<1>8. PICK c1 \in [Kinds -> Nat] :
        /\ c1 = IF g.step = "loading" /\ flow.step # "loading" THEN More(c, "load") ELSE c
        /\ \A k \in Kinds : c1[k] >= c[k]
  BY <1>7, MoreCalls
<1>9. PICK c2 \in [Kinds -> Nat] :
        /\ c2 = IF g.step = "benchmark" /\ ~g.ran THEN More(c1, "bench") ELSE c1
        /\ \A k \in Kinds : c2[k] >= c1[k]
  BY <1>7, MoreCalls
<1>10. PICK c3 \in [Kinds -> Nat] :
        /\ c3 = IF Completes(f, sh, came) THEN More(c2, "mark") ELSE c2
        /\ \A k \in Kinds : c3[k] >= c2[k]
  BY <1>7, MoreCalls
<1>11. /\ flow' = IF g.step = "benchmark" /\ ~g.ran THEN [g EXCEPT !.ran = TRUE] ELSE g
       /\ calls' = c3
  BY <1>5, <1>8, <1>9, <1>10 DEF Rendered
<1>12. Keeps(flow')
  BY <1>6, <1>11 DEF Keeps, FlowShape
<1>13. \A k \in Kinds : c3[k] >= c[k]
  BY <1>8, <1>9, <1>10
<1>14. QED BY <1>11, <1>12, <1>13 DEF Keeps

LEMMA LessCalls ==
  ASSUME Shape, NEW k \in Kinds, calls[k] > 0
  PROVE  /\ Less(k) \in [Kinds -> Nat]
         /\ \A j \in Kinds : j # k => Less(k)[j] = calls[j]
BY DEF Less, Shape

\* A step that renders the page keeps the invariant, if what it renders is polled
\* and called for.
LEMMA RenderedStep ==
  ASSUME Inv, NEW f, NEW sh, NEW came, NEW c \in [Kinds -> Nat],
         FlowShape(f), Rendered(f, sh, came, c),
         f.busy => \E k \in {"auto", "start", "use", "gguf"} : c[k] > 0,
         f.step = "installing" => f.id # 0,
         InFlow /\ f.id # 0 /\ ~hist'.late => ticking' \/ hist'.seen = f.id,
         page' = page, guard' = guard,
         srv' = [jobs |-> srv'.jobs, outcome |-> srv.outcome], DOMAIN srv'.jobs \subseteq Nat \ {0},
         hist' = [done |-> hist.done, late |-> hist'.late, seen |-> hist'.seen,
                  bounces |-> hist.bounces]
  PROVE  Inv'
<1>1. /\ FlowShape(flow') /\ flow'.id = f.id /\ flow'.busy = f.busy
      /\ flow'.step = "installing" => f.step = "installing"
      /\ calls' \in [Kinds -> Nat] /\ \A k \in Kinds : calls'[k] >= c[k]
  BY RenderKeeps
<1>2. {"auto", "start", "use", "gguf"} \subseteq Kinds
  BY DEF Kinds
<1>3. BusyIsCalled'
  BY <1>1, <1>2 DEF BusyIsCalled
<1>4. JobPolled'
  BY <1>1 DEF JobPolled, InFlow
<1>5. srv'.outcome = srv.outcome /\ hist'.done = hist.done /\ hist'.bounces = hist.bounces
  OBVIOUS
<1>6. Shape'
  BY <1>1, <1>5 DEF Inv, Shape, Jobs, FlowShape
<1>7. BouncedOnce' /\ OutcomeStored' /\ FinishedStays'
  BY <1>5 DEF Inv, BouncedOnce, OutcomeStored, FinishedStays
<1>8. QED BY <1>3, <1>4, <1>6, <1>7 DEF Inv

\* The same where the job stays and nothing else changes.
LEMMA QuietStep ==
  ASSUME Inv, Quiet, NEW f, NEW c \in [Kinds -> Nat], FlowShape(f), Rendered(f, shot, FALSE, c),
         f.busy => \E k \in {"auto", "start", "use", "gguf"} : c[k] > 0,
         f.step = "installing" => flow.step = "installing",
         f.id = flow.id
  PROVE  Inv'
<1>1. /\ page' = page /\ guard' = guard /\ srv' = srv /\ hist' = hist /\ ticking' = ticking
  BY DEF Quiet
<1>2. /\ srv' = [jobs |-> srv'.jobs, outcome |-> srv.outcome] /\ DOMAIN srv'.jobs \subseteq Nat \ {0}
      /\ hist' = [done |-> hist.done, late |-> hist'.late, seen |-> hist'.seen,
                  bounces |-> hist.bounces]
  BY <1>1 DEF Inv, Shape, Jobs
<1>3. f.step = "installing" => f.id # 0
  BY DEF Inv, JobPolled
<1>4. InFlow /\ f.id # 0 /\ ~hist'.late => ticking' \/ hist'.seen = f.id
  BY <1>1 DEF Inv, JobPolled
<1>5. QED BY <1>1, <1>2, <1>3, <1>4, RenderedStep

LEMMA StepsKeep ==
  ASSUME Inv, Quiet, NEW f, FlowShape(f), Steps(f), ~f.busy \/ f.busy = flow.busy,
         f.step = "installing" => flow.step = "installing", f.id = flow.id
  PROVE  Inv'
<1>1. calls \in [Kinds -> Nat] /\ Rendered(f, shot, FALSE, calls)
  BY DEF Inv, Shape, Steps
<1>2. f.busy => \E k \in {"auto", "start", "use", "gguf"} : calls[k] > 0
  BY DEF Inv, BusyIsCalled
<1>3. QED BY <1>1, <1>2, QuietStep

LEMMA CallStep ==
  ASSUME Inv, NEW k \in {"auto", "start", "use", "gguf"}, NEW f, FlowShape(f), Call(k, f),
         f.step = "installing" => flow.step = "installing", f.id = flow.id
  PROVE  Inv'
<1>1. /\ page' = page /\ guard' = guard /\ srv' = srv /\ hist' = hist /\ ticking' = ticking
      /\ flow' = [f EXCEPT !.busy = TRUE, !.err = "none"] /\ calls' = More(calls, k)
  BY DEF Quiet, Call
<1>2. flow' = [step |-> f.step, intent |-> f.intent, models |-> f.models, chosen |-> f.chosen,
               err |-> "none", busy |-> TRUE, id |-> f.id, ran |-> f.ran]
  BY <1>1 DEF FlowShape
<1>3. calls' \in [Kinds -> Nat] /\ calls'[k] > 0
  <2>1. calls \in [Kinds -> Nat] /\ k \in Kinds
    BY DEF Inv, Shape, Kinds
  <2>2. QED BY <1>1, <2>1, MoreCalls
<1>4. BusyIsCalled'
  BY <1>3 DEF BusyIsCalled
<1>5. JobPolled'
  BY <1>1, <1>2 DEF Inv, JobPolled, InFlow
<1>6. Shape'
  BY <1>1, <1>2, <1>3 DEF Inv, Shape, Jobs, FlowShape
<1>7. BouncedOnce' /\ OutcomeStored' /\ FinishedStays'
  BY <1>1 DEF Inv, BouncedOnce, OutcomeStored, FinishedStays
<1>8. QED BY <1>4, <1>5, <1>6, <1>7 DEF Inv

\* Only requests that keep nothing busy change, or the server's jobs.
LEMMA AsideStep ==
  ASSUME Inv, calls' \in [Kinds -> Nat],
         \A k \in {"auto", "start", "use", "gguf"} : calls'[k] >= calls[k],
         flow' = flow, page' = page, guard' = guard, hist' = hist, ticking' = ticking,
         srv' = [jobs |-> srv'.jobs, outcome |-> srv.outcome], DOMAIN srv'.jobs \subseteq Nat \ {0}
  PROVE  Inv'
<1>1. {"auto", "start", "use", "gguf"} \subseteq Kinds /\ srv'.outcome = srv.outcome
  BY DEF Kinds
<1>2. BusyIsCalled'
  BY <1>1 DEF Inv, Shape, BusyIsCalled
<1>3. JobPolled'
  BY DEF Inv, JobPolled, InFlow
<1>4. Shape'
  BY <1>1 DEF Inv, Shape, Jobs, FlowShape
<1>5. BouncedOnce' /\ OutcomeStored' /\ FinishedStays'
  BY <1>1 DEF Inv, BouncedOnce, OutcomeStored, FinishedStays
<1>6. QED BY <1>2, <1>3, <1>4, <1>5 DEF Inv

\* The flow is opened or left.
LEMMA FreshStep ==
  ASSUME Inv, NEW s, NEW i, flow' = Fresh(s, i), calls' \in [Kinds -> Nat],
         s = "installing" => i # 0, i # 0 => ticking', BouncedOnce', OutcomeStored',
         FinishedStays', srv' = [jobs |-> srv.jobs, outcome |-> srv'.outcome],
         guard' = [status |-> guard'.status, asks |-> guard'.asks],
         guard'.status \in {"loading", "ready", "incomplete"},
         guard'.asks \subseteq [kind : {"ready", "incomplete", "never-run"}, live : BOOLEAN],
         hist' = [done |-> hist'.done, late |-> hist'.late, seen |-> hist'.seen,
                  bounces |-> hist'.bounces]
  PROVE  Inv'
<1>1. flow' = [step |-> s, intent |-> "none", models |-> FALSE, chosen |-> FALSE,
               err |-> "none", busy |-> FALSE, id |-> i, ran |-> FALSE]
  BY DEF Fresh
<1>2. BusyIsCalled'
  BY <1>1 DEF BusyIsCalled
<1>3. JobPolled'
  BY <1>1 DEF JobPolled, InFlow
<1>4. Shape'
  BY <1>1 DEF Inv, Shape, Jobs, FlowShape
<1>5. QED BY <1>2, <1>3, <1>4 DEF Inv

LEMMA MountedShape ==
  ASSUME Inv, NEW m, NEW outcome, NEW kind \in Known(outcome), NEW asks, asks \subseteq guard.asks,
         NEW g, g = Mounted(m, {Asked(kind)} \cup Gone(asks))
  PROVE  /\ g = [status |-> g.status, asks |-> g.asks] /\ g.status \in {"loading", "ready"}
         /\ m => g.status = "ready"
         /\ g.asks \subseteq [kind : {"ready", "incomplete", "never-run"}, live : BOOLEAN]
         /\ \A a \in g.asks : a.live => a.kind \in Known(outcome)
<1>1. /\ g = [status |-> g.status, asks |-> {Asked(kind)} \cup Gone(asks)]
      /\ g.status = IF m THEN "ready" ELSE "loading"
  BY DEF Mounted
<1>2. PICK a0 : a0 = Asked(kind)
  OBVIOUS
<1>3. a0 \in [kind : {"ready", "incomplete", "never-run"}, live : BOOLEAN] /\ a0.kind = kind
  BY <1>2 DEF Asked, Known
<1>4. ASSUME NEW a \in Gone(asks)
      PROVE  a \in [kind : {"ready", "incomplete", "never-run"}, live : BOOLEAN] /\ ~a.live
  <2>1. PICK b \in asks : a = [b EXCEPT !.live = FALSE]
    BY <1>4 DEF Gone
  <2>2. b \in [kind : {"ready", "incomplete", "never-run"}, live : BOOLEAN]
    BY DEF Inv, Shape
  <2>3. QED BY <2>1, <2>2
<1>5. g.asks = {a0} \cup Gone(asks)
  BY <1>1, <1>2
<1>6. QED BY <1>1, <1>3, <1>4, <1>5

LEMMA GoneShape ==
  ASSUME Inv, NEW asks, asks \subseteq guard.asks, NEW a \in Gone(asks)
  PROVE  a \in [kind : {"ready", "incomplete", "never-run"}, live : BOOLEAN] /\ ~a.live
<1>1. PICK b \in asks : a = [b EXCEPT !.live = FALSE]
  BY DEF Gone
<1>2. b \in [kind : {"ready", "incomplete", "never-run"}, live : BOOLEAN]
  BY DEF Inv, Shape
<1>3. QED BY <1>1, <1>2

LEMMA OngoingShape ==
  ASSUME Inv
  PROVE  Ongoing \in [Kinds -> Nat]
BY DEF Inv, Shape, Ongoing

LEMMA GuardedStep ==
  ASSUME Inv, NEW status \in {"loading", "ready", "incomplete", "never-run"},
         NEW asks, asks \subseteq guard.asks, Guarded(status, asks), srv' = srv,
         status = "loading" => guard.status = "loading",
         status = "never-run" /\ mirror' => guard.status = "loading"
  PROVE  Inv'
<1>1. CASE status # "never-run"
  <2>1. /\ guard' = [status |-> status, asks |-> asks]
        /\ page' = page /\ flow' = flow /\ ticking' = ticking /\ calls' = calls /\ hist' = hist
    BY <1>1 DEF Guarded
  <2>2. BusyIsCalled' /\ JobPolled' /\ OutcomeStored'
    BY <2>1 DEF Inv, BusyIsCalled, JobPolled, InFlow, OutcomeStored
  <2>3. BouncedOnce'
    BY <2>1 DEF Inv, BouncedOnce
  <2>4. FinishedStays'
    BY <2>1 DEF Inv, FinishedStays
  <2>5. Shape'
    BY <1>1, <2>1 DEF Inv, Shape, Jobs, FlowShape
  <2>6. QED BY <2>2, <2>3, <2>4, <2>5 DEF Inv
<1>2. CASE status = "never-run" /\ mirror'
  <2>1. /\ page' = "home" /\ flow' = Fresh("welcome", 0) /\ calls' = Ongoing
        /\ hist' = [hist EXCEPT !.bounces = @ + 1]
    BY <1>2 DEF Guarded
  <2>2. PICK kind \in Known(srv.outcome) : guard' = Mounted(TRUE, {Asked(kind)} \cup Gone(asks))
    BY <1>2 DEF Guarded
  <2>3. /\ guard' = [status |-> guard'.status, asks |-> guard'.asks] /\ guard'.status = "ready"
        /\ guard'.asks \subseteq [kind : {"ready", "incomplete", "never-run"}, live : BOOLEAN]
        /\ \A a \in guard'.asks : a.live => a.kind \in Known(srv.outcome)
    BY <2>2, MountedShape
  <2>4. hist.bounces = 0
    BY <1>2 DEF Inv, BouncedOnce
  <2>5. hist' = [done |-> hist.done, late |-> hist.late, seen |-> hist.seen, bounces |-> 1]
    BY <2>1, <2>4 DEF Inv, Shape
  <2>6. BouncedOnce' /\ OutcomeStored'
    BY <2>1, <2>3, <2>5 DEF Inv, BouncedOnce, OutcomeStored
  <2>7. FinishedStays'
    BY <2>3, <2>5 DEF Inv, OutcomeStored, FinishedStays, Known
  <2>8. srv' = [jobs |-> srv.jobs, outcome |-> srv'.outcome]
    BY DEF Inv, Shape
  <2>9. hist' = [done |-> hist'.done, late |-> hist'.late, seen |-> hist'.seen,
                 bounces |-> hist'.bounces]
    BY <2>5
  <2>10. QED BY <2>1, <2>3, <2>6, <2>7, <2>8, <2>9, OngoingShape, FreshStep
<1>3. CASE status = "never-run" /\ ~mirror'
  <2>1. /\ page' = "wizard" /\ guard' = [status |-> "loading", asks |-> Gone(asks)]
        /\ hist' = [hist EXCEPT !.bounces = 0] /\ calls' = Ongoing
        /\ Running = {} => flow' = Fresh("welcome", 0)
        /\ Running # {} => ticking' /\ flow' = Fresh("installing", CHOOSE j \in Running : TRUE)
    BY <1>3 DEF Guarded
  <2>2. hist' = [done |-> hist.done, late |-> hist.late, seen |-> hist.seen, bounces |-> 0]
    BY <2>1 DEF Inv, Shape
  <2>3. PICK s, i : /\ flow' = Fresh(s, i)
                    /\ s = "installing" => i # 0
                    /\ i # 0 => ticking'
    <3>1. CASE Running = {}
      BY <2>1, <3>1
    <3>2. CASE Running # {}
      <4>1. PICK j : j = CHOOSE r \in Running : TRUE
        OBVIOUS
      <4>2. j \in Running
        BY <3>2, <4>1
      <4>3. j # 0
        BY <4>2 DEF Running, Inv, Shape
      <4>4. QED BY <2>1, <3>2, <4>1, <4>3
    <3>3. QED BY <3>1, <3>2
  <2>4. \A a \in guard'.asks :
          a \in [kind : {"ready", "incomplete", "never-run"}, live : BOOLEAN] /\ ~a.live
    BY <2>1, GoneShape
  <2>5. BouncedOnce' /\ OutcomeStored' /\ FinishedStays'
    BY <2>1, <2>2, <2>4 DEF Inv, BouncedOnce, OutcomeStored, FinishedStays
  <2>6. /\ guard' = [status |-> guard'.status, asks |-> guard'.asks] /\ guard'.status = "loading"
        /\ hist' = [done |-> hist'.done, late |-> hist'.late, seen |-> hist'.seen,
                    bounces |-> hist'.bounces]
        /\ srv' = [jobs |-> srv.jobs, outcome |-> srv'.outcome]
    BY <2>1, <2>2 DEF Inv, Shape
  <2>7. QED BY <2>1, <2>3, <2>4, <2>5, <2>6, OngoingShape, FreshStep
<1>4. QED BY <1>1, <1>2, <1>3

LEMMA SetupStep ==
  ASSUME Inv, [Next]_vars
  PROVE  Inv'
<1> DEFINE Acts == {"auto", "start", "use", "gguf"}
<1>1. /\ FlowShape(flow) /\ calls \in [Kinds -> Nat] /\ Acts \subseteq Kinds
      /\ {"load", "bench", "cancel", "mark"} \subseteq Kinds
  BY DEF Inv, Shape, Kinds
<1>2. CASE SetMeUp
  <2>1. PICK f : f = [flow EXCEPT !.intent = "set-me-up", !.step = "loading"]
    OBVIOUS
  <2>2. FlowShape(f) /\ f.step = "loading" /\ f.busy = flow.busy /\ f.id = flow.id
    BY <1>1, <2>1 DEF FlowShape
  <2>3. QED BY <1>2, <2>1, <2>2, StepsKeep DEF SetMeUp
<1>3. CASE Advanced
  <2>1. PICK f, g : /\ f = [flow EXCEPT !.intent = "ollama", !.step = "loading"]
                    /\ g = [Reset(flow) EXCEPT !.intent = "gguf", !.step = "loading"]
    OBVIOUS
  <2>2. FlowShape(f) /\ f.step = "loading" /\ f.busy = flow.busy /\ f.id = flow.id
    BY <1>1, <2>1 DEF FlowShape
  <2>3. FlowShape(g) /\ g.step = "loading" /\ ~g.busy /\ g.id = flow.id
    BY <1>1, <2>1 DEF FlowShape, Reset
  <2>4. (Steps(f) \/ Steps(g)) /\ Quiet
    BY <1>3, <2>1 DEF Advanced
  <2>5. QED BY <2>2, <2>3, <2>4, StepsKeep
<1>4. CASE Click
  <2>1. Quiet
    BY <1>4 DEF Click
  <2>2. ASSUME NEW s, s # "installing", Steps([flow EXCEPT !.step = s]) PROVE Inv'
    <3>1. PICK f : f = [flow EXCEPT !.step = s]
      OBVIOUS
    <3>2. FlowShape(f) /\ f.step = s /\ f.busy = flow.busy /\ f.id = flow.id
      BY <1>1, <3>1 DEF FlowShape
    <3>3. QED BY <2>1, <2>2, <3>1, <3>2, StepsKeep
  <2>3. ASSUME NEW s, s # "installing", Steps([Reset(flow) EXCEPT !.step = s]) PROVE Inv'
    <3>1. PICK f : f = [Reset(flow) EXCEPT !.step = s]
      OBVIOUS
    <3>2. FlowShape(f) /\ f.step = s /\ ~f.busy /\ f.id = flow.id
      BY <1>1, <3>1 DEF FlowShape, Reset
    <3>3. QED BY <2>1, <2>3, <3>1, <3>2, StepsKeep
  <2>4. ASSUME NEW s, s # "installing", NEW chosen,
               Steps([Reset(flow) EXCEPT !.chosen = chosen, !.step = s])
        PROVE  Inv'
    <3>1. PICK f : f = [Reset(flow) EXCEPT !.chosen = chosen, !.step = s]
      OBVIOUS
    <3>2. FlowShape(f) /\ f.step = s /\ ~f.busy /\ f.id = flow.id
      BY <1>1, <3>1 DEF FlowShape, Reset
    <3>3. QED BY <2>1, <2>4, <3>1, <3>2, StepsKeep
  <2>5. \/ Steps([flow EXCEPT !.step = "loading"]) \/ Steps([flow EXCEPT !.step = "welcome"])
        \/ Steps([flow EXCEPT !.step = "choose"])
        \/ Steps([Reset(flow) EXCEPT !.chosen = TRUE, !.step = "confirm-install"])
        \/ \E s \in {"ollama-select", "gguf-path"} : Steps([Reset(flow) EXCEPT !.step = s])
        \/ Steps([Reset(flow) EXCEPT !.chosen = FALSE, !.step = "choose"])
        \/ Steps([Reset(flow) EXCEPT !.step = "choose"])
    BY <1>4 DEF Click
  <2>6. QED BY <2>2, <2>3, <2>4, <2>5
<1>5. CASE Confirm \/ UseOllama \/ UseGguf
  <2>1. PICK k \in Acts : Call(k, flow)
    BY <1>5 DEF Confirm, UseOllama, UseGguf
  <2>2. QED BY <1>1, <2>1, CallStep
<1>6. CASE Retry
  <2>1. PICK f, g, h : /\ f = [Reset(flow) EXCEPT !.step = "confirm-install"]
                       /\ g = Reset(flow)
                       /\ h = [Reset(flow) EXCEPT !.step = "loading"]
    OBVIOUS
  <2>2. FlowShape(f) /\ f.step = "confirm-install" /\ ~f.busy /\ f.id = flow.id
    BY <1>1, <2>1 DEF FlowShape, Reset
  <2>3. FlowShape(g) /\ g.step = flow.step /\ g.id = flow.id
    BY <1>1, <2>1 DEF FlowShape, Reset
  <2>4. FlowShape(h) /\ h.step = "loading" /\ ~h.busy /\ h.id = flow.id
    BY <1>1, <2>1 DEF FlowShape, Reset
  <2>5. (Steps(f) /\ Quiet) \/ Call("start", g) \/ (Steps(h) /\ Quiet)
    <3>1. \/ Steps([Reset(flow) EXCEPT !.step = "confirm-install"]) /\ Quiet
          \/ Call("start", Reset(flow))
          \/ Steps([Reset(flow) EXCEPT !.step = "loading"]) /\ Quiet
      BY <1>6 DEF Retry
    <3>2. QED BY <2>1, <3>1
  <2>6. QED BY <2>2, <2>3, <2>4, <2>5, StepsKeep, CallStep
<1>7. CASE Cancel \/ FinishBenchmark
  <2>1. PICK k \in {"cancel", "mark"} : calls' = More(calls, k)
    BY <1>7 DEF Cancel, FinishBenchmark
  <2>2. calls' \in [Kinds -> Nat] /\ \A j \in Kinds : calls'[j] >= calls[j]
    BY <1>1, <2>1, MoreCalls
  <2>3. /\ flow' = flow /\ page' = page /\ guard' = guard /\ hist' = hist /\ ticking' = ticking
        /\ srv' = srv
    BY <1>7 DEF Cancel, FinishBenchmark, Quiet
  <2>4. srv' = [jobs |-> srv'.jobs, outcome |-> srv.outcome] /\ DOMAIN srv'.jobs \subseteq Nat \ {0}
    BY <2>3 DEF Inv, Shape, Jobs
  <2>5. \A j \in Acts : calls'[j] >= calls[j]
    BY <1>1, <2>2
  <2>6. QED BY <2>2, <2>3, <2>4, <2>5, AsideStep
<1>8. CASE OpenManager \/ LeaveManager
  <2>1. Ongoing \in [Kinds -> Nat]
    BY OngoingShape
  <2>2. calls' \in [Kinds -> Nat]
    BY <1>1, <1>8, <2>1, MoreCalls DEF OpenManager, LeaveManager
  <2>3. PICK s \in {"loading", "welcome"} : flow' = Fresh(s, 0)
    BY <1>8 DEF OpenManager, LeaveManager
  <2>4. guard' = guard /\ srv' = srv /\ hist' = hist /\ page' \in {"manager", "home"}
    BY <1>8 DEF OpenManager, LeaveManager
  <2>5. BouncedOnce' /\ OutcomeStored' /\ FinishedStays'
    BY <2>4 DEF Inv, BouncedOnce, OutcomeStored, FinishedStays
  <2>6. /\ srv' = [jobs |-> srv.jobs, outcome |-> srv'.outcome]
        /\ guard' = [status |-> guard'.status, asks |-> guard'.asks]
        /\ guard'.status \in {"loading", "ready", "incomplete"}
        /\ guard'.asks \subseteq [kind : {"ready", "incomplete", "never-run"}, live : BOOLEAN]
        /\ hist' = [done |-> hist'.done, late |-> hist'.late, seen |-> hist'.seen,
                    bounces |-> hist'.bounces]
    BY <2>4 DEF Inv, Shape
  <2>7. QED BY <2>2, <2>3, <2>5, <2>6, FreshStep
<1>9. CASE LoadAnswered
  <2> DEFINE m == [flow EXCEPT !.models = TRUE]
  <2>1. calls["load"] > 0
    BY <1>9 DEF LoadAnswered
  <2>2. Less("load") \in [Kinds -> Nat] /\ \A j \in Acts : Less("load")[j] = calls[j]
    BY <1>1, <2>1, LessCalls DEF Inv
  <2>3. flow.busy => \E k \in Acts : Less("load")[k] > 0
    BY <2>2 DEF Inv, BusyIsCalled
  <2>4. ASSUME NEW f, FlowShape(f), f.busy = flow.busy, f.id = flow.id, f.step # "installing",
               Rendered(f, shot, FALSE, Less("load")), Quiet
        PROVE  Inv'
    BY <2>2, <2>3, <2>4, QuietStep
  <2>5. CASE Rendered([flow EXCEPT !.step = "load-error"], shot, FALSE, Less("load")) /\ Quiet
    <3>1. PICK f : f = [flow EXCEPT !.step = "load-error"]
      OBVIOUS
    <3>2. FlowShape(f) /\ f.busy = flow.busy /\ f.id = flow.id /\ f.step = "load-error"
      BY <1>1, <3>1 DEF FlowShape
    <3>3. QED BY <2>4, <2>5, <3>1, <3>2
  <2>6. CASE Rendered([m EXCEPT !.step = "preflight"], shot, FALSE, Less("load")) /\ Quiet
    <3>1. PICK f : f = [m EXCEPT !.step = "preflight"]
      OBVIOUS
    <3>2. FlowShape(f) /\ f.busy = flow.busy /\ f.id = flow.id /\ f.step = "preflight"
      BY <1>1, <3>1 DEF FlowShape
    <3>3. QED BY <2>4, <2>6, <3>1, <3>2
  <2>7. CASE Rendered(Routed(m), shot, FALSE, Less("load")) /\ Quiet
    <3>1. PICK s : /\ s = CASE m.intent = "ollama" -> "ollama-select"
                            [] m.intent = "gguf" -> "gguf-path"
                            [] OTHER -> "choose"
                   /\ s # "installing"
      OBVIOUS
    <3>2. PICK f : f = [m EXCEPT !.step = s, !.intent = "none"]
      OBVIOUS
    <3>3. f = Routed(m)
      BY <3>1, <3>2 DEF Routed
    <3>4. FlowShape(f) /\ f.busy = flow.busy /\ f.id = flow.id /\ f.step = s
      BY <1>1, <3>2 DEF FlowShape
    <3>5. QED BY <2>4, <2>7, <3>1, <3>3, <3>4
  <2>8. CASE /\ Rendered(Recommended(m), shot, FALSE, More(Less("load"), "auto")) /\ Quiet
             /\ m.intent = "set-me-up"
    <3>1. PICK f : f = Recommended(m)
      OBVIOUS
    <3>2. FlowShape(f) /\ f.id = flow.id /\ f.step = flow.step
      BY <1>1, <3>1 DEF FlowShape, Recommended
    <3>3. More(Less("load"), "auto") \in [Kinds -> Nat] /\ More(Less("load"), "auto")["auto"] > 0
      BY <1>1, <2>2, MoreCalls
    <3>4. QED BY <2>8, <3>1, <3>2, <3>3, QuietStep
  <2>9. QED BY <1>9, <2>5, <2>6, <2>7, <2>8 DEF LoadAnswered
<1>10. CASE StartAnswered
  <2>1. PICK k \in {"auto", "start"} :
          /\ InFlow /\ calls[k] > 0
          /\ \/ \E s, j : /\ j \in 1..MaxJobs /\ Joined(s, j) /\ srv' = s
                          /\ Rendered([flow EXCEPT !.id = j, !.step = "installing", !.busy = FALSE],
                                      shot, FALSE, Less(k))
                          /\ ticking' = (ticking \/ flow.id # j)
                          /\ UNCHANGED <<page, shot, polls, guard, hist>>
             \/ /\ Rendered([flow EXCEPT !.err = "request", !.busy = FALSE,
                                 !.step = IF k = "auto" THEN "confirm-install" ELSE @],
                            shot, FALSE, Less(k))
                /\ Quiet
    BY <1>10, Zenon DEF StartAnswered
  <2>2. Less(k) \in [Kinds -> Nat]
    BY <1>1, <2>1, LessCalls DEF Inv
  <2>3. ASSUME NEW s, NEW j \in 1..MaxJobs, Joined(s, j), srv' = s,
               Rendered([flow EXCEPT !.id = j, !.step = "installing", !.busy = FALSE],
                        shot, FALSE, Less(k)),
               ticking' = (ticking \/ flow.id # j), UNCHANGED <<page, shot, polls, guard, hist>>
        PROVE  Inv'
    <3>1. PICK f : f = [flow EXCEPT !.id = j, !.step = "installing", !.busy = FALSE]
      OBVIOUS
    <3>2. FlowShape(f) /\ f.id = j /\ f.step = "installing" /\ ~f.busy /\ j # 0
      <4>1. j # 0
        BY SetupAssumption
      <4>2. QED BY <1>1, <3>1, <4>1 DEF FlowShape
    <3>3. InFlow /\ f.id # 0 /\ ~hist'.late => ticking' \/ hist'.seen = f.id
      BY <2>3, <3>2 DEF Inv, JobPolled
    <3>4. srv' = [jobs |-> srv'.jobs, outcome |-> srv.outcome] /\ DOMAIN srv'.jobs \subseteq Nat \ {0}
      <4>1. CASE s = srv
        BY <2>3, <4>1 DEF Inv, Shape, Jobs
      <4>2. CASE s = [srv EXCEPT !.jobs = [i \in 1..j |-> IF i = j THEN "running" ELSE srv.jobs[i]]]
        <5>1. srv' = [jobs |-> [i \in 1..j |-> IF i = j THEN "running" ELSE srv.jobs[i]],
                      outcome |-> srv.outcome]
          BY <2>3, <4>2 DEF Inv, Shape
        <5>2. QED BY <5>1
      <4>3. QED BY <2>3, <4>1, <4>2 DEF Joined
    <3>5. hist' = [done |-> hist.done, late |-> hist'.late, seen |-> hist'.seen,
                   bounces |-> hist.bounces] /\ page' = page /\ guard' = guard
      BY <2>3 DEF Inv, Shape
    <3>6. Rendered(f, shot, FALSE, Less(k))
      BY <2>3, <3>1
    <3>7. QED BY <2>2, <3>2, <3>3, <3>4, <3>5, <3>6, RenderedStep
  <2>4. CASE /\ Rendered([flow EXCEPT !.err = "request", !.busy = FALSE,
                              !.step = IF k = "auto" THEN "confirm-install" ELSE @],
                         shot, FALSE, Less(k))
             /\ Quiet
    <3>1. PICK s : s = IF k = "auto" THEN "confirm-install" ELSE flow.step
      OBVIOUS
    <3>2. PICK f : f = [flow EXCEPT !.err = "request", !.busy = FALSE, !.step = s]
      OBVIOUS
    <3>3. FlowShape(f) /\ f.id = flow.id /\ f.step = s /\ ~f.busy
      BY <1>1, <3>2 DEF FlowShape
    <3>4. f = [flow EXCEPT !.err = "request", !.busy = FALSE,
                           !.step = IF k = "auto" THEN "confirm-install" ELSE @]
      BY <3>1, <3>2
    <3>5. Rendered(f, shot, FALSE, Less(k)) /\ Quiet
      BY <2>4, <3>4
    <3>6. s = "installing" => flow.step = "installing"
      BY <3>1
    <3>7. QED BY <2>2, <3>3, <3>5, <3>6, QuietStep
  <2>5. QED BY <2>1, <2>3, <2>4
<1>11. CASE UseAnswered
  <2>1. PICK k \in {"use", "gguf"} :
          /\ InFlow /\ calls[k] > 0 /\ Quiet
          /\ \/ Rendered([flow EXCEPT !.step = "benchmark", !.busy = FALSE, !.ran = FALSE],
                         shot, FALSE, Less(k))
             \/ Rendered(Refused(flow), shot, FALSE, Less(k))
    BY <1>11 DEF UseAnswered
  <2>2. Less(k) \in [Kinds -> Nat]
    BY <1>1, <2>1, LessCalls DEF Inv
  <2>3. PICK f, g : /\ f = [flow EXCEPT !.step = "benchmark", !.busy = FALSE, !.ran = FALSE]
                    /\ g = Refused(flow)
    OBVIOUS
  <2>4. FlowShape(f) /\ f.step = "benchmark" /\ ~f.busy /\ f.id = flow.id
    BY <1>1, <2>3 DEF FlowShape
  <2>5. FlowShape(g) /\ g.step = flow.step /\ ~g.busy /\ g.id = flow.id
    BY <1>1, <2>3 DEF FlowShape, Refused
  <2>6. Rendered(f, shot, FALSE, Less(k)) \/ Rendered(g, shot, FALSE, Less(k))
    BY <2>1, <2>3
  <2>7. QED BY <2>1, <2>2, <2>4, <2>5, <2>6, QuietStep
<1>12. CASE BenchAnswered
  <2>1. calls["bench"] > 0 /\ calls' = Less("bench") /\ flow' = flow /\ Quiet
    BY <1>12 DEF BenchAnswered
  <2>2. calls' \in [Kinds -> Nat] /\ \A j \in Acts : calls'[j] >= calls[j]
    BY <1>1, <2>1, LessCalls DEF Inv
  <2>3. /\ page' = page /\ guard' = guard /\ hist' = hist /\ ticking' = ticking
        /\ srv' = [jobs |-> srv'.jobs, outcome |-> srv.outcome]
        /\ DOMAIN srv'.jobs \subseteq Nat \ {0}
    BY <2>1 DEF Quiet, Inv, Shape, Jobs
  <2>4. QED BY <2>1, <2>2, <2>3, AsideStep
<1>13. CASE CancelAnswered
  <2>1. /\ calls["cancel"] > 0 /\ calls' = More(Less("cancel"), "mark")
        /\ page' = page /\ flow' = flow /\ ticking' = ticking /\ guard' = guard /\ hist' = hist
        /\ srv' \in {srv} \cup {[srv EXCEPT !.jobs[j] = "cancelled"] : j \in Running \cap {flow.id}}
    BY <1>13 DEF CancelAnswered
  <2>2. Less("cancel") \in [Kinds -> Nat] /\ \A j \in Acts : Less("cancel")[j] = calls[j]
    BY <1>1, <2>1, LessCalls DEF Inv
  <2>3. calls' \in [Kinds -> Nat] /\ \A j \in Kinds : calls'[j] >= Less("cancel")[j]
    BY <1>1, <2>1, <2>2, MoreCalls
  <2>4. \A j \in Acts : calls'[j] >= calls[j]
    BY <1>1, <2>2, <2>3
  <2>5. srv' = [jobs |-> srv'.jobs, outcome |-> srv.outcome] /\ DOMAIN srv'.jobs \subseteq Nat \ {0}
    BY <2>1 DEF Inv, Shape, Jobs
  <2>6. QED BY <2>1, <2>3, <2>4, <2>5, AsideStep
<1>14. CASE MarkAnswered
  <2>1. PICK stored \in BOOLEAN :
          /\ MarkStored(stored)
          /\ \E kind \in Known(srv'.outcome) :
               guard' = IF page # "wizard" THEN guard
                        ELSE Mounted(mirror, {Asked(kind)} \cup Gone(guard.asks))
          /\ hist' = [hist EXCEPT !.done = @ \/ (page = "wizard" /\ stored)]
    BY <1>14 DEF MarkAnswered
  <2>2. PICK kind \in Known(srv'.outcome) :
          guard' = IF page # "wizard" THEN guard
                   ELSE Mounted(mirror, {Asked(kind)} \cup Gone(guard.asks))
    BY <2>1
  <2>3. page' = "home" /\ flow' = Fresh("welcome", 0) /\ calls' = Ongoing
    BY <1>14, <2>1 DEF MarkAnswered, MarkStored
  <2>4. PICK b, d : b = (srv.outcome \/ stored) /\ d = (hist.done \/ (page = "wizard" /\ stored))
    OBVIOUS
  <2>5. srv' = [jobs |-> srv.jobs, outcome |-> b]
    BY <2>1, <2>4 DEF MarkStored, Inv, Shape
  <2>6. hist' = [done |-> d, late |-> hist.late, seen |-> hist.seen, bounces |-> hist.bounces]
    BY <2>1, <2>4 DEF Inv, Shape
  <2>7. OutcomeStored'
    <3>1. srv'.outcome = b /\ hist'.done = d
      BY <2>5, <2>6
    <3>2. QED BY <2>4, <3>1, Zenon DEF Inv, OutcomeStored
  <2>8. CASE page = "wizard"
    <3>1. /\ guard' = [status |-> guard'.status, asks |-> guard'.asks]
          /\ guard'.status \in {"loading", "ready"}
          /\ guard'.asks \subseteq [kind : {"ready", "incomplete", "never-run"}, live : BOOLEAN]
          /\ \A a \in guard'.asks : a.live => a.kind \in Known(srv'.outcome)
      <4>1. guard' = Mounted(mirror, {Asked(kind)} \cup Gone(guard.asks))
        BY <2>2, <2>8
      <4>2. QED BY <4>1, MountedShape
    <3>2. FinishedStays'
      BY <2>7, <3>1 DEF FinishedStays, OutcomeStored, Known
    <3>3. BouncedOnce'
      BY <2>3, <2>6, <2>8 DEF Inv, BouncedOnce
    <3>4. srv' = [jobs |-> srv.jobs, outcome |-> srv'.outcome]
      BY <2>5
    <3>5. hist' = [done |-> hist'.done, late |-> hist'.late, seen |-> hist'.seen,
                   bounces |-> hist'.bounces]
      BY <2>6
    <3>6. QED BY <2>3, <2>7, <3>1, <3>2, <3>3, <3>4, <3>5, OngoingShape, FreshStep
  <2>9. CASE page # "wizard"
    <3>1. guard' = guard
      BY <2>2, <2>9
    <3>2. d = hist.done \/ (d <=> hist.done)
      BY <2>4, <2>9
    <3>3. FinishedStays'
      BY <2>6, <3>1, <3>2 DEF Inv, FinishedStays
    <3>4. BouncedOnce'
      BY <2>3, <2>6, <3>1 DEF Inv, BouncedOnce
    <3>5. srv' = [jobs |-> srv.jobs, outcome |-> srv'.outcome]
      BY <2>5
    <3>6. /\ hist' = [done |-> hist'.done, late |-> hist'.late, seen |-> hist'.seen,
                      bounces |-> hist'.bounces]
          /\ guard' = [status |-> guard'.status, asks |-> guard'.asks]
          /\ guard'.status \in {"loading", "ready", "incomplete"}
          /\ guard'.asks \subseteq [kind : {"ready", "incomplete", "never-run"}, live : BOOLEAN]
      BY <2>6, <3>1 DEF Inv, Shape
    <3>7. QED BY <2>3, <2>7, <3>3, <3>4, <3>5, <3>6, OngoingShape, FreshStep
  <2>10. QED BY <2>8, <2>9
<1>15. CASE Poll \/ JobEnds
  <2>1. /\ page' = page /\ flow' = flow /\ ticking' = ticking /\ calls' = calls /\ guard' = guard
        /\ hist' = hist
    BY <1>15 DEF Poll, JobEnds
  <2>2. srv' = [jobs |-> srv'.jobs, outcome |-> srv.outcome] /\ DOMAIN srv'.jobs \subseteq Nat \ {0}
    BY <1>15 DEF Poll, JobEnds, Inv, Shape, Jobs
  <2>3. \A k \in Acts : calls'[k] >= calls[k]
    BY <1>1, <2>1
  <2>4. QED BY <1>1, <2>1, <2>2, <2>3, AsideStep
<1>16. CASE PollLost
  <2>1. /\ page' = page /\ flow' = flow /\ ticking' = ticking /\ calls' = calls /\ guard' = guard
        /\ hist' = hist /\ srv' = srv
    BY <1>16 DEF PollLost, AfterLost
  <2>2. srv' = [jobs |-> srv'.jobs, outcome |-> srv.outcome] /\ DOMAIN srv'.jobs \subseteq Nat \ {0}
    BY <2>1 DEF Inv, Shape, Jobs
  <2>3. \A k \in Acts : calls'[k] >= calls[k]
    BY <1>1, <2>1
  <2>4. QED BY <1>1, <2>1, <2>2, <2>3, AsideStep
<1>17. CASE PollAnswered
  <2>1. PICK p \in polls :
          /\ ticking' = (ticking /\ p.status \notin Terminal)
          /\ Rendered(flow, p, TRUE, calls)
          /\ hist' = [hist EXCEPT !.late = @ \/ p.id # flow.id,
                                  !.seen = IF p.status \in Terminal THEN p.id ELSE @]
          /\ page' = page /\ guard' = guard /\ srv' = srv
    BY <1>17 DEF PollAnswered
  <2>2. PICK late, seen : /\ late = (hist.late \/ p.id # flow.id)
                          /\ seen = IF p.status \in Terminal THEN p.id ELSE hist.seen
    OBVIOUS
  <2>3. hist' = [done |-> hist.done, late |-> late, seen |-> seen, bounces |-> hist.bounces]
    BY <2>1, <2>2 DEF Inv, Shape
  <2>4. InFlow /\ flow.id # 0 /\ ~late => ticking' \/ seen = flow.id
    BY <2>1, <2>2 DEF Inv, JobPolled
  <2>5. /\ hist' = [done |-> hist.done, late |-> hist'.late, seen |-> hist'.seen,
                    bounces |-> hist.bounces]
        /\ InFlow /\ flow.id # 0 /\ ~hist'.late => ticking' \/ hist'.seen = flow.id
    BY <2>3, <2>4
  <2>6. srv' = [jobs |-> srv'.jobs, outcome |-> srv.outcome] /\ DOMAIN srv'.jobs \subseteq Nat \ {0}
    BY <2>1 DEF Inv, Shape, Jobs
  <2>7. flow.step = "installing" => flow.id # 0
    BY DEF Inv, JobPolled
  <2>8. flow.busy => \E k \in Acts : calls[k] > 0
    BY DEF Inv, BusyIsCalled
  <2>9. QED BY <1>1, <2>1, <2>5, <2>6, <2>7, <2>8, RenderedStep
<1>18. CASE Focus
  <2>1. PICK kind \in Known(srv.outcome) : guard' = [guard EXCEPT !.asks = @ \cup {Asked(kind)}]
    BY <1>18 DEF Focus
  <2>2. /\ page' = page /\ flow' = flow /\ ticking' = ticking /\ calls' = calls
        /\ srv' = srv /\ hist' = hist
    BY <1>18 DEF Focus
  <2>3. PICK a : a = Asked(kind)
    OBVIOUS
  <2>4. a \in [kind : {"ready", "incomplete", "never-run"}, live : BOOLEAN] /\ a.kind = kind
    BY <2>3 DEF Asked, Known
  <2>5. guard' = [status |-> guard.status, asks |-> guard.asks \cup {a}]
    BY <2>1, <2>3 DEF Inv, Shape
  <2>6. BusyIsCalled' /\ JobPolled' /\ OutcomeStored'
    BY <2>2 DEF Inv, BusyIsCalled, JobPolled, InFlow, OutcomeStored
  <2>7. BouncedOnce'
    BY <2>2, <2>5 DEF Inv, BouncedOnce
  <2>8. FinishedStays'
    BY <2>2, <2>4, <2>5 DEF Inv, FinishedStays, OutcomeStored, Known
  <2>9. Shape'
    BY <2>2, <2>4, <2>5 DEF Inv, Shape, Jobs, FlowShape
  <2>10. QED BY <2>6, <2>7, <2>8, <2>9 DEF Inv
<1>19. CASE GuardAnswered
  <2>1. PICK a \in guard.asks :
          /\ mirror' = MirrorAfter(a.kind) /\ srv' = srv
          /\ Guarded(IF a.live THEN a.kind ELSE guard.status, guard.asks \ {a})
    BY <1>19 DEF GuardAnswered
  <2>2. a.kind \in {"ready", "incomplete", "never-run"}
    BY DEF Inv, Shape
  <2>3. PICK status : status = IF a.live THEN a.kind ELSE guard.status
    OBVIOUS
  <2>4. /\ status \in {"loading", "ready", "incomplete", "never-run"}
        /\ status = "loading" => guard.status = "loading"
        /\ status = "never-run" => a.kind = "never-run"
    BY <2>2, <2>3 DEF Inv, Shape
  <2>5. a.kind = "never-run" => ~mirror'
    BY <2>1 DEF MirrorAfter
  <2>6. Guarded(status, guard.asks \ {a})
    BY <2>1, <2>3
  <2>7. QED BY <2>1, <2>4, <2>5, <2>6, GuardedStep
<1>20. CASE GuardFailed
  <2>1. PICK a \in guard.asks :
          /\ srv' = srv
          /\ Guarded(IF a.live /\ guard.status = "loading" THEN "never-run" ELSE guard.status,
                     guard.asks \ {a})
    BY <1>20 DEF GuardFailed
  <2>2. PICK status :
          status = IF a.live /\ guard.status = "loading" THEN "never-run" ELSE guard.status
    OBVIOUS
  <2>3. /\ status \in {"loading", "ready", "incomplete", "never-run"}
        /\ status = "loading" => guard.status = "loading"
        /\ status = "never-run" => guard.status = "loading"
    BY <2>2 DEF Inv, Shape
  <2>4. Guarded(status, guard.asks \ {a})
    BY <2>1, <2>2
  <2>5. QED BY <2>1, <2>3, <2>4, GuardedStep
<1>21. CASE UNCHANGED vars
  <2>1. /\ page' = page /\ flow' = flow /\ ticking' = ticking /\ calls' = calls /\ guard' = guard
        /\ hist' = hist /\ srv' = srv
    BY <1>21 DEF vars
  <2>2. srv' = [jobs |-> srv'.jobs, outcome |-> srv.outcome] /\ DOMAIN srv'.jobs \subseteq Nat \ {0}
    BY <2>1 DEF Inv, Shape, Jobs
  <2>3. \A k \in Acts : calls'[k] >= calls[k]
    BY <1>1, <2>1
  <2>4. QED BY <1>1, <2>1, <2>2, <2>3, AsideStep
<1>22. QED
  BY <1>2, <1>3, <1>4, <1>5, <1>6, <1>7, <1>8, <1>9, <1>10, <1>11, <1>12, <1>13, <1>14, <1>15,
     <1>16, <1>17, <1>18, <1>19, <1>20, <1>21, Zenon DEF Next

LEMMA SetupHolds ==
  ASSUME Inv
  PROVE  BusyIsCalled /\ PolledUntilDone /\ NoLoop /\ FinishedStays
BY DEF Inv, JobPolled, PolledUntilDone, BouncedOnce, NoLoop

-----------------------------------------------------------------------------
(* The brief *)

\* An instance has a Cardinality of its own.
LEMMA SameCountBrief == \A S : Brief!Cardinality(S) = Cardinality(S)
  BY DEF Brief!Cardinality, Cardinality

\* A list of voices is a sequence of them.
LEMMA ListsOfVoices ==
  ASSUME NEW list \in Brief!Lists
  PROVE  list \in Seq(Voices)
<1>1. PICK S \in SUBSET Voices : list = Brief!SetToSeq(S)
  BY DEF Brief!Lists
<1>2. IsFiniteSet(S)
  BY <1>1, WebAssumption, FS_Subset
<1>3. PICK f \in Bijection(1..Cardinality(S), S) : TRUE
  BY <1>2, FS_CardinalityType DEF ExistsBijection
<1>4. f \in [1..Cardinality(S) -> S] /\ Brief!IsInjective(f)
  BY DEF Bijection, Injection, IsInjective, Brief!IsInjective
<1>5. Brief!SetToSeq(S) \in [1..Cardinality(S) -> S]
  BY <1>4, SameCountBrief DEF Brief!SetToSeq
<1>6. Cardinality(S) \in Nat
  BY <1>2, FS_CardinalityType
<1>7. QED BY <1>1, <1>5, <1>6

\* The first voice of a list is one of the list.
LEMMA FirstOfList ==
  ASSUME NEW list \in Brief!Lists
  PROVE  /\ Brief!ToSet(list) \subseteq Voices
         /\ Brief!First(list) \in Brief!ToSet(list) \cup {Brief!None}
<1>1. list \in Seq(Voices)
  BY ListsOfVoices
<1>2. QED BY <1>1 DEF Brief!ToSet, Brief!First

LEMMA BriefInit == Brief!Init => Brief!Inv
<1> SUFFICES ASSUME Brief!Init PROVE Brief!Inv
  OBVIOUS
<1> USE DEF Brief!Init, Brief!Fresh, Brief!NotLoaded, Brief!Blank, Brief!None
<1>1. Brief!Typed
  BY DEF Brief!Typed, Brief!Forms
<1>2. Brief!FormFits /\ Brief!PreferredIsUsed
  BY DEF Brief!FormFits, Brief!OnForm, Brief!PreferredIsUsed
<1>3. Brief!Unloaded /\ Brief!OneMade /\ Brief!OfferedVoice
  BY DEF Brief!Unloaded, Brief!OneMade, Brief!OfferedVoice
<1>4. QED BY <1>1, <1>2, <1>3 DEF Brief!Inv

\* The defaults give a form what the page has loaded.
LEMMA DefaultsFit ==
  ASSUME NEW f \in Brief!Forms, NEW l \in Brief!Loads, mirror \in Voices \cup {Brief!None}
  PROVE  LET d == Brief!Defaults(f, l) IN
         /\ d \in Brief!Forms
         /\ d.tts => l.tts
         /\ d.meters => l.meters
         /\ d.voice = Brief!DefaultVoice(f.voice, l.voices)
         /\ d.voice \in Brief!ToSet(l.voices) \cup {Brief!None}
<1>1. l.voices \in Brief!Lists /\ l.tts \in BOOLEAN /\ l.meters \in BOOLEAN
      /\ l.voiced \in BOOLEAN /\ l.stt \in BOOLEAN
  BY DEF Brief!Loads
<1>2. Brief!ToSet(l.voices) \subseteq Voices
      /\ Brief!First(l.voices) \in Brief!ToSet(l.voices) \cup {Brief!None}
  BY <1>1, FirstOfList
<1>3. Brief!DefaultVoice(f.voice, l.voices) \in Brief!ToSet(l.voices) \cup {Brief!None}
  BY <1>2 DEF Brief!DefaultVoice
<1>4. QED BY <1>1, <1>2, <1>3 DEF Brief!Defaults, Brief!Forms

LEMMA BriefStep == Brief!Inv /\ Brief!Next => Brief!Inv'
<1> SUFFICES ASSUME Brief!Inv, Brief!Next PROVE Brief!Inv'
  OBVIOUS
<1> USE DEF Brief!Inv
<1>1. CASE Brief!OpenBrief
  <2> USE <1>1 DEF Brief!OpenBrief, Brief!Fresh, Brief!NotLoaded, Brief!Blank, Brief!None
  <2>1. Brief!Typed'
    BY DEF Brief!Typed, Brief!Forms
  <2>2. Brief!FormFits' /\ Brief!PreferredIsUsed'
    BY DEF Brief!FormFits, Brief!OnForm, Brief!PreferredIsUsed
  <2>3. Brief!Unloaded' /\ Brief!OneMade' /\ Brief!OfferedVoice'
    BY DEF Brief!Unloaded, Brief!OneMade, Brief!OfferedVoice
  <2>4. QED BY <2>1, <2>2, <2>3
<1>2. CASE Brief!Loaded
  <2> USE DEF Brief!Loaded
  <2>1. PICK l \in Brief!Loads :
          /\ shot' = [meters |-> l.meters, llm |-> l.llm, stt |-> l.stt, tts |-> l.tts,
                      voices |-> l.voices, loaded |-> TRUE]
          /\ flow' = Brief!Defaults(flow, l)
    BY <1>2
  <2>2. /\ flow' \in Brief!Forms /\ (flow'.tts => l.tts) /\ (flow'.meters => l.meters)
        /\ flow'.voice = Brief!DefaultVoice(flow.voice, l.voices)
        /\ flow'.voice \in Brief!ToSet(l.voices) \cup {Brief!None}
    BY <2>1, DefaultsFit DEF Brief!Typed
  <2>3. shot' \in Brief!Shown /\ shot' # Brief!NotLoaded
    BY <2>1 DEF Brief!Shown, Brief!Loads, Brief!NotLoaded
  <2>4. Brief!Typed'
    BY <1>2, <2>2, <2>3 DEF Brief!Typed
  <2>5. Brief!FormFits'
    BY <2>1, <2>2 DEF Brief!FormFits
  <2>6. Brief!PreferredIsUsed'
    BY <1>2, <2>1, <2>2 DEF Brief!PreferredIsUsed, Brief!Preferred, Brief!DefaultVoice, Brief!Unloaded
  <2>7. Brief!Unloaded' /\ Brief!OneMade' /\ Brief!OfferedVoice'
    BY <1>2, <2>3 DEF Brief!Unloaded, Brief!OneMade, Brief!OfferedVoice
  <2>8. QED BY <2>4, <2>5, <2>6, <2>7
<1>3. ASSUME NEW f \in Brief!Forms, Brief!Set(f),
             f.tts => shot.tts, f.meters => shot.meters,
             f.voice \in Brief!ToSet(shot.voices) \cup {Brief!None}
      PROVE  Brief!Inv'
  <2> USE <1>3 DEF Brief!Set
  <2>1. Brief!Typed'
    BY DEF Brief!Typed
  <2>2. Brief!FormFits' /\ Brief!PreferredIsUsed'
    BY DEF Brief!FormFits, Brief!PreferredIsUsed, Brief!Typed
  <2>3. Brief!Unloaded' /\ Brief!OneMade' /\ Brief!OfferedVoice'
    BY DEF Brief!Unloaded, Brief!OneMade, Brief!OfferedVoice, Brief!OnForm, Brief!NotLoaded
  <2>4. QED BY <2>1, <2>2, <2>3
<1>4. CASE \/ Brief!TypeName \/ Brief!PickInput \/ Brief!ToggleVoice \/ Brief!PickVoice
           \/ Brief!ToggleMeters \/ Brief!PickSeed \/ Brief!PickRest
  <2>1. Brief!OnForm /\ flow \in Brief!Forms /\ Brief!FormFits
    BY <1>4 DEF Brief!TypeName, Brief!PickInput, Brief!ToggleVoice, Brief!PickVoice, Brief!ToggleMeters,
                Brief!PickSeed, Brief!PickRest, Brief!Set, Brief!Typed
  <2>2. shot \in Brief!Shown
    BY <2>1 DEF Brief!OnForm, Brief!NotLoaded, Brief!Typed
  <2>3. Brief!ToSet(shot.voices) \subseteq Voices
    BY <2>2, FirstOfList DEF Brief!Shown
  <2>4. PICK f \in Brief!Forms :
          /\ Brief!Set(f)
          /\ f.tts => shot.tts
          /\ f.meters => shot.meters
          /\ f.voice \in Brief!ToSet(shot.voices) \cup {Brief!None}
    <3> USE <2>1, <2>2, <2>3 DEF Brief!FormFits, Brief!Forms
    <3>1. CASE Brief!TypeName
      BY <3>1 DEF Brief!TypeName
    <3>2. CASE Brief!PickInput
      BY <3>2 DEF Brief!PickInput
    <3>3. CASE Brief!ToggleVoice
      <4> DEFINE f == [flow EXCEPT !.tts = ~@]
      <4>1. f \in Brief!Forms /\ f.meters = flow.meters /\ f.voice = flow.voice
        OBVIOUS
      <4>2. shot.tts /\ Brief!Set(f)
        BY <3>3 DEF Brief!ToggleVoice
      <4>3. QED BY <4>1, <4>2
    <3>4. CASE Brief!PickVoice
      BY <3>4 DEF Brief!PickVoice
    <3>5. CASE Brief!ToggleMeters
      <4> DEFINE f == [flow EXCEPT !.meters = ~@]
      <4>1. f \in Brief!Forms /\ f.tts = flow.tts /\ f.voice = flow.voice
        OBVIOUS
      <4>2. shot.meters /\ Brief!Set(f)
        BY <3>5 DEF Brief!ToggleMeters
      <4>3. QED BY <4>1, <4>2
    <3>6. CASE Brief!PickSeed
      BY <3>6 DEF Brief!PickSeed
    <3>7. CASE Brief!PickRest
      BY <3>7 DEF Brief!PickRest
    <3>8. QED BY <1>4, <3>1, <3>2, <3>3, <3>4, <3>5, <3>6, <3>7
  <2>5. QED BY <1>3, <2>4
<1>5. CASE Brief!Start
  <2>1. flow.voice \in Brief!ToSet(shot.voices) \cup {Brief!None}
    BY <1>5 DEF Brief!Start, Brief!CanStart, Brief!FormFits
  <2>2. Brief!OnForm /\ calls = {} /\ UNCHANGED <<page, mirror, shot, flow, guard>>
    BY <1>5 DEF Brief!Start, Brief!CanStart
  <2> DEFINE n == hist.pressed + 1
             made(done) == IF done THEN hist.made \cup {[n |-> n, fits |-> TRUE]} ELSE hist.made
  <2>3. PICK done \in BOOLEAN :
          /\ calls' = {[n |-> n, done |-> done]}
          /\ hist' = [hist EXCEPT !.pressed = n, !.made = made(done)]
    BY <1>5, <2>1 DEF Brief!Start, Brief!CanStart
  <2>4. hist.made \in SUBSET [n : Nat, fits : BOOLEAN] /\ n \in Nat
    BY DEF Brief!Typed
  <2>5. made(done) \in SUBSET [n : Nat, fits : BOOLEAN]
    <3> DEFINE m == [n |-> n, fits |-> TRUE]
    <3>1. m \in [n : Nat, fits : BOOLEAN]
      BY <2>4
    <3> HIDE DEF m
    <3>2. hist.made \cup {m} \in SUBSET [n : Nat, fits : BOOLEAN]
      BY <2>4, <3>1
    <3>3. QED BY <2>4, <3>2 DEF m
  <2>6. /\ \A m \in made(done) : m.fits
        /\ ~hist.refused => \A m, k \in made(done) : m.n = k.n
    BY <2>2 DEF Brief!OfferedVoice, Brief!OneMade, Brief!OnForm
  <2> HIDE DEF made, n
  <2>7. hist'.made = made(done) /\ hist'.touched = hist.touched /\ hist'.refused = hist.refused
    BY <2>3 DEF Brief!Typed
  <2>8. Brief!Typed' /\ Brief!OfferedVoice'
    BY <2>2, <2>3, <2>4, <2>5, <2>6, <2>7 DEF Brief!Typed, Brief!OfferedVoice
  <2>9. Brief!FormFits' /\ Brief!PreferredIsUsed' /\ Brief!Unloaded'
    BY <2>2, <2>7
    DEF Brief!FormFits, Brief!PreferredIsUsed, Brief!Preferred, Brief!Unloaded, Brief!OnForm
  <2>10. Brief!OneMade'
    <3>1. calls' # {}
      BY <2>3
    <3>2. ~hist'.refused => \A m, k \in hist'.made : m.n = k.n
      BY <2>6, <2>7, Zenon
    <3>3. QED BY <3>1, <3>2, Zenon DEF Brief!OneMade
  <2>11. QED BY <2>8, <2>9, <2>10
<1>6. CASE Brief!StartAnswered
  <2> USE DEF Brief!StartAnswered
  <2>1. PICK s \in calls : calls' = calls \ {s} /\ UNCHANGED <<mirror, guard>>
    BY <1>6
  <2>2. CASE page' = "conversation" /\ Brief!Unmounted /\ UNCHANGED hist
    <3> USE <2>1, <2>2 DEF Brief!Unmounted, Brief!NotLoaded, Brief!Blank, Brief!None
    <3>1. Brief!Typed'
      BY DEF Brief!Typed, Brief!Forms
    <3>2. Brief!FormFits' /\ Brief!PreferredIsUsed'
      BY DEF Brief!FormFits, Brief!OnForm, Brief!PreferredIsUsed
    <3>3. Brief!Unloaded' /\ Brief!OneMade' /\ Brief!OfferedVoice'
      BY DEF Brief!Unloaded, Brief!OneMade, Brief!OfferedVoice
    <3>4. QED BY <3>1, <3>2, <3>3
  <2>3. CASE hist' = [hist EXCEPT !.refused = TRUE] /\ UNCHANGED <<page, shot, flow>>
    <3>1. Brief!Typed' /\ Brief!OfferedVoice'
      BY <2>1, <2>3 DEF Brief!Typed, Brief!OfferedVoice
    <3>a. hist'.touched = hist.touched
      BY <2>3 DEF Brief!Typed
    <3>2. Brief!FormFits' /\ Brief!PreferredIsUsed' /\ Brief!Unloaded'
      BY <2>1, <2>3, <3>a
      DEF Brief!FormFits, Brief!PreferredIsUsed, Brief!Preferred, Brief!Unloaded, Brief!OnForm
    <3>3. Brief!OneMade'
      BY <2>3 DEF Brief!OneMade, Brief!Typed
    <3>4. QED BY <3>1, <3>2, <3>3
  <2>4. QED BY <1>6, <2>2, <2>3
<1>7. CASE Brief!Back
  <2> USE <1>7 DEF Brief!Back, Brief!Unmounted, Brief!NotLoaded, Brief!Blank, Brief!None
  <2>1. Brief!Typed'
    BY DEF Brief!Typed, Brief!Forms
  <2>2. Brief!FormFits' /\ Brief!PreferredIsUsed'
    BY DEF Brief!FormFits, Brief!OnForm, Brief!PreferredIsUsed
  <2>3. Brief!Unloaded' /\ Brief!OneMade' /\ Brief!OfferedVoice'
    BY DEF Brief!Unloaded, Brief!OneMade, Brief!OfferedVoice
  <2>4. QED BY <2>1, <2>2, <2>3
<1>8. CASE Brief!OpenSettings \/ Brief!VoicesListed \/ Brief!PreferVoice
  <2>1. /\ page' # "brief" /\ UNCHANGED <<shot, flow, hist>>
        /\ mirror' \in Voices \cup {Brief!None} /\ guard' \in Voices \cup {Brief!None}
    <3>1. CASE Brief!OpenSettings
      BY <3>1 DEF Brief!OpenSettings, Brief!Typed
    <3>2. CASE Brief!VoicesListed
      BY <3>2, FirstOfList DEF Brief!VoicesListed, Brief!Preferred, Brief!Typed
    <3>3. CASE Brief!PreferVoice
      BY <3>3 DEF Brief!PreferVoice, Brief!Typed
    <3>4. QED BY <1>8, <3>1, <3>2, <3>3
  <2>2. Brief!Typed' /\ Brief!OfferedVoice' /\ Brief!OneMade' /\ Brief!Unloaded'
    BY <2>1 DEF Brief!Typed, Brief!OfferedVoice, Brief!OneMade, Brief!Unloaded
  <2>3. Brief!FormFits' /\ Brief!PreferredIsUsed'
    BY <2>1 DEF Brief!FormFits, Brief!PreferredIsUsed, Brief!OnForm
  <2>4. QED BY <2>2, <2>3
<1>9. QED BY <1>1, <1>2, <1>4, <1>5, <1>6, <1>7, <1>8 DEF Brief!Next

\* What the page is known for follows.
LEMMA BriefHolds ==
  Brief!Inv => /\ Brief!OfferedVoice /\ Brief!PreferredIsUsed
               /\ Brief!ErrorsCanBeMended /\ Brief!SecondOnlyAfterFailure
<1> SUFFICES ASSUME Brief!Inv
             PROVE  Brief!ErrorsCanBeMended /\ Brief!SecondOnlyAfterFailure
  BY DEF Brief!Inv
<1>1. Brief!ErrorsCanBeMended
  BY DEF Brief!Inv, Brief!ErrorsCanBeMended, Brief!Errors, Brief!Changeable, Brief!FormFits
<1>2. Brief!SecondOnlyAfterFailure
  BY DEF Brief!Inv, Brief!OneMade, Brief!SecondOnlyAfterFailure, Brief!Typed
<1>3. QED BY <1>1, <1>2

-----------------------------------------------------------------------------
(* The library *)

LEMMA LibraryInit == Library!Init => Library!Inv
<1> SUFFICES ASSUME Library!Init PROVE Library!Inv
  OBVIOUS
<1> USE DEF Library!Init
<1>1. PICK i \in {{}, Packs} :
        /\ srv = [indexed |-> i, subscribed |-> Workshop, inUse |-> {}, broken |-> {}]
        /\ calls = {[k |-> "list", n |-> 0, packs |-> i]}
  OBVIOUS
<1>2. Library!Numbered /\ Library!OneCheck /\ Library!SessionsKeepTheirFiles
  BY <1>1 DEF Library!Numbered, Library!Histories, Library!OneCheck, Library!SessionsKeepTheirFiles
<1>3. Library!WaitingIsAsked /\ Library!Removed
  BY <1>1 DEF Library!WaitingIsAsked, Library!Removed
<1>5. Library!Typed
  <2>1. /\ i \in SUBSET Packs /\ Workshop \in SUBSET Packs
        /\ flow \in [Packs -> {"idle", "loading", "valid", "broken", "error"}]
    BY WebAssumption
  <2>2. \A c \in calls : c.k = "list" /\ c.packs = i
    BY <1>1
  <2>3. QED BY <1>1, <2>1, <2>2 DEF Library!Typed, Library!Servers
<1>4. Library!CatchesUp
  BY <1>1 DEF Library!CatchesUp, Library!LastCall
<1>6. QED BY <1>2, <1>3, <1>4, <1>5 DEF Library!Inv

\* A request that is sent has a number of its own.
LEMMA LibraryNumbers ==
  ASSUME Library!Numbered, NEW c, c.n = hist.sent + 1, calls' \subseteq calls \cup {c},
         hist' \in Library!Histories, hist'.sent = hist.sent + 1, hist'.newest = hist.newest
  PROVE  Library!Numbered'
<1>1. \A d \in calls' : d.n \in 0..hist'.sent
  BY DEF Library!Numbered, Library!Histories
<1>2. \A d, e \in calls' : d.n = e.n => d = e
  BY DEF Library!Numbered, Library!Histories
<1>3. hist'.newest <= hist'.sent
  BY DEF Library!Numbered, Library!Histories
<1>4. QED BY <1>1, <1>2, <1>3 DEF Library!Numbered, Library!Histories

\* What an answer that sends nothing leaves as it is.
LEMMA LibraryFewer ==
  ASSUME Library!Numbered, Library!OneCheck, calls' \subseteq calls, hist' = hist
  PROVE  Library!Numbered' /\ Library!OneCheck'
  BY DEF Library!Numbered, Library!Histories, Library!OneCheck

\* A request that is no validation leaves those alone.
LEMMA LibraryChecks ==
  ASSUME Library!OneCheck, Library!WaitingIsAsked, UNCHANGED flow,
         \A c : c.k = "check" => (c \in calls' <=> c \in calls)
  PROVE  Library!OneCheck' /\ Library!WaitingIsAsked'
  BY DEF Library!OneCheck, Library!WaitingIsAsked

\* After an answer that asks for the list, that is the last one asked for.
LEMMA LibraryReload ==
  ASSUME Library!Inv, NEW c \in calls, c.k # "check", UNCHANGED <<page, flow, srv>>,
         Library!Reload(c, srv)
  PROVE  Library!Inv'
<1>0. PICK d : d = [k |-> "list", n |-> hist.sent + 1, packs |-> srv.indexed]
  OBVIOUS
<1>1. calls' = (calls \ {c}) \cup {d} /\ hist' = [hist EXCEPT !.sent = @ + 1]
  BY <1>0 DEF Library!Reload, Library!Done, Library!ListCall, Library!Sent
<1>2. d.k = "list" /\ d.n = hist.sent + 1 /\ d.packs = srv.indexed
  BY <1>0
<1>3. Library!Numbered'
  BY <1>1, <1>2 DEF Library!Inv, Library!Numbered, Library!Histories
<1>4. Library!OneCheck' /\ Library!WaitingIsAsked'
  <2>1. \A e : e.k = "check" => (e \in calls' <=> e \in calls)
    BY <1>1, <1>2
  <2>2. QED BY <2>1, LibraryChecks DEF Library!Inv
<1>5. Library!Typed'
  BY <1>1, <1>2 DEF Library!Inv, Library!Typed, Library!Servers
<1>6. Library!CatchesUp'
  <2>1. Library!LastCall(d)'
    BY <1>1, <1>2 DEF Library!Inv, Library!LastCall, Library!Numbered, Library!Histories
  <2>2. QED BY <1>1, <2>1 DEF Library!CatchesUp
<1>7. Library!Removed' /\ Library!SessionsKeepTheirFiles'
  BY <1>1, <1>2 DEF Library!Inv, Library!Removed, Library!SessionsKeepTheirFiles, Library!Numbered, Library!Histories
<1>8. QED BY <1>3, <1>4, <1>5, <1>6, <1>7 DEF Library!Inv

\* A request that changes nothing at the server, or an answer of none that
\* concerns the list, leaves the list as far behind as it was.
LEMMA LibraryKeeps ==
  ASSUME Library!Inv, UNCHANGED <<page, srv>>,
         \A c \in calls : Library!Changer(c) \/ c.k = "list" => c \in calls',
         \A c \in calls' : c \in calls \/ c.k # "list",
         hist'.behind = hist.behind, hist'.newest = hist.newest
  PROVE  Library!CatchesUp'
<1>1. CASE hist.behind
  BY <1>1 DEF Library!CatchesUp
<1>2. CASE Library!Listed
  <2>1. Library!Listed'
    BY <1>2 DEF Library!Listed
  <2>2. QED BY <2>1 DEF Library!CatchesUp
<1>3. ASSUME NEW c \in calls, Library!Changer(c) PROVE Library!CatchesUp'
  <2>1. c \in calls' /\ Library!Changer(c)'
    BY <1>3 DEF Library!Changer
  <2>2. QED BY <2>1 DEF Library!CatchesUp
<1>4. ASSUME NEW c \in calls, Library!LastCall(c) PROVE Library!CatchesUp'
  <2>1. c \in calls' /\ Library!LastCall(c)'
    BY <1>4 DEF Library!LastCall
  <2>2. QED BY <2>1 DEF Library!CatchesUp
<1>5. QED BY <1>1, <1>2, <1>3, <1>4 DEF Library!Inv, Library!CatchesUp

\* An answer that only takes its request away.
LEMMA LibraryDone ==
  ASSUME Library!Inv, NEW c \in calls, c.k \notin {"list", "check"}, ~Library!Changer(c),
         calls' = calls \ {c}, UNCHANGED <<page, flow, srv, hist>>
  PROVE  Library!Inv'
<1>1. Library!Numbered' /\ Library!OneCheck' /\ Library!WaitingIsAsked'
  BY LibraryFewer, LibraryChecks DEF Library!Inv
<1>2. Library!Typed' /\ Library!Removed' /\ Library!SessionsKeepTheirFiles'
  BY DEF Library!Inv, Library!Typed, Library!Servers, Library!Removed, Library!SessionsKeepTheirFiles
<1>3. Library!CatchesUp'
  BY LibraryKeeps
<1>4. QED BY <1>1, <1>2, <1>3 DEF Library!Inv

\* An answer after which the list is known to be behind.
LEMMA LibraryBehind ==
  ASSUME Library!Inv, NEW c \in calls, c.k # "check", calls' = calls \ {c},
         page' \in {page, c.packs}, c.k = "list" \/ page' = page, UNCHANGED <<flow, srv>>,
         NEW n \in Nat, n <= hist.sent,
         hist' = [hist EXCEPT !.behind = TRUE, !.newest = n]
  PROVE  Library!Inv'
<1>1. Library!Numbered' /\ Library!OneCheck' /\ Library!WaitingIsAsked'
  <2>1. Library!Numbered'
    BY DEF Library!Inv, Library!Numbered, Library!Histories
  <2>2. QED BY <2>1, LibraryChecks DEF Library!Inv
<1>2. Library!Typed'
  BY DEF Library!Inv, Library!Typed, Library!Servers
<1>3. Library!Removed' /\ Library!SessionsKeepTheirFiles' /\ Library!CatchesUp'
  BY DEF Library!Inv, Library!Removed, Library!SessionsKeepTheirFiles, Library!CatchesUp, Library!Numbered, Library!Histories
<1>4. QED BY <1>1, <1>2, <1>3 DEF Library!Inv

\* A request that only waits at the server.
LEMMA LibrarySends ==
  ASSUME Library!Inv, NEW c, c.k \in {"items", "lookup", "import", "restore"}, c.n = hist.sent + 1,
         c.k = "items" => c.items \subseteq Packs,
         c.k = "lookup" => c.p \in Workshop,
         ~Library!Changer(c),
         calls' = calls \cup {c}, hist' = [hist EXCEPT !.sent = @ + 1],
         UNCHANGED <<page, flow, srv>>
  PROVE  Library!Inv'
<1>1. Library!Numbered'
  BY DEF Library!Inv, Library!Numbered, Library!Histories
<1>2. Library!OneCheck' /\ Library!WaitingIsAsked'
  BY LibraryChecks DEF Library!Inv
<1>3. Library!Typed' /\ Library!Removed' /\ Library!SessionsKeepTheirFiles'
  BY DEF Library!Inv, Library!Typed, Library!Servers, Library!Removed, Library!SessionsKeepTheirFiles, Library!Numbered, Library!Histories
<1>4. Library!CatchesUp'
  BY LibraryKeeps DEF Library!Inv, Library!Numbered, Library!Histories
<1>5. QED BY <1>1, <1>2, <1>3, <1>4 DEF Library!Inv

\* A request that changes the index, and says so in its answer.
LEMMA LibraryChanges ==
  ASSUME Library!Inv, NEW c, c.k \in {"import", "restore", "sync", "remove"}, c.n = hist.sent + 1,
         Library!Changer(c), c \in calls', calls' \subseteq calls \cup {c},
         \A d \in calls : d.k \notin {"items", "lookup"} => d \in calls', UNCHANGED <<page, flow>>,
         hist' \in Library!Histories, hist'.sent = hist.sent + 1, hist'.newest = hist.newest,
         hist'.pulled = hist.pulled,
         srv' \in Library!Servers, srv'.inUse = srv.inUse,
         c.k = "remove" /\ c.removed => c.p \in Workshop /\ c.p \notin srv'.indexed \cup srv.inUse,
         \/ srv'.indexed \cap Workshop \subseteq srv.indexed /\ hist'.synced = hist.synced
         \/ hist'.synced = hist.sent + 1
  PROVE  Library!Inv'
<1>1. Library!Numbered'
  BY LibraryNumbers DEF Library!Inv
<1>2. Library!OneCheck' /\ Library!WaitingIsAsked'
  <2>1. \A e : e.k = "check" => (e \in calls' <=> e \in calls)
    OBVIOUS
  <2>2. QED BY <2>1, LibraryChecks DEF Library!Inv
<1>3. Library!Typed' /\ Library!SessionsKeepTheirFiles'
  BY DEF Library!Inv, Library!Typed, Library!Servers, Library!SessionsKeepTheirFiles
<1>4. Library!Removed'
  BY DEF Library!Inv, Library!Removed, Library!Numbered, Library!Histories
<1>5. Library!CatchesUp'
  BY DEF Library!CatchesUp, Library!Changer
<1>6. QED BY <1>1, <1>2, <1>3, <1>4, <1>5 DEF Library!Inv

LEMMA LibraryStep == Library!Inv /\ Library!Next => Library!Inv'
<1> SUFFICES ASSUME Library!Inv, Library!Next PROVE Library!Inv'
  OBVIOUS
<1>0. /\ hist \in [sent : Nat, newest : Nat, synced : Nat, behind : BOOLEAN, pulled : BOOLEAN]
      /\ hist.newest <= hist.sent
  BY DEF Library!Inv, Library!Numbered, Library!Histories
<1>1. CASE Library!ListAnswered
  <2>1. PICK c \in calls :
          /\ c.k = "list" /\ calls' = calls \ {c}
          /\ \/ page' = c.packs /\ hist' = [hist EXCEPT !.behind = @ \/ c.n < hist.newest,
                                                        !.newest = IF c.n > @ THEN c.n ELSE @]
             \/ page' = page /\ hist' = [hist EXCEPT !.behind = TRUE]
          /\ UNCHANGED <<flow, srv>>
    BY <1>1 DEF Library!ListAnswered, Library!Done
  <2>2. c.n \in Nat /\ c.n <= hist.sent
    BY <1>0 DEF Library!Inv, Library!Numbered, Library!Histories
  <2>3. CASE page' = page /\ hist' = [hist EXCEPT !.behind = TRUE]
    <3>1. hist' = [hist EXCEPT !.behind = TRUE, !.newest = hist.newest]
      BY <1>0, <2>3
    <3>2. QED BY <1>0, <2>1, <2>3, <3>1, LibraryBehind
  <2>4. CASE page' = c.packs /\ hist.behind /\ hist' = [hist EXCEPT !.newest = IF c.n > @ THEN c.n ELSE @]
    <3>1. PICK n \in Nat : n = IF c.n > hist.newest THEN c.n ELSE hist.newest
      BY <1>0, <2>2
    <3>2. hist' = [hist EXCEPT !.behind = TRUE, !.newest = n] /\ n <= hist.sent
      BY <1>0, <2>2, <2>4, <3>1
    <3>3. QED BY <2>1, <2>4, <3>2, LibraryBehind
  <2>5. CASE page' = c.packs /\ c.n < hist.newest /\ hist' = [hist EXCEPT !.behind = TRUE]
    <3>1. hist' = [hist EXCEPT !.behind = TRUE, !.newest = hist.newest]
      BY <1>0, <2>5
    <3>2. QED BY <1>0, <2>1, <2>5, <3>1, LibraryBehind
  <2>6. CASE page' = c.packs /\ c.n >= hist.newest /\ ~hist.behind /\ hist' = [hist EXCEPT !.newest = c.n]
    <3>1. Library!Numbered'
      BY <1>0, <2>1, <2>2, <2>6 DEF Library!Inv, Library!Numbered, Library!Histories
    <3>2. Library!OneCheck' /\ Library!WaitingIsAsked'
      BY <2>1, LibraryChecks DEF Library!Inv
    <3>3. Library!Typed' /\ Library!Removed' /\ Library!SessionsKeepTheirFiles'
      BY <1>0, <2>1, <2>6
      DEF Library!Inv, Library!Typed, Library!Servers, Library!Removed, Library!SessionsKeepTheirFiles
    <3>4. CASE Library!LastCall(c)
      <4>1. \A d \in calls' : d.k = "list" => d.n < c.n
        BY <2>1, <3>4, <2>2 DEF Library!Inv, Library!Numbered, Library!Histories, Library!LastCall
      <4>2. Library!Listed'
        BY <1>0, <2>1, <2>6, <3>4, <4>1 DEF Library!LastCall, Library!Listed
      <4>3. QED BY <3>1, <3>2, <3>3, <4>2 DEF Library!Inv, Library!CatchesUp
    <3>5. ASSUME NEW d \in calls, d # c, Library!Changer(d) \/ Library!LastCall(d)
          PROVE  Library!CatchesUp'
      <4>1. d \in calls'
        BY <2>1, <3>5
      <4>2. Library!Changer(d) => Library!Changer(d)'
        BY DEF Library!Changer
      <4>3. Library!LastCall(d) => Library!LastCall(d)'
        BY <1>0, <2>1, <2>2, <2>6 DEF Library!LastCall
      <4>4. QED BY <3>5, <4>1, <4>2, <4>3 DEF Library!CatchesUp
    <3>6. ~Library!Changer(c)
      BY <2>1 DEF Library!Changer
    <3>7. ~Library!Listed
      BY <1>0, <2>1, <2>2, <2>6 DEF Library!Listed
    <3>8. Library!CatchesUp' \/ Library!LastCall(c)
      BY <2>6, <3>5, <3>6, <3>7 DEF Library!Inv, Library!CatchesUp
    <3>9. QED BY <3>1, <3>2, <3>3, <3>4, <3>8 DEF Library!Inv
  <2>7. QED
    <3>1. CASE page' = page /\ hist' = [hist EXCEPT !.behind = TRUE]
      BY <2>3, <3>1
    <3>2. ASSUME page' = c.packs,
                 hist' = [hist EXCEPT !.behind = @ \/ c.n < hist.newest,
                                      !.newest = IF c.n > @ THEN c.n ELSE @]
          PROVE  Library!Inv'
      <4>1. CASE hist.behind
        <5>1. hist' = [hist EXCEPT !.newest = IF c.n > @ THEN c.n ELSE @]
          BY <1>0, <2>2, <3>2, <4>1
        <5>2. QED BY <2>4, <3>2, <4>1, <5>1
      <4>2. CASE ~hist.behind /\ c.n < hist.newest
        <5>a. (hist.behind \/ c.n < hist.newest) = TRUE
              /\ (IF c.n > hist.newest THEN c.n ELSE hist.newest) = hist.newest
          BY <1>0, <2>2, <4>2
        <5>1. hist' = [hist EXCEPT !.behind = TRUE]
          BY <1>0, <3>2, <5>a
        <5>2. QED BY <2>5, <3>2, <4>2, <5>1
      <4>3. CASE ~hist.behind /\ ~(c.n < hist.newest)
        <5>a. (hist.behind \/ c.n < hist.newest) = FALSE /\ hist.behind = FALSE
              /\ (IF c.n > hist.newest THEN c.n ELSE hist.newest) = c.n
          BY <1>0, <2>2, <4>3
        <5>1. hist' = [hist EXCEPT !.newest = c.n]
          <6>1. hist' = [hist EXCEPT !.behind = hist.behind, !.newest = c.n]
            BY <1>0, <3>2, <5>a
          <6>2. QED BY <1>0, <6>1
        <5>2. c.n >= hist.newest
          BY <1>0, <2>2, <4>3
        <5>3. QED BY <2>6, <3>2, <4>3, <5>1, <5>2
      <4>4. QED BY <4>1, <4>2, <4>3
    <3>3. QED BY <2>1, <3>1, <3>2
<1>2. CASE Library!PickFilter
  <2>1. UNCHANGED <<page, flow, calls, srv, hist>>
    BY <1>2 DEF Library!PickFilter
  <2>2. QED
    BY <2>1 DEF Library!Inv, Library!Numbered, Library!Histories, Library!Typed, Library!Servers, Library!OneCheck, Library!WaitingIsAsked,
                Library!CatchesUp, Library!Changer, Library!LastCall, Library!Listed, Library!Removed,
                Library!SessionsKeepTheirFiles
<1>3. CASE Library!Validate
  <2>1. Library!Shown \subseteq Packs
    BY DEF Library!Shown, Library!Visible, Library!Inv, Library!Typed, Library!Servers
  <2>2. PICK p, c :
          /\ p \in Packs /\ flow[p] # "loading" /\ flow' = [flow EXCEPT ![p] = "loading"]
          /\ c = [k |-> "check", n |-> hist.sent + 1, p |-> p,
                  verdict |-> IF p \in srv.broken THEN "broken" ELSE "valid"]
          /\ calls' = calls \cup {c} /\ hist' = [hist EXCEPT !.sent = @ + 1]
          /\ UNCHANGED <<page, srv>>
    BY <1>3, <2>1 DEF Library!Validate, Library!Send, Library!Sent
  <2>3. c.k = "check" /\ c.n = hist.sent + 1 /\ c.p = p /\ c.verdict \in {"valid", "broken"}
    BY <2>2
  <2>4. Library!Numbered'
    BY <1>0, <2>2, <2>3 DEF Library!Inv, Library!Numbered, Library!Histories
  <2>5. Library!OneCheck'
    BY <2>2, <2>3 DEF Library!Inv, Library!OneCheck, Library!WaitingIsAsked
  <2>6. Library!WaitingIsAsked'
    BY <2>2, <2>3 DEF Library!Inv, Library!WaitingIsAsked, Library!Typed, Library!Servers
  <2>7. Library!Typed' /\ Library!Removed' /\ Library!SessionsKeepTheirFiles'
    BY <1>0, <2>2, <2>3
    DEF Library!Inv, Library!Typed, Library!Servers, Library!Removed, Library!SessionsKeepTheirFiles
  <2>8. Library!CatchesUp'
    BY <1>0, <2>2, <2>3, LibraryKeeps
  <2>9. QED BY <2>4, <2>5, <2>6, <2>7, <2>8 DEF Library!Inv
<1>4. CASE Library!ValidateAnswered
  <2>1. PICK c \in calls, v \in {"valid", "broken", "error"} :
          /\ c.k = "check" /\ c.p \in Packs /\ calls' = calls \ {c}
          /\ flow' = [flow EXCEPT ![c.p] = v]
          /\ UNCHANGED <<page, srv, hist>>
    BY <1>4 DEF Library!ValidateAnswered, Library!WithVerdict, Library!Done, Library!Inv, Library!Typed, Library!Servers
  <2>2. Library!Numbered' /\ Library!OneCheck'
    BY <2>1, LibraryFewer DEF Library!Inv
  <2>3. Library!WaitingIsAsked'
    BY <2>1 DEF Library!Inv, Library!WaitingIsAsked, Library!OneCheck, Library!Typed, Library!Servers
  <2>4. Library!Typed' /\ Library!Removed' /\ Library!SessionsKeepTheirFiles'
    BY <2>1 DEF Library!Inv, Library!Typed, Library!Servers, Library!Removed, Library!SessionsKeepTheirFiles
  <2>5. Library!CatchesUp'
    BY <2>1, LibraryKeeps DEF Library!Changer
  <2>6. QED BY <2>2, <2>3, <2>4, <2>5 DEF Library!Inv
<1>5. ASSUME NEW k \in {"import", "restore"}, NEW more \in SUBSET (Packs \ Workshop),
             NEW ok \in BOOLEAN,
             srv' = IF ok THEN [srv EXCEPT !.indexed = @ \cup more] ELSE srv,
             Library!Send([k |-> k, n |-> Library!Sent(1), ok |-> ok]),
             UNCHANGED <<page, flow>>
      PROVE  Library!Inv'
  <2>1. PICK c : c = [k |-> k, n |-> hist.sent + 1, ok |-> ok]
    OBVIOUS
  <2>2. calls' = calls \cup {c} /\ hist' = [hist EXCEPT !.sent = @ + 1]
    BY <1>5, <2>1 DEF Library!Send, Library!Sent
  <2>3. CASE ~ok
    <3>1. ~Library!Changer(c)
      BY <2>1, <2>3 DEF Library!Changer
    <3>2. QED BY <1>5, <2>1, <2>2, <2>3, <3>1, LibrarySends
  <2>4. CASE ok
    <3>1. Library!Changer(c)
      BY <2>1, <2>4 DEF Library!Changer
    <3>2. /\ hist' \in Library!Histories /\ hist'.sent = hist.sent + 1 /\ hist'.newest = hist.newest
          /\ hist'.pulled = hist.pulled /\ hist'.synced = hist.synced
      BY <1>0, <2>2 DEF Library!Histories
    <3>3. /\ srv' \in Library!Servers /\ srv'.inUse = srv.inUse
          /\ srv'.indexed \cap Workshop \subseteq srv.indexed
      BY <1>5, <2>4 DEF Library!Inv, Library!Typed, Library!Servers
    <3>4. c.k \in {"import", "restore"} /\ c.n = hist.sent + 1
      BY <2>1
    <3>6. c.k # "remove" /\ c \in calls' /\ calls' \subseteq calls \cup {c}
          /\ \A e \in calls : e \in calls'
      BY <2>2, <3>4
    <3>7. UNCHANGED <<page, flow>> /\ c.k \in {"import", "restore", "sync", "remove"}
      BY <1>5, <3>4
    <3>5. QED BY <3>7, <3>6, <3>1, <3>2, <3>3, <3>4, LibraryChanges
  <2>5. QED BY <2>3, <2>4
<1>6. CASE Library!Import \/ Library!Restore
  <2>1. CASE Library!Import
    <3>1. PICK p \in Packs \ Workshop, ok \in BOOLEAN :
            /\ srv' = IF ok THEN [srv EXCEPT !.indexed = @ \cup {p}] ELSE srv
            /\ Library!Send([k |-> "import", n |-> Library!Sent(1), ok |-> ok])
      BY <2>1 DEF Library!Import
    <3>2. QED BY <1>5, <2>1, <3>1 DEF Library!Import
  <2>2. CASE Library!Restore
    BY <1>5, <2>2 DEF Library!Restore
  <2>3. QED BY <1>6, <2>1, <2>2
<1>7. CASE Library!ImportAnswered \/ Library!RestoreAnswered
  <2>1. PICK c \in calls :
          /\ c.k \in {"import", "restore"}
          /\ IF c.ok THEN Library!Reload(c, srv) ELSE calls' = Library!Done(c) /\ UNCHANGED hist
          /\ UNCHANGED <<page, flow, srv>>
    BY <1>7 DEF Library!ImportAnswered, Library!RestoreAnswered, Library!AfterImport
  <2>2. CASE c.ok
    BY <2>1, <2>2, LibraryReload
  <2>3. CASE ~c.ok
    BY <2>1, <2>3, LibraryDone DEF Library!Done, Library!Changer
  <2>4. QED BY <2>2, <2>3
<1>8. CASE Library!SyncNow
  <2>1. PICK c : c = [k |-> "items", n |-> hist.sent + 1, items |-> srv.subscribed]
    OBVIOUS
  <2>2. calls' = calls \cup {c} /\ hist' = [hist EXCEPT !.sent = @ + 1] /\ UNCHANGED <<page, flow, srv>>
    BY <1>8, <2>1 DEF Library!SyncNow, Library!Sync, Library!Send, Library!Sent
  <2>3. c.k = "items" /\ c.n = hist.sent + 1 /\ c.items \subseteq Packs /\ ~Library!Changer(c)
    BY <2>1 DEF Library!Changer, Library!Inv, Library!Typed, Library!Servers
  <2>4. QED BY <2>2, <2>3, LibrarySends
<1>9. CASE Library!ItemsAnswered
  <2>1. PICK c \in calls :
          /\ c.k = "items"
          /\ IF c.items = {}
             THEN calls' = Library!Done(c) /\ UNCHANGED <<srv, hist>>
             ELSE /\ srv' = Library!Synced(srv, c.items)
                  /\ calls' = Library!Done(c) \cup
                       {[k |-> "sync", n |-> Library!Sent(1),
                         more |-> ~(c.items \ srv.broken \subseteq srv.indexed),
                         less |-> c.items \cap srv.broken \cap srv.indexed # {}]}
                  /\ hist' = [hist EXCEPT !.sent = @ + 1, !.synced = Library!Sent(1)]
          /\ UNCHANGED <<page, flow>>
    BY <1>9 DEF Library!ItemsAnswered
  <2>2. CASE c.items = {}
    BY <2>1, <2>2, LibraryDone DEF Library!Done, Library!Changer
  <2>3. CASE c.items # {}
    <3>1. PICK d : d = [k |-> "sync", n |-> hist.sent + 1,
                        more |-> ~(c.items \ srv.broken \subseteq srv.indexed),
                        less |-> c.items \cap srv.broken \cap srv.indexed # {}]
      OBVIOUS
    <3>2. PICK i : i = (srv.indexed \cup (c.items \ srv.broken)) \ (c.items \cap srv.broken)
      OBVIOUS
    <3>3. /\ calls' = (calls \ {c}) \cup {d}
          /\ hist' = [hist EXCEPT !.sent = @ + 1, !.synced = hist.sent + 1]
          /\ srv' = [srv EXCEPT !.indexed = i]
      BY <2>1, <2>3, <3>1, <3>2 DEF Library!Done, Library!Sent, Library!Synced
    <3>4. i \in SUBSET Packs
      BY <2>1, <3>2 DEF Library!Inv, Library!Typed, Library!Servers
    <3>5. d.k = "sync" /\ d.n = hist.sent + 1
      BY <3>1
    <3>a. /\ hist' \in Library!Histories /\ hist'.sent = hist.sent + 1 /\ hist'.newest = hist.newest
          /\ hist'.pulled = hist.pulled /\ hist'.synced = hist.sent + 1
      <4>1. PICK m \in Nat : m = hist.sent + 1
        BY <1>0
      <4>2. hist' = [hist EXCEPT !.sent = m, !.synced = m]
        BY <3>3, <4>1
      <4>3. QED BY <1>0, <4>1, <4>2 DEF Library!Histories
    <3>6. CASE Library!Changer(d)
      <4>1. /\ hist' \in Library!Histories /\ hist'.sent = hist.sent + 1 /\ hist'.newest = hist.newest
            /\ hist'.pulled = hist.pulled /\ hist'.synced = hist.sent + 1
        BY <3>a
      <4>2. srv' \in Library!Servers /\ srv'.inUse = srv.inUse
        BY <3>3, <3>4 DEF Library!Inv, Library!Typed, Library!Servers
      <4>3. \A e \in calls : e.k \notin {"items", "lookup"} => e \in calls'
        BY <2>1, <3>3
      <4>4. QED BY <2>1, <3>3, <3>5, <3>6, <4>1, <4>2, <4>3, LibraryChanges
    <3>7. CASE ~Library!Changer(d)
      <4>1. i = srv.indexed
        BY <3>1, <3>2, <3>7 DEF Library!Changer
      <4>2. srv' = srv
        BY <3>3, <4>1 DEF Library!Inv, Library!Typed, Library!Servers
      <4>3. Library!Numbered'
        <5>2. QED BY <3>3, <3>5, <3>a, LibraryNumbers DEF Library!Inv
      <4>4. Library!OneCheck' /\ Library!WaitingIsAsked'
        <5>1. \A e : e.k = "check" => (e \in calls' <=> e \in calls)
          BY <2>1, <3>3, <3>5
        <5>2. QED BY <2>1, <5>1, LibraryChecks DEF Library!Inv
      <4>5. Library!Typed' /\ Library!SessionsKeepTheirFiles'
        BY <1>0, <2>1, <3>3, <3>5, <4>2 DEF Library!Inv, Library!Typed, Library!Servers, Library!SessionsKeepTheirFiles
      <4>6. Library!Removed'
        BY <1>0, <3>3, <3>5, <4>2 DEF Library!Inv, Library!Removed, Library!Numbered, Library!Histories
      <4>7. Library!CatchesUp'
        <5>1. ~Library!Changer(c)
          BY <2>1 DEF Library!Changer
        <5>2. QED BY <1>0, <2>1, <3>3, <3>5, <4>2, <5>1, LibraryKeeps
      <4>8. QED BY <4>3, <4>4, <4>5, <4>6, <4>7 DEF Library!Inv
    <3>8. QED BY <3>6, <3>7
  <2>4. QED BY <2>2, <2>3
<1>10. CASE Library!SyncAnswered
  <2>1. PICK c \in calls :
          /\ c.k = "sync"
          /\ \/ c.more /\ Library!Reload(c, srv)
             \/ ~c.more /\ calls' = Library!Done(c) /\ hist' = [hist EXCEPT !.behind = @ \/ c.less]
             \/ calls' = Library!Done(c) /\ hist' = [hist EXCEPT !.behind = TRUE]
          /\ UNCHANGED <<page, flow, srv>>
    BY <1>10 DEF Library!SyncAnswered
  <2>2. CASE Library!Reload(c, srv)
    BY <2>1, <2>2, LibraryReload
  <2>3. CASE calls' = Library!Done(c) /\ hist' = [hist EXCEPT !.behind = TRUE]
    <3>1. hist' = [hist EXCEPT !.behind = TRUE, !.newest = hist.newest]
      BY <1>0, <2>3
    <3>2. QED BY <1>0, <2>1, <2>3, <3>1, LibraryBehind DEF Library!Done
  <2>4. CASE ~c.more /\ ~c.less /\ calls' = Library!Done(c) /\ hist' = [hist EXCEPT !.behind = @ \/ c.less]
    <3>1. hist' = hist
      BY <1>0, <2>4
    <3>2. QED BY <2>1, <2>4, <3>1, LibraryDone DEF Library!Done, Library!Changer
  <2>5. QED
    <3>1. ASSUME c.less, hist' = [hist EXCEPT !.behind = @ \/ c.less]
          PROVE  hist' = [hist EXCEPT !.behind = TRUE]
      BY <3>1
    <3>2. QED BY <2>1, <2>2, <2>3, <2>4, <3>1
<1>11. CASE Library!Unsubscribe
  <2>1. PICK p, c :
          /\ p \in Workshop
          /\ c = [k |-> "lookup", n |-> hist.sent + 1, p |-> p, found |-> p \in srv.indexed]
          /\ calls' = calls \cup {c} /\ hist' = [hist EXCEPT !.sent = @ + 1]
          /\ UNCHANGED <<page, flow, srv>>
    BY <1>11 DEF Library!Unsubscribe, Library!Send, Library!Sent
  <2>2. c.k = "lookup" /\ c.n = hist.sent + 1 /\ c.p \in Workshop /\ ~Library!Changer(c)
    BY <2>1 DEF Library!Changer
  <2>3. QED BY <2>1, <2>2, LibrarySends
<1>12. CASE Library!LookupAnswered
  <2>1. PICK c \in calls :
          /\ c.k = "lookup"
          /\ \/ calls' = calls \ {c} /\ UNCHANGED <<srv, hist>>
             \/ /\ calls' = (calls \ {c}) \cup
                     {[k |-> "remove", n |-> hist.sent + 1, p |-> c.p, removed |-> c.p \notin srv.inUse]}
                /\ srv' = IF c.p \in srv.inUse THEN srv ELSE [srv EXCEPT !.indexed = @ \ {c.p}]
                /\ hist' = [hist EXCEPT !.sent = @ + 1]
          /\ UNCHANGED <<page, flow>>
    BY <1>12 DEF Library!LookupAnswered, Library!Done, Library!Sent, Library!Refuses
  <2>2. CASE calls' = calls \ {c} /\ UNCHANGED <<srv, hist>>
    BY <2>1, <2>2, LibraryDone DEF Library!Changer
  <2>3. ASSUME calls' = (calls \ {c}) \cup
                 {[k |-> "remove", n |-> hist.sent + 1, p |-> c.p, removed |-> c.p \notin srv.inUse]},
               srv' = IF c.p \in srv.inUse THEN srv ELSE [srv EXCEPT !.indexed = @ \ {c.p}],
               hist' = [hist EXCEPT !.sent = @ + 1]
        PROVE  Library!Inv'
    <3>1. PICK d : d = [k |-> "remove", n |-> hist.sent + 1, p |-> c.p, removed |-> c.p \notin srv.inUse]
      OBVIOUS
    <3>2. /\ d.k = "remove" /\ d.n = hist.sent + 1 /\ d.p = c.p /\ d.removed = (c.p \notin srv.inUse)
          /\ calls' = (calls \ {c}) \cup {d} /\ c.p \in Workshop
      BY <2>1, <2>3, <3>1 DEF Library!Inv, Library!Typed, Library!Servers
    <3>3. CASE d.removed
      <4>1. /\ hist' \in Library!Histories /\ hist'.sent = hist.sent + 1 /\ hist'.newest = hist.newest
            /\ hist'.pulled = hist.pulled /\ hist'.synced = hist.synced
        BY <1>0, <2>3 DEF Library!Histories
      <4>2. /\ srv' \in Library!Servers /\ srv'.inUse = srv.inUse /\ c.p \notin srv'.indexed \cup srv.inUse
            /\ srv'.indexed \cap Workshop \subseteq srv.indexed
        BY <2>3, <3>2, <3>3 DEF Library!Inv, Library!Typed, Library!Servers
      <4>3. Library!Changer(d)
        BY <3>2, <3>3 DEF Library!Changer
      <4>4. \A e \in calls : e.k \notin {"items", "lookup"} => e \in calls'
        BY <2>1, <3>2
      <4>5. QED BY <2>1, <3>2, <4>1, <4>2, <4>3, <4>4, LibraryChanges
    <3>4. CASE ~d.removed
      <4>1. srv' = srv /\ ~Library!Changer(c)
        BY <2>1, <2>3, <3>2, <3>4 DEF Library!Changer
      <4>2. Library!Numbered'
        BY <1>0, <2>3, <3>2 DEF Library!Inv, Library!Numbered, Library!Histories
      <4>3. Library!OneCheck' /\ Library!WaitingIsAsked'
        <5>1. \A e : e.k = "check" => (e \in calls' <=> e \in calls)
          BY <2>1, <3>2
        <5>2. QED BY <2>1, <5>1, LibraryChecks DEF Library!Inv
      <4>4. Library!Typed' /\ Library!SessionsKeepTheirFiles' /\ Library!Removed'
        BY <1>0, <2>1, <2>3, <3>2, <3>4, <4>1
        DEF Library!Inv, Library!Typed, Library!Servers, Library!SessionsKeepTheirFiles, Library!Removed
      <4>5. Library!CatchesUp'
        BY <1>0, <2>1, <2>3, <3>2, <4>1, LibraryKeeps
      <4>6. QED BY <4>2, <4>3, <4>4, <4>5 DEF Library!Inv
    <3>5. QED BY <3>3, <3>4
  <2>4. QED BY <2>1, <2>2, <2>3
<1>13. CASE Library!RemoveAnswered
  <2>1. PICK c \in calls :
          /\ c.k = "remove"
          /\ \/ ~c.removed /\ calls' = calls \ {c} /\ UNCHANGED <<srv, hist>>
             \/ calls' = calls \ {c} /\ srv' = srv /\ hist' = [hist EXCEPT !.behind = TRUE]
             \/ /\ c.removed
                /\ srv' = [srv EXCEPT !.subscribed = @ \ {c.p}]
                /\ calls' = (calls \ {c}) \cup {Library!ListCall(hist.sent + 1, srv)}
                /\ hist' = [hist EXCEPT !.sent = @ + 1,
                                        !.pulled = @ \/ (c.p \in srv.inUse /\ hist.synced < c.n)]
          /\ UNCHANGED <<page, flow>>
    BY <1>13 DEF Library!RemoveAnswered, Library!LeavesSteam, Library!Done, Library!Sent
  <2>2. CASE ~c.removed /\ calls' = calls \ {c} /\ UNCHANGED <<srv, hist>>
    BY <2>1, <2>2, LibraryDone DEF Library!Changer
  <2>3. CASE calls' = calls \ {c} /\ srv' = srv /\ hist' = [hist EXCEPT !.behind = TRUE]
    <3>1. hist' = [hist EXCEPT !.behind = TRUE, !.newest = hist.newest]
      BY <1>0, <2>3
    <3>2. QED BY <1>0, <2>1, <2>3, <3>1, LibraryBehind
  <2>4. ASSUME c.removed, srv' = [srv EXCEPT !.subscribed = @ \ {c.p}],
               calls' = (calls \ {c}) \cup {Library!ListCall(hist.sent + 1, srv)},
               hist' = [hist EXCEPT !.sent = @ + 1,
                                    !.pulled = @ \/ (c.p \in srv.inUse /\ hist.synced < c.n)]
        PROVE  Library!Inv'
    <3>1. PICK d : d = [k |-> "list", n |-> hist.sent + 1, packs |-> srv.indexed]
      OBVIOUS
    <3>2. d.k = "list" /\ d.n = hist.sent + 1 /\ d.packs = srv.indexed /\ calls' = (calls \ {c}) \cup {d}
      BY <2>4, <3>1 DEF Library!ListCall
    <3>3. ~(c.p \in srv.inUse /\ hist.synced < c.n) /\ ~hist.pulled
      BY <2>1, <2>4 DEF Library!Inv, Library!Removed, Library!SessionsKeepTheirFiles
    <3>4. hist' = [hist EXCEPT !.sent = @ + 1]
      BY <1>0, <2>4, <3>3
    <3>5. Library!Numbered'
      BY <1>0, <3>2, <3>4 DEF Library!Inv, Library!Numbered, Library!Histories
    <3>6. Library!OneCheck' /\ Library!WaitingIsAsked'
      <4>1. \A e : e.k = "check" => (e \in calls' <=> e \in calls)
        BY <2>1, <3>2
      <4>2. QED BY <2>1, <4>1, LibraryChecks DEF Library!Inv
    <3>7. Library!Typed' /\ Library!SessionsKeepTheirFiles' /\ Library!Removed'
      BY <1>0, <2>1, <2>4, <3>2, <3>3, <3>4
      DEF Library!Inv, Library!Typed, Library!Servers, Library!SessionsKeepTheirFiles, Library!Removed
    <3>8. Library!LastCall(d)'
      BY <1>0, <2>4, <3>2, <3>4 DEF Library!LastCall, Library!Inv, Library!Numbered, Library!Histories, Library!Typed, Library!Servers
    <3>9. QED BY <3>2, <3>5, <3>6, <3>7, <3>8 DEF Library!Inv, Library!CatchesUp
  <2>5. QED BY <2>1, <2>2, <2>3, <2>4
<1>14. CASE Library!Outside
  <2>1. PICK u \in SUBSET Packs, b \in SUBSET Packs :
          /\ srv' = [srv EXCEPT !.inUse = u, !.broken = b]
          /\ u \subseteq srv.inUse \cup srv.indexed
    <3>1. srv \in [indexed : SUBSET Packs, subscribed : SUBSET Packs, inUse : SUBSET Packs,
                   broken : SUBSET Packs]
      BY DEF Library!Inv, Library!Typed, Library!Servers
    <3>2. CASE \E p \in (Workshop \cap srv.indexed) \ srv.inUse : srv' = [srv EXCEPT !.inUse = @ \cup {p}]
      <4>1. PICK p \in srv.indexed : srv' = [srv EXCEPT !.inUse = @ \cup {p}]
        BY <3>2
      <4>2. srv' = [srv EXCEPT !.inUse = srv.inUse \cup {p}, !.broken = srv.broken]
        BY <3>1, <4>1
      <4>3. srv.inUse \cup {p} \in SUBSET Packs
        BY <3>1
      <4>4. QED BY <3>1, <4>2, <4>3
    <3>3. CASE \E p \in srv.inUse : srv' = [srv EXCEPT !.inUse = @ \ {p}]
      <4>1. PICK p \in srv.inUse : srv' = [srv EXCEPT !.inUse = @ \ {p}]
        BY <3>3
      <4>2. srv' = [srv EXCEPT !.inUse = srv.inUse \ {p}, !.broken = srv.broken]
        BY <3>1, <4>1
      <4>3. srv.inUse \ {p} \in SUBSET Packs /\ srv.broken \in SUBSET Packs
        BY <3>1
      <4>4. QED BY <4>2, <4>3
    <3>4. CASE \E p \in Workshop \ srv.broken : srv' = [srv EXCEPT !.broken = @ \cup {p}]
      <4>1. PICK p \in Workshop : srv' = [srv EXCEPT !.broken = @ \cup {p}]
        BY <3>4
      <4>2. srv' = [srv EXCEPT !.inUse = srv.inUse, !.broken = srv.broken \cup {p}]
        BY <3>1, <4>1
      <4>3. srv.broken \cup {p} \in SUBSET Packs
        BY <3>1, WebAssumption
      <4>4. QED BY <3>1, <4>2, <4>3
    <3>5. QED BY <1>14, <3>2, <3>3, <3>4 DEF Library!Outside
  <2>2. UNCHANGED <<page, flow, calls, hist>> /\ srv'.indexed = srv.indexed /\ srv'.inUse = u
    BY <1>14, <2>1 DEF Library!Outside, Library!Inv, Library!Typed, Library!Servers
  <2>3. Library!Numbered' /\ Library!OneCheck' /\ Library!WaitingIsAsked' /\ Library!SessionsKeepTheirFiles'
    BY <2>2 DEF Library!Inv, Library!Numbered, Library!Histories, Library!OneCheck, Library!WaitingIsAsked,
                Library!SessionsKeepTheirFiles
  <2>4. Library!Typed' /\ Library!Removed'
    BY <2>1, <2>2 DEF Library!Inv, Library!Typed, Library!Servers, Library!Removed
  <2>5. Library!CatchesUp'
    BY <2>2 DEF Library!Inv, Library!CatchesUp, Library!Changer, Library!LastCall, Library!Listed
  <2>6. QED BY <2>3, <2>4, <2>5 DEF Library!Inv
<1>15. QED
  BY <1>1, <1>2, <1>3, <1>4, <1>6, <1>7, <1>8, <1>9, <1>10, <1>11, <1>12, <1>13, <1>14
  DEF Library!Next

LEMMA LibraryHolds ==
  Library!Inv => /\ Library!ListCatchesUp /\ Library!WaitingIsAsked
                 /\ Library!SessionsKeepTheirFiles /\ Library!OptionsFind
<1> SUFFICES ASSUME Library!Inv PROVE Library!ListCatchesUp /\ Library!OptionsFind
  BY DEF Library!Inv
<1>1. Library!ListCatchesUp
  BY DEF Library!Inv, Library!CatchesUp, Library!Listed, Library!ListCatchesUp
<1>2. Library!OptionsFind
  BY DEF Library!OptionsFind, Library!Options, Library!Visible
<1>3. QED BY <1>1, <1>2

-----------------------------------------------------------------------------
(* The runtime panel *)

LEMMA RuntimeInit == Runtime!Init => Runtime!Inv
<1> SUFFICES ASSUME Runtime!Init PROVE Runtime!Inv
  OBVIOUS
<1>1. PICK p \in Runtime!Providers, old \in BOOLEAN :
        srv = [provider |-> p, model |-> Runtime!None, set |-> Runtime!Blank, old |-> old]
  BY DEF Runtime!Init
<1>2. /\ calls = {[k |-> "load", n |-> 0, ok |-> TRUE, seen |-> Runtime!Snapshot(srv)]}
      /\ hist = [sent |-> 0, newest |-> 0, shown |-> 0, clean |-> TRUE, refused |-> FALSE]
      /\ flow = Runtime!Blank
  BY DEF Runtime!Init
<1>3. Runtime!Form(Runtime!Blank) = Runtime!Blank
  BY DEF Runtime!Form, Runtime!Blank
<1>4. Runtime!Sane
  BY <1>1, <1>2 DEF Runtime!Sane, Runtime!Histories
<1>5. Runtime!LastSent(0)
  BY <1>1, <1>2, <1>3 DEF Runtime!LastSent, Runtime!Snapshot
<1>6. QED BY <1>2, <1>4, <1>5 DEF Runtime!Inv

\* What the panel lets through, the server takes.
LEMMA PanelIsStrict ==
  ASSUME NEW f, Runtime!Wrong(f) = {}
  PROVE  Runtime!Accepted(Runtime!Request(f))
<1> SUFFICES ASSUME NEW k \in Keys
             PROVE  Runtime!Gate(srv.set, Runtime!None, Inputs)!Valid(k, Runtime!Request(f)[k])
  BY DEF Runtime!Accepted
<1>1. Runtime!Request(f)[k] = Runtime!Number(k, f[k])
  BY DEF Runtime!Request
<1>2. f[k] = Null \/ Runtime!InRange(k, Runtime!Number(k, f[k]))
  BY DEF Runtime!Wrong
<1>3. QED BY <1>1, <1>2 DEF Runtime!Gate!Valid,
  Runtime!Gate!Bounds, Runtime!Number, Runtime!InRange, Runtime!Ranges

\* An answer that puts nothing in the fields.
LEMMA NothingShown ==
  ASSUME Runtime!Inv, NEW c \in calls, calls' \in SUBSET calls,
         calls \ {c} \subseteq calls',
         hist' \in Runtime!Histories, hist'.sent = hist.sent, hist'.shown = hist.shown,
         hist'.clean = hist.clean, hist'.newest >= hist.newest, ~hist'.refused,
         c.k \in {"apply", "reset"} => hist'.newest >= c.n,
         UNCHANGED <<flow, srv>>
  PROVE  Runtime!Inv'
<1> USE DEF Runtime!Histories
<1>1. Runtime!Sane'
  BY DEF Runtime!Inv, Runtime!Sane
<1>2. PICK w \in 0..hist.sent : Runtime!LastSent(w)
  BY DEF Runtime!Inv
<1>3. hist \in Runtime!Histories /\ c.n \in Nat /\ w \in 0..hist'.sent /\ w \in Nat
  BY DEF Runtime!Inv, Runtime!Sane
<1>4. w <= hist'.newest \/ \E d \in calls' : d.n = w /\ d.k \in {"apply", "reset"}
  <2>1. CASE w <= hist.newest
    BY <1>3, <2>1
  <2>2. CASE c.k \in {"apply", "reset"} /\ c.n = w
    BY <1>3, <2>2
  <2>3. CASE \E d \in calls \ {c} : d.n = w /\ d.k \in {"apply", "reset"}
    BY <2>3
  <2>4. QED BY <1>2, <2>1, <2>2, <2>3 DEF Runtime!LastSent
<1>5. Runtime!Form(srv'.set) = Runtime!Form(srv.set)
  OBVIOUS
<1>6. (\E v \in 0..hist.sent : Runtime!LastSent(v))'
  BY <1>2, <1>3, <1>4, <1>5 DEF Runtime!LastSent
<1>7. QED BY <1>1, <1>6 DEF Runtime!Inv

\* An answer whose settings come into the fields.
LEMMA AnswerShown ==
  ASSUME Runtime!Inv, NEW c \in calls, calls' = calls \ {c},
         flow' = Runtime!Form(c.seen.set), Runtime!Shows(c), UNCHANGED srv
  PROVE  Runtime!Inv'
<1>1. PICK w \in 0..hist.sent : Runtime!LastSent(w)
  BY DEF Runtime!Inv
<1>2. hist \in Runtime!Histories /\ c.n \in 0..hist.sent /\ w \in Nat /\ hist.sent \in Nat
      /\ hist.newest \in Nat /\ ~hist.refused
  BY DEF Runtime!Inv, Runtime!Sane, Runtime!Histories
<1>3. /\ hist' \in Runtime!Histories /\ hist'.sent = hist.sent /\ hist'.shown = c.n
      /\ hist'.newest >= c.n /\ hist'.newest >= hist.newest /\ hist'.newest \in Nat
      /\ ~hist'.refused
  <2>1. PICK m \in Nat : m = (IF c.n > hist.newest THEN c.n ELSE hist.newest)
                         /\ m >= c.n /\ m >= hist.newest
    BY <1>2
  <2>2. hist' = [hist EXCEPT !.shown = c.n, !.newest = m, !.clean = TRUE]
    BY <2>1 DEF Runtime!Shows
  <2>3. hist' \in Runtime!Histories
    <3>1. hist' = [sent |-> hist.sent, newest |-> m, shown |-> c.n, clean |-> TRUE,
                   refused |-> hist.refused]
      BY <1>2, <2>2 DEF Runtime!Histories
    <3>2. hist.refused \in BOOLEAN /\ c.n \in Nat
      BY <1>2 DEF Runtime!Histories
    <3>3. QED BY <1>2, <2>1, <3>1, <3>2 DEF Runtime!Histories
  <2>4. hist'.sent = hist.sent /\ hist'.shown = c.n /\ hist'.newest = m
    BY <1>2, <2>1, <2>2 DEF Runtime!Histories
  <2>5. hist'.refused = hist.refused
    BY <1>2, <2>1, <2>2 DEF Runtime!Histories
  <2>6. QED BY <1>2, <2>1, <2>3, <2>4, <2>5
<1>4. Runtime!Sane'
  BY <1>2, <1>3 DEF Runtime!Inv, Runtime!Sane
<1>5. w <= hist'.newest \/ \E d \in calls' : d.n = w /\ d.k \in {"apply", "reset"}
  <2>1. CASE w <= hist.newest
    BY <1>2, <1>3, <2>1
  <2>2. CASE c.n = w
    BY <1>2, <1>3, <2>2
  <2>3. CASE \E d \in calls \ {c} : d.n = w /\ d.k \in {"apply", "reset"}
    BY <2>3
  <2>4. QED BY <1>1, <2>1, <2>2, <2>3 DEF Runtime!LastSent
<1>6. c.n >= w => flow' = Runtime!Form(srv.set)
  BY <1>1 DEF Runtime!LastSent
<1>7. Runtime!Form(srv'.set) = Runtime!Form(srv.set)
  OBVIOUS
<1>8. (\E v \in 0..hist.sent : Runtime!LastSent(v))'
  BY <1>1, <1>3, <1>5, <1>6, <1>7 DEF Runtime!LastSent
<1>9. QED BY <1>4, <1>8 DEF Runtime!Inv

\* A request that leaves the settings as they are.
LEMMA SettingsKept ==
  ASSUME Runtime!Inv, NEW c, c.n = hist.sent + 1, c.seen.set = srv.set,
         NEW D \in SUBSET calls, \A d \in D : d.k = "use",
         calls' = (calls \ D) \cup {c},
         hist' = [hist EXCEPT !.sent = @ + 1],
         srv' = [provider |-> srv'.provider, model |-> srv'.model, set |-> srv.set, old |-> srv.old],
         UNCHANGED flow
  PROVE  Runtime!Inv'
<1>1. PICK w \in 0..hist.sent : Runtime!LastSent(w)
  BY DEF Runtime!Inv
<1>2. hist \in Runtime!Histories /\ w \in Nat /\ hist.sent \in Nat /\ hist.shown \in Nat
      /\ hist.shown <= hist.sent /\ ~hist.refused /\ \A d \in calls : d.n \in 0..hist.sent
  BY DEF Runtime!Inv, Runtime!Sane, Runtime!Histories
<1>3. /\ hist' \in Runtime!Histories /\ hist'.sent = hist.sent + 1 /\ hist'.shown = hist.shown
      /\ hist'.newest = hist.newest /\ hist'.clean = hist.clean
      /\ ~hist'.refused
  BY <1>2 DEF Runtime!Histories
<1>4. srv'.set = srv.set /\ Runtime!Form(srv'.set) = Runtime!Form(srv.set)
  <2>1. srv'.set = srv.set
    OBVIOUS
  <2>2. QED BY <2>1
<1>5. Runtime!Sane'
  <2>1. \A d \in calls' : d.n \in 0..hist'.sent
    BY <1>2, <1>3
  <2>2. srv' = [provider |-> srv'.provider, model |-> srv'.model, set |-> srv'.set, old |-> srv'.old]
    OBVIOUS
  <2>3. QED BY <1>2, <1>3, <2>1, <2>2 DEF Runtime!Sane
<1>6. w \in 0..hist'.sent /\ Runtime!LastSent(w)'
  <2>1. w <= hist'.newest \/ \E d \in calls' : d.n = w /\ d.k \in {"apply", "reset"}
    BY <1>1, <1>3 DEF Runtime!LastSent
  <2>2. QED BY <1>1, <1>2, <1>3, <1>4, <2>1 DEF Runtime!LastSent
<1>7. QED BY <1>5, <1>6 DEF Runtime!Inv

\* A request that may set them: what is known starts with it.
LEMMA SettingsSent ==
  ASSUME Runtime!Inv, NEW c, c.n = hist.sent + 1, c.seen.set = srv'.set,
         c.k \in {"apply", "reset"}, calls' = calls \cup {c},
         hist' \in Runtime!Histories, hist'.sent = hist.sent + 1, hist'.shown = hist.shown,
         ~hist'.refused,
         srv' = [provider |-> srv'.provider, model |-> srv'.model, set |-> srv'.set, old |-> srv'.old]
  PROVE  Runtime!Inv'
<1> DEFINE w == hist.sent + 1
<1>1. hist \in Runtime!Histories /\ w \in Nat /\ hist.sent \in Nat /\ hist.shown \in Nat
      /\ hist.shown <= hist.sent /\ ~hist.refused /\ \A d \in calls : d.n \in 0..hist.sent
  BY DEF Runtime!Inv, Runtime!Sane, Runtime!Histories
<1>2. Runtime!Sane'
  <2>1. \A d \in calls' : d.n \in 0..hist'.sent
    BY <1>1
  <2>2. QED BY <1>1, <2>1 DEF Runtime!Sane
<1>3. w \in 0..hist'.sent /\ \A d \in calls' : d.n >= w => d = c
  BY <1>1
<1>4. ~(hist'.shown >= w) /\ \E d \in calls' : d.n = w /\ d.k \in {"apply", "reset"}
  BY <1>1
<1> HIDE DEF w
<1>5. (\E v \in 0..hist.sent : Runtime!LastSent(v))'
  BY <1>3, <1>4 DEF Runtime!LastSent
<1>6. QED BY <1>2, <1>5 DEF Runtime!Inv

LEMMA RuntimeStep == Runtime!Inv /\ Runtime!Next => Runtime!Inv'
<1> SUFFICES ASSUME Runtime!Inv, Runtime!Next PROVE Runtime!Inv'
  OBVIOUS
<1>0. /\ hist \in Runtime!Histories /\ ~hist.refused
      /\ srv = [provider |-> srv.provider, model |-> srv.model, set |-> srv.set, old |-> srv.old]
      /\ \A c \in calls : c.n \in Nat
  BY DEF Runtime!Inv, Runtime!Sane, Runtime!Histories
<1>1. ASSUME UNCHANGED <<flow, calls, srv>>,
             hist' \in Runtime!Histories, hist'.sent = hist.sent, hist'.shown = hist.shown,
             hist'.newest = hist.newest, (hist'.clean => hist.clean), ~hist'.refused
      PROVE  Runtime!Inv'
  <2>1. PICK w \in 0..hist.sent : Runtime!LastSent(w)
    BY DEF Runtime!Inv
  <2>2. Runtime!Form(srv'.set) = Runtime!Form(srv.set)
    BY <1>1
  <2>3. (\E v \in 0..hist.sent : Runtime!LastSent(v))'
    BY <1>1, <2>1, <2>2 DEF Runtime!LastSent
  <2>4. QED BY <1>1, <2>3 DEF Runtime!Inv, Runtime!Sane
<1>2. ASSUME NEW c \in calls, calls' = calls \ {c}, Runtime!Unknown(c), UNCHANGED <<flow, srv>>
      PROVE  Runtime!Inv'
  <2>1. /\ hist' \in Runtime!Histories /\ hist'.sent = hist.sent /\ hist'.shown = hist.shown
        /\ hist'.clean = hist.clean /\ hist'.newest >= hist.newest /\ hist'.newest >= c.n
        /\ ~hist'.refused
    BY <1>0, <1>2 DEF Runtime!Unknown, Runtime!Histories
  <2>2. calls' \in SUBSET calls /\ calls \ {c} \subseteq calls'
    BY <1>2
  <2>3. QED BY <1>2, <2>1, <2>2, NothingShown
<1>3. CASE Runtime!LoadAnswered
  <2>1. PICK c \in calls :
          /\ c.k = "load" /\ calls' = calls \ {c}
          /\ \/ IF srv.old THEN UNCHANGED <<flow, hist>>
                ELSE flow' = Runtime!Form(c.seen.set) /\ Runtime!Shows(c)
             \/ Runtime!Unknown(c) /\ UNCHANGED flow
          /\ UNCHANGED srv
    BY <1>3 DEF Runtime!LoadAnswered
  <2>2. CASE UNCHANGED <<flow, hist>>
    <3>1. /\ hist' \in Runtime!Histories /\ hist'.sent = hist.sent /\ hist'.shown = hist.shown
          /\ hist'.clean = hist.clean /\ hist'.newest >= hist.newest /\ ~hist'.refused
      BY <1>0, <2>2 DEF Runtime!Histories
    <3>2. calls' \in SUBSET calls /\ calls \ {c} \subseteq calls' /\ ~(c.k \in {"apply", "reset"})
      BY <2>1
    <3>3. QED BY <2>1, <2>2, <3>1, <3>2, NothingShown
  <2>3. CASE flow' = Runtime!Form(c.seen.set) /\ Runtime!Shows(c)
    BY <2>1, <2>3, AnswerShown
  <2>4. QED BY <1>2, <2>1, <2>2, <2>3
<1>4. CASE Runtime!Reload
  <2>1. PICK c : c = Runtime!Call("load", TRUE, srv)
    OBVIOUS
  <2>2. calls' = (calls \ {}) \cup {c} /\ hist' = [hist EXCEPT !.sent = @ + 1] /\ UNCHANGED <<flow, srv>>
    BY <1>4, <2>1 DEF Runtime!Reload, Runtime!Send
  <2>3. c.n = hist.sent + 1 /\ c.seen.set = srv.set
    BY <2>1 DEF Runtime!Call, Runtime!Snapshot
  <2>4. srv' = [provider |-> srv'.provider, model |-> srv'.model, set |-> srv.set, old |-> srv.old]
    BY <1>0, <2>2
  <2>5. {} \in SUBSET calls /\ (\A d \in {} : d.k = "use") /\ UNCHANGED flow
    BY <2>2
  <2>6. QED BY <2>2, <2>3, <2>4, <2>5, SettingsKept
<1>5. CASE Runtime!PickProvider \/ Runtime!PickModel
  BY <1>0, <1>1, <1>5 DEF Runtime!PickProvider, Runtime!PickModel
<1>6. CASE Runtime!ApplyBasic
  <2>1. PICK ok \in BOOLEAN :
          /\ srv' = IF ok THEN [srv EXCEPT !.provider = page.provider, !.model = page.model] ELSE srv
          /\ Runtime!Send({}, Runtime!Call("use", ok, srv')) /\ UNCHANGED flow
    BY <1>6 DEF Runtime!ApplyBasic
  <2>2. PICK c : c = Runtime!Call("use", ok, srv')
    OBVIOUS
  <2>3. calls' = (calls \ {}) \cup {c} /\ hist' = [hist EXCEPT !.sent = @ + 1] /\ UNCHANGED flow
    BY <2>1, <2>2 DEF Runtime!Send
  <2>4. srv' = [provider |-> srv'.provider, model |-> srv'.model, set |-> srv.set, old |-> srv.old]
    BY <1>0, <2>1
  <2>5. srv'.set = srv.set
    BY <2>4
  <2>6. c.n = hist.sent + 1 /\ c.seen.set = srv.set
    BY <2>2, <2>5 DEF Runtime!Call, Runtime!Snapshot
  <2>7. {} \in SUBSET calls /\ \A d \in {} : d.k = "use"
    OBVIOUS
  <2>8. QED BY <2>3, <2>4, <2>6, <2>7, SettingsKept
<1>7. CASE Runtime!BasicAnswered
  <2>1. PICK b \in calls :
          /\ b.k = "use" /\ UNCHANGED <<flow, srv>>
          /\ \/ Runtime!Send({b}, Runtime!Call("load", TRUE, srv))
             \/ calls' = calls \ {b} /\ UNCHANGED hist
    BY <1>7 DEF Runtime!BasicAnswered
  <2>2. CASE Runtime!Send({b}, Runtime!Call("load", TRUE, srv))
    <3>1. PICK c : c = Runtime!Call("load", TRUE, srv)
      OBVIOUS
    <3>2. calls' = (calls \ {b}) \cup {c} /\ hist' = [hist EXCEPT !.sent = @ + 1]
      BY <2>2, <3>1 DEF Runtime!Send
    <3>3. c.n = hist.sent + 1 /\ c.seen.set = srv.set
      BY <3>1 DEF Runtime!Call, Runtime!Snapshot
    <3>4. {b} \in SUBSET calls /\ \A d \in {b} : d.k = "use"
      BY <2>1
    <3>5. QED BY <1>0, <2>1, <3>2, <3>3, <3>4, SettingsKept
  <2>3. CASE calls' = calls \ {b} /\ UNCHANGED hist
    <3>1. /\ hist' \in Runtime!Histories /\ hist'.sent = hist.sent /\ hist'.shown = hist.shown
          /\ hist'.clean = hist.clean /\ hist'.newest >= hist.newest /\ ~hist'.refused
      BY <1>0, <2>3 DEF Runtime!Histories
    <3>2. calls' \in SUBSET calls /\ calls \ {b} \subseteq calls' /\ ~(b.k \in {"apply", "reset"})
      BY <2>1, <2>3
    <3>3. QED BY <2>1, <2>3, <3>1, <3>2, NothingShown
  <2>4. QED BY <2>1, <2>2, <2>3
<1>8. CASE Runtime!Type
  <2>1. PICK w \in 0..hist.sent : Runtime!LastSent(w)
    BY DEF Runtime!Inv
  <2>2. /\ hist' \in Runtime!Histories /\ hist'.sent = hist.sent /\ hist'.shown = hist.shown
        /\ hist'.newest = hist.newest /\ ~hist'.clean /\ ~hist'.refused
        /\ UNCHANGED <<calls, srv>>
    BY <1>0, <1>8 DEF Runtime!Type, Runtime!Histories
  <2>3. (\E v \in 0..hist.sent : Runtime!LastSent(v))'
    BY <2>1, <2>2 DEF Runtime!LastSent
  <2>4. QED BY <2>2, <2>3 DEF Runtime!Inv, Runtime!Sane
<1>9. CASE Runtime!ApplyAdvanced
  <2>1. CASE Runtime!Wrong(flow) # {}
    BY <1>0, <1>1, <1>9, <2>1 DEF Runtime!ApplyAdvanced
  <2>2. CASE Runtime!Wrong(flow) = {}
    <3>1. PICK set : set = Runtime!Request(flow)
      OBVIOUS
    <3>2. Runtime!Accepted(set)
      BY <2>2, <3>1, PanelIsStrict
    <3>3. /\ srv' = [srv EXCEPT !.set = set]
          /\ calls' = calls \cup {[Runtime!Call("apply", TRUE, srv') EXCEPT !.seen =
                                     [set |-> srv'.set, restart |-> Runtime!Restarts(set)]]}
          /\ hist' = [hist EXCEPT !.sent = @ + 1, !.refused = @ \/ FALSE]
          /\ UNCHANGED flow
      BY <1>9, <2>2, <3>1, <3>2 DEF Runtime!ApplyAdvanced
    <3>4. PICK c : c = [Runtime!Call("apply", TRUE, srv') EXCEPT !.seen =
                          [set |-> srv'.set, restart |-> Runtime!Restarts(set)]]
      OBVIOUS
    <3>5. c.n = hist.sent + 1 /\ c.k = "apply" /\ c.seen.set = srv'.set
      BY <3>4 DEF Runtime!Call
    <3>6. hist' \in Runtime!Histories /\ hist'.sent = hist.sent + 1 /\ hist'.shown = hist.shown
          /\ ~hist'.refused
      <4>1. PICK b \in BOOLEAN : b = (hist.refused \/ FALSE) /\ ~b
        BY <1>0
      <4>2. hist' = [hist EXCEPT !.sent = @ + 1, !.refused = b]
        BY <3>3, <4>1, Zenon
      <4>3. hist' \in Runtime!Histories
        <5>1. hist' = [sent |-> hist.sent + 1, newest |-> hist.newest, shown |-> hist.shown,
                       clean |-> hist.clean, refused |-> b]
          BY <1>0, <4>2 DEF Runtime!Histories
        <5>2. QED BY <1>0, <5>1 DEF Runtime!Histories
      <4>4. hist'.sent = hist.sent + 1 /\ hist'.shown = hist.shown
        BY <1>0, <4>1, <4>2 DEF Runtime!Histories
      <4>5. hist'.refused = b
        BY <1>0, <4>1, <4>2 DEF Runtime!Histories
      <4>6. QED BY <4>1, <4>3, <4>4, <4>5
    <3>7. srv' = [provider |-> srv'.provider, model |-> srv'.model, set |-> srv'.set, old |-> srv'.old]
      BY <1>0, <3>3
    <3>8. QED BY <3>3, <3>4, <3>5, <3>6, <3>7, SettingsSent
  <2>3. QED BY <2>1, <2>2
<1>10. CASE Runtime!AdvancedAnswered
  <2>1. PICK c \in calls :
          /\ calls' = calls \ {c} /\ UNCHANGED srv
          /\ \/ flow' = Runtime!Form(c.seen.set) /\ Runtime!Shows(c)
             \/ Runtime!Unknown(c) /\ UNCHANGED flow
    BY <1>10 DEF Runtime!AdvancedAnswered, Runtime!Stored
  <2>2. QED BY <1>2, <2>1, AnswerShown
<1>11. CASE Runtime!Reset
  <2>1. PICK c : c = Runtime!Call("reset", TRUE, srv')
    OBVIOUS
  <2>2. /\ srv' = [srv EXCEPT !.set = Runtime!Blank]
        /\ calls' = calls \cup {c} /\ hist' = [hist EXCEPT !.sent = @ + 1] /\ UNCHANGED flow
    BY <1>11, <2>1 DEF Runtime!Reset, Runtime!Send
  <2>3. c.n = hist.sent + 1 /\ c.k = "reset" /\ c.seen.set = srv'.set
    BY <2>1 DEF Runtime!Call, Runtime!Snapshot
  <2>4. hist' \in Runtime!Histories /\ hist'.sent = hist.sent + 1 /\ hist'.shown = hist.shown
        /\ ~hist'.refused
    BY <1>0, <2>2 DEF Runtime!Histories
  <2>5. srv' = [provider |-> srv'.provider, model |-> srv'.model, set |-> srv'.set, old |-> srv'.old]
    BY <1>0, <2>2
  <2>6. QED BY <2>2, <2>3, <2>4, <2>5, SettingsSent
<1>12. CASE Runtime!ResetAnswered
  <2>1. PICK c \in calls :
          /\ calls' = calls \ {c} /\ UNCHANGED srv
          /\ \/ flow' = Runtime!Form(c.seen.set) /\ Runtime!Shows(c)
             \/ Runtime!Unknown(c) /\ UNCHANGED flow
    BY <1>12 DEF Runtime!ResetAnswered
  <2>2. QED BY <1>2, <2>1, AnswerShown
<1>13. QED
  BY <1>3, <1>4, <1>5, <1>6, <1>7, <1>8, <1>9, <1>10, <1>11, <1>12 DEF Runtime!Next

LEMMA RuntimeHolds == Runtime!Inv => Runtime!ServerTakesIt /\ Runtime!ShownIsStored
<1> SUFFICES ASSUME Runtime!Inv PROVE Runtime!ServerTakesIt /\ Runtime!ShownIsStored
  OBVIOUS
<1>1. Runtime!ServerTakesIt
  BY DEF Runtime!Inv, Runtime!Sane, Runtime!Histories, Runtime!ServerTakesIt
<1>2. ASSUME calls = {}, hist.clean, hist.shown = hist.newest PROVE flow = Runtime!Form(srv.set)
  <2>1. PICK w \in 0..hist.sent : Runtime!LastSent(w)
    BY DEF Runtime!Inv
  <2>2. hist.newest \in Nat /\ w \in Nat
    BY DEF Runtime!Inv, Runtime!Sane, Runtime!Histories
  <2>3. QED BY <1>2, <2>1, <2>2 DEF Runtime!LastSent
<1>3. QED BY <1>1, <1>2 DEF Runtime!ShownIsStored

-----------------------------------------------------------------------------
(* The settings page *)

LEMMA SettingsInit == Settings!Init => Settings!Inv
<1> SUFFICES ASSUME Settings!Init PROVE Settings!Inv
  OBVIOUS
<1>1. PICK demo \in BOOLEAN :
       /\ flow = [demo |-> demo, failed |-> {}, confirm |-> Settings!None,
                  deleting |-> Settings!None, forgetting |-> Settings!None, clearing |-> "idle",
                  emptying |-> FALSE, importing |-> FALSE, deleteErr |-> FALSE]
       /\ calls = {[k |-> "list", l |-> l, x |-> Settings!None, n |-> 0, ok |-> TRUE,
                    seen |-> srv[l]] :
                     l \in IF demo THEN Settings!Lists \ {"packs"} ELSE Settings!Lists}
  BY DEF Settings!Init
<1>2. /\ srv = Content /\ page = [l \in Settings!Lists |-> Settings!Unread]
      /\ hist = [sent |-> 0, base |-> [l \in Settings!Lists |-> 0],
                 wrote |-> [l \in Settings!Lists |-> 0], dirty |-> {}]
  BY DEF Settings!Init
<1>3. \A c \in calls : c.k = "list" /\ c.n = 0 /\ c.l \in Settings!Lists /\ c.seen = srv[c.l]
  BY <1>1
<1>4. hist \in Settings!Histories
  BY <1>2 DEF Settings!Histories
<1>5. Settings!Typed
  BY <1>1, <1>2, <1>3, <1>4, WebAssumption DEF Settings!Typed, Settings!Lists
<1>6. Settings!Gone /\ Settings!ListsFollow
  BY <1>3 DEF Settings!Gone, Settings!ListsFollow, Settings!Differ
<1>7. Settings!RowsFollow
  BY <1>2 DEF Settings!RowsFollow
<1>8. Settings!DoneMeansGone /\ Settings!BusyIsAnswered
  BY <1>1 DEF Settings!DoneMeansGone, Settings!BusyIsAnswered
<1>9. QED BY <1>5, <1>6, <1>7, <1>8 DEF Settings!Inv

\* A request: its list may change by what it is about, another one only if it is dirty.
LEMMA RequestFollowed ==
  ASSUME Settings!Typed, Settings!RowsFollow, Settings!ListsFollow,
         NEW c, c.n = hist.sent + 1, c.l \in Settings!Lists,
         c.k = "list" => c.seen = srv'[c.l],
         calls' = calls \cup {c}, page' = page,
         hist'.base = hist.base, hist.dirty \subseteq hist'.dirty,
         \A l \in Settings!Lists : hist'.wrote[l] \in {hist.wrote[l], hist.sent + 1},
         \A l \in Settings!Lists \ {c.l} :
           srv'[l] = srv[l] \/ (l \in hist'.dirty /\ hist'.wrote[l] = hist.sent + 1),
         \A x \in Settings!Differ(srv[c.l], srv'[c.l]) : Settings!Affects(c, x)
  PROVE  Settings!RowsFollow' /\ Settings!ListsFollow'
<1>1. /\ hist.sent \in Nat /\ \A l \in Settings!Lists : hist.base[l] \in Nat /\ hist.wrote[l] \in Nat
      /\ \A l \in Settings!Lists : hist.base[l] <= hist.sent
      /\ \A d \in calls : d.n \in Nat /\ d.n <= hist.sent /\ d.l \in Settings!Lists
  BY DEF Settings!Typed, Settings!Histories
<1>2. Settings!RowsFollow'
  <2> SUFFICES ASSUME NEW l \in Settings!Lists \ hist'.dirty, page[l] # Settings!Unread,
                      NEW x \in Settings!Differ(page[l], srv'[l])
               PROVE  \E d \in calls' : d.l = l /\ d.n > hist.base[l]
                                        /\ (d.k = "list" \/ Settings!Affects(d, x))
    BY DEF Settings!RowsFollow, Settings!Affects, Settings!Unread, Settings!None
  <2>1. CASE x \in Settings!Differ(page[l], srv[l])
    BY <2>1 DEF Settings!RowsFollow
  <2>2. CASE x \notin Settings!Differ(page[l], srv[l])
    <3>1. l = c.l
      BY <2>2 DEF Settings!Differ
    <3>2. x \in Settings!Differ(srv[l], srv'[l])
      BY <2>2 DEF Settings!Differ
    <3>3. c.n > hist.base[l]
      BY <1>1
    <3>4. QED BY <3>1, <3>2, <3>3
  <2>3. QED BY <2>1, <2>2
<1>3. Settings!ListsFollow'
  <2> SUFFICES ASSUME NEW e \in calls', e.k = "list", NEW x \in Settings!Differ(e.seen, srv'[e.l])
               PROVE  \/ hist'.wrote[e.l] > e.n
                      \/ \E d \in calls' : d.l = e.l /\ d.n > e.n /\ Settings!Affects(d, x)
    BY DEF Settings!ListsFollow, Settings!Affects
  <2>1. e # c
    BY DEF Settings!Differ
  <2>2. e \in calls /\ e.n \in Nat /\ e.n <= hist.sent /\ e.l \in Settings!Lists
    BY <1>1, <2>1
  <2>3. CASE hist'.wrote[e.l] = hist.sent + 1
    BY <1>1, <2>2, <2>3
  <2>4. CASE x \in Settings!Differ(e.seen, srv[e.l]) /\ hist'.wrote[e.l] = hist.wrote[e.l]
    BY <2>2, <2>4 DEF Settings!ListsFollow
  <2>5. CASE x \notin Settings!Differ(e.seen, srv[e.l]) /\ hist'.wrote[e.l] # hist.sent + 1
    <3>1. x \in Settings!Differ(srv[e.l], srv'[e.l])
      BY <2>5 DEF Settings!Differ
    <3>2. e.l = c.l
      BY <1>1, <2>2, <2>5, <3>1 DEF Settings!Differ
    <3>3. QED BY <1>1, <2>2, <3>1, <3>2
  <2>6. QED BY <2>2, <2>3, <2>4, <2>5
<1>4. QED BY <1>2, <1>3

\* An answer, after which the list may be asked for again: what it changed is noted,
\* and shown unless the list is dirty or is to come.
LEMMA AnswerFollowed ==
  ASSUME Settings!Typed, Settings!RowsFollow, Settings!ListsFollow,
         NEW c \in calls, NEW R, calls' = (calls \ {c}) \cup R, srv' = srv,
         \A r \in R : r.k = "list" /\ r.n = hist.sent /\ r.l = c.l /\ r.seen = srv[c.l],
         hist'.base = hist.base, hist.dirty \subseteq hist'.dirty,
         \A l \in Settings!Lists : hist'.wrote[l] \in Nat /\ hist'.wrote[l] >= hist.wrote[l],
         hist'.wrote[c.l] >= c.n,
         \A l \in Settings!Lists \ {c.l} : page'[l] = page[l],
         c.l \notin hist'.dirty /\ page'[c.l] # Settings!Unread =>
           \A x \in Settings!Differ(page'[c.l], srv[c.l]) :
             /\ page[c.l] # Settings!Unread /\ x \in Settings!Differ(page[c.l], srv[c.l])
             /\ R # {} \/ ~(c.k = "list" \/ Settings!Affects(c, x)) \/ c.n <= hist.base[c.l]
  PROVE  Settings!RowsFollow' /\ Settings!ListsFollow'
<1>1. /\ hist.sent \in Nat /\ \A l \in Settings!Lists : hist.base[l] \in Nat /\ hist.wrote[l] \in Nat
      /\ \A d \in calls : d.n \in Nat /\ d.n <= hist.sent /\ d.l \in Settings!Lists
  BY DEF Settings!Typed, Settings!Histories
<1>2. Settings!RowsFollow'
  <2> SUFFICES ASSUME NEW l \in Settings!Lists \ hist'.dirty, page'[l] # Settings!Unread,
                      NEW x \in Settings!Differ(page'[l], srv[l])
               PROVE  \E d \in calls' : d.l = l /\ d.n > hist.base[l]
                                        /\ (d.k = "list" \/ Settings!Affects(d, x))
    BY DEF Settings!RowsFollow, Settings!Affects, Settings!Unread, Settings!None
  <2>1. page[l] # Settings!Unread /\ x \in Settings!Differ(page[l], srv[l])
    OBVIOUS
  <2>2. PICK d \in calls : d.l = l /\ d.n > hist.base[l] /\ (d.k = "list" \/ Settings!Affects(d, x))
    BY <2>1 DEF Settings!RowsFollow
  <2>3. CASE d # c
    BY <2>2, <2>3
  <2>4. CASE d = c
    <3>1. PICK r \in R : TRUE
      BY <1>1, <2>2, <2>4
    <3>2. r \in calls' /\ r.l = l /\ r.n > hist.base[l] /\ r.k = "list"
      BY <1>1, <2>2, <2>4
    <3>3. QED BY <3>2
  <2>5. QED BY <2>3, <2>4
<1>3. Settings!ListsFollow'
  <2> SUFFICES ASSUME NEW e \in calls', e.k = "list", NEW x \in Settings!Differ(e.seen, srv[e.l])
               PROVE  \/ hist'.wrote[e.l] > e.n
                      \/ \E d \in calls' : d.l = e.l /\ d.n > e.n /\ Settings!Affects(d, x)
    BY DEF Settings!ListsFollow, Settings!Affects
  <2>1. e \in calls
    BY DEF Settings!Differ
  <2>2. CASE hist.wrote[e.l] > e.n
    BY <1>1, <2>1, <2>2
  <2>3. CASE \E d \in calls : d.l = e.l /\ d.n > e.n /\ Settings!Affects(d, x)
    <3>1. PICK d \in calls : d.l = e.l /\ d.n > e.n /\ Settings!Affects(d, x)
      BY <2>3
    <3>2. CASE d = c
      BY <1>1, <2>1, <3>1, <3>2
    <3>3. CASE d # c
      BY <3>1, <3>3
    <3>4. QED BY <3>2, <3>3
  <2>4. QED BY <2>1, <2>2, <2>3 DEF Settings!ListsFollow
<1>4. QED BY <1>2, <1>3
\* A list that came.
LEMMA ListFollowed ==
  ASSUME Settings!Typed, Settings!RowsFollow, Settings!ListsFollow,
         NEW c \in calls, c.k = "list", calls' = calls \ {c}, srv' = srv,
         page' = [page EXCEPT ![c.l] = c.seen],
         hist'.base = [hist.base EXCEPT ![c.l] = c.n], hist'.wrote = hist.wrote,
         hist'.dirty = IF hist.wrote[c.l] > c.n THEN hist.dirty \cup {c.l} ELSE hist.dirty \ {c.l}
  PROVE  Settings!RowsFollow' /\ Settings!ListsFollow'
<1>1. /\ hist.base \in [Settings!Lists -> Nat] /\ c.l \in Settings!Lists
      /\ Settings!Lists \subseteq DOMAIN page
  BY DEF Settings!Typed, Settings!Histories
<1>2. \A d, x : d.k = "list" => ~Settings!Affects(d, x)
  BY DEF Settings!Affects
<1>3. Settings!RowsFollow'
  <2> SUFFICES ASSUME NEW l \in Settings!Lists \ hist'.dirty, page'[l] # Settings!Unread,
                      NEW x \in Settings!Differ(page'[l], srv[l])
               PROVE  \E d \in calls' : d.l = l /\ d.n > hist'.base[l]
                                        /\ (d.k = "list" \/ Settings!Affects(d, x))
    BY DEF Settings!RowsFollow, Settings!Affects, Settings!Unread, Settings!None
  <2>1. CASE l = c.l
    <3>1. page'[l] = c.seen /\ hist'.base[l] = c.n /\ ~(hist.wrote[l] > c.n)
      BY <1>1, <2>1
    <3>2. PICK d \in calls : d.l = l /\ d.n > c.n /\ Settings!Affects(d, x)
      BY <2>1, <3>1 DEF Settings!ListsFollow
    <3>3. d # c
      BY <1>2, <3>2
    <3>4. QED BY <3>1, <3>2, <3>3
  <2>2. CASE l # c.l
    <3>1. page'[l] = page[l] /\ hist'.base[l] = hist.base[l] /\ l \notin hist.dirty
      BY <1>1, <2>2
    <3>2. PICK d \in calls : d.l = l /\ d.n > hist.base[l] /\ (d.k = "list" \/ Settings!Affects(d, x))
      BY <3>1 DEF Settings!RowsFollow
    <3>3. QED BY <2>2, <3>1, <3>2
  <2>3. QED BY <2>1, <2>2
<1>4. Settings!ListsFollow'
  <2> SUFFICES ASSUME NEW e \in calls', e.k = "list", NEW x \in Settings!Differ(e.seen, srv[e.l]),
                      ~(hist.wrote[e.l] > e.n)
               PROVE  \E d \in calls' : d.l = e.l /\ d.n > e.n /\ Settings!Affects(d, x)
    BY DEF Settings!ListsFollow, Settings!Affects
  <2>1. PICK d \in calls : d.l = e.l /\ d.n > e.n /\ Settings!Affects(d, x)
    BY DEF Settings!ListsFollow
  <2>2. QED BY <1>2, <2>1
<1>5. QED BY <1>3, <1>4

\* Nothing comes back to a list of sessions or of memories.
LEMMA GoneStays ==
  ASSUME Settings!Gone,
         srv'["sessions"] \subseteq srv["sessions"], srv'["recaps"] \subseteq srv["recaps"],
         \A c \in calls' \ calls :
           /\ c.k = "delete" => c.x \notin srv'["sessions"]
           /\ c.k = "forget" => c.x \notin srv'["recaps"]
           /\ c.k \in {"empty", "clear"} => srv'["recaps"] = {}
           /\ c.k = "clear" => srv'["sessions"] = {}
  PROVE  Settings!Gone'
<1> SUFFICES ASSUME NEW c \in calls'
             PROVE  /\ c.k = "delete" => c.x \notin srv'["sessions"]
                    /\ c.k = "forget" => c.x \notin srv'["recaps"]
                    /\ c.k \in {"empty", "clear"} => srv'["recaps"] = {}
                    /\ c.k = "clear" => srv'["sessions"] = {}
  BY DEF Settings!Gone
<1>1. CASE c \in calls
  BY <1>1 DEF Settings!Gone
<1>2. QED BY <1>1

\* What is busy stays so, but for the control that is answered.
LEMMA BusyStays ==
  ASSUME Settings!BusyIsAnswered, NEW kind,
         \A c \in calls : c.k # kind => c \in calls',
         flow'.deleting = Settings!None \/ (flow'.deleting = flow.deleting /\ kind # "delete")
           \/ \E c \in calls' : c.k = "delete" /\ c.x = flow'.deleting,
         flow'.clearing = "clearing" =>
           (flow.clearing = "clearing" /\ kind # "clear")
             \/ \E c \in calls' : c.k = "clear" /\ c.x = Settings!None,
         flow'.forgetting = Settings!None \/ (flow'.forgetting = flow.forgetting /\ kind # "forget")
           \/ \E c \in calls' : c.k = "forget" /\ c.x = flow'.forgetting,
         flow'.emptying =>
           (flow.emptying /\ kind # "empty") \/ \E c \in calls' : c.k = "empty" /\ c.x = Settings!None,
         flow'.importing =>
           (flow.importing /\ kind # "import") \/ \E c \in calls' : c.k = "import" /\ c.x = NewPack
  PROVE  Settings!BusyIsAnswered'
<1>1. flow'.deleting # Settings!None => \E c \in calls' : c.k = "delete" /\ c.x = flow'.deleting
  BY DEF Settings!BusyIsAnswered
<1>2. flow'.clearing = "clearing" => \E c \in calls' : c.k = "clear" /\ c.x = Settings!None
  BY DEF Settings!BusyIsAnswered
<1>3. flow'.forgetting # Settings!None => \E c \in calls' : c.k = "forget" /\ c.x = flow'.forgetting
  BY DEF Settings!BusyIsAnswered
<1>4. flow'.emptying => \E c \in calls' : c.k = "empty" /\ c.x = Settings!None
  BY DEF Settings!BusyIsAnswered
<1>5. flow'.importing => \E c \in calls' : c.k = "import" /\ c.x = NewPack
  BY DEF Settings!BusyIsAnswered
<1>6. QED BY <1>1, <1>2, <1>3, <1>4, <1>5 DEF Settings!BusyIsAnswered, Settings!None

\* What an answer is noted as.
LEMMA Noted ==
  ASSUME hist \in Settings!Histories, NEW c, c.l \in Settings!Lists, c.n \in Nat,
         NEW D \in SUBSET Settings!Lists, NEW m, m = Settings!Larger(hist.wrote[c.l], c.n),
         hist' = [hist EXCEPT !.wrote[c.l] = m, !.dirty = D]
  PROVE  /\ hist' \in Settings!Histories /\ hist'.sent = hist.sent /\ hist'.base = hist.base
         /\ hist'.dirty = D /\ hist'.wrote[c.l] >= c.n
         /\ \A l \in Settings!Lists : hist'.wrote[l] \in Nat /\ hist'.wrote[l] >= hist.wrote[l]
<1>1. hist.wrote \in [Settings!Lists -> Nat]
  BY DEF Settings!Histories
<1>2. m \in Nat /\ m >= c.n /\ m >= hist.wrote[c.l]
  BY <1>1 DEF Settings!Larger
<1>3. PICK w : w = [hist.wrote EXCEPT ![c.l] = m]
  OBVIOUS
<1>4. /\ w \in [Settings!Lists -> Nat] /\ w[c.l] = m
      /\ \A l \in Settings!Lists : w[l] \in Nat /\ w[l] >= hist.wrote[l]
  BY <1>1, <1>2, <1>3
<1>5. hist' = [sent |-> hist.sent, base |-> hist.base, wrote |-> w, dirty |-> D]
  BY <1>3 DEF Settings!Histories
<1>6. QED BY <1>2, <1>4, <1>5 DEF Settings!Histories

LEMMA ToldNoted ==
  ASSUME Settings!Typed, NEW c \in calls, hist' = Settings!Told(c)
  PROVE  /\ hist' \in Settings!Histories /\ hist'.sent = hist.sent /\ hist'.base = hist.base
         /\ hist'.dirty = hist.dirty /\ hist'.wrote[c.l] >= c.n
         /\ \A l \in Settings!Lists : hist'.wrote[l] \in Nat /\ hist'.wrote[l] >= hist.wrote[l]
<1>1. hist \in Settings!Histories /\ c.l \in Settings!Lists /\ c.n \in Nat
  BY DEF Settings!Typed, Settings!Histories
<1>2. PICK m : m = Settings!Larger(hist.wrote[c.l], c.n)
  OBVIOUS
<1>3. PICK D \in SUBSET Settings!Lists : D = hist.dirty
  BY <1>1 DEF Settings!Histories
<1>4. hist' = [hist EXCEPT !.wrote[c.l] = m, !.dirty = D]
  <2>1. hist' = [hist EXCEPT !.wrote[c.l] = m]
    BY <1>2 DEF Settings!Told
  <2>2. QED BY <1>1, <1>3, <2>1 DEF Settings!Histories
<1>5. QED BY <1>1, <1>2, <1>3, <1>4, Noted

LEMMA UntoldNoted ==
  ASSUME Settings!Typed, NEW c \in calls, NEW changed \in BOOLEAN, hist' = Settings!Untold(c, changed)
  PROVE  /\ hist' \in Settings!Histories /\ hist'.sent = hist.sent /\ hist'.base = hist.base
         /\ hist.dirty \subseteq hist'.dirty /\ hist'.wrote[c.l] >= c.n
         /\ changed /\ c.n > hist.base[c.l] => c.l \in hist'.dirty
         /\ \A l \in Settings!Lists : hist'.wrote[l] \in Nat /\ hist'.wrote[l] >= hist.wrote[l]
<1>1. hist \in Settings!Histories /\ c.l \in Settings!Lists /\ c.n \in Nat
  BY DEF Settings!Typed, Settings!Histories
<1>2. PICK m : m = Settings!Larger(hist.wrote[c.l], c.n)
  OBVIOUS
<1>3. PICK D \in SUBSET Settings!Lists :
        D = IF changed /\ c.n > hist.base[c.l] THEN hist.dirty \cup {c.l} ELSE hist.dirty
  BY <1>1 DEF Settings!Histories
<1>4. hist' = [hist EXCEPT !.wrote[c.l] = m, !.dirty = D]
  BY <1>2, <1>3 DEF Settings!Untold
<1>5. /\ hist' \in Settings!Histories /\ hist'.sent = hist.sent /\ hist'.base = hist.base
      /\ hist'.dirty = D /\ hist'.wrote[c.l] >= c.n
      /\ \A l \in Settings!Lists : hist'.wrote[l] \in Nat /\ hist'.wrote[l] >= hist.wrote[l]
  BY <1>1, <1>2, <1>4, Noted
<1>6. QED BY <1>3, <1>5

\* Requests are counted, and nothing else is noted of most of them.
LEMMA SentNoted ==
  ASSUME Settings!Typed, hist' = [hist EXCEPT !.sent = @ + 1]
  PROVE  /\ hist' \in Settings!Histories /\ hist'.sent = hist.sent + 1 /\ hist'.base = hist.base
         /\ hist'.dirty = hist.dirty /\ hist'.wrote = hist.wrote
BY DEF Settings!Typed, Settings!Histories

LEMMA TypedStays ==
  ASSUME Settings!Typed, hist' \in Settings!Histories, hist'.sent >= hist.sent,
         \A l \in Settings!Lists : hist'.base[l] \in {hist.base[l]} \cup 0..hist.sent,
         DOMAIN srv' = DOMAIN srv, DOMAIN page' = DOMAIN page,
         flow' = [demo |-> flow'.demo, failed |-> flow'.failed, confirm |-> flow'.confirm,
                 deleting |-> flow'.deleting, forgetting |-> flow'.forgetting,
                 clearing |-> flow'.clearing, emptying |-> flow'.emptying,
                 importing |-> flow'.importing, deleteErr |-> flow'.deleteErr]
         /\ flow'.failed \subseteq Settings!Lists,
         \A c \in calls' \ calls :
           /\ c.n \in 0..hist'.sent /\ c.l \in Settings!Lists
           /\ c.k # "list" => c.k \in DOMAIN Settings!About /\ c.l = Settings!About[c.k]
  PROVE  Settings!Typed'
<1>1. hist.sent \in Nat /\ hist'.sent \in Nat /\ \A l \in Settings!Lists : hist.base[l] \in Nat
  BY DEF Settings!Typed, Settings!Histories
<1>2. \A c \in calls' :
        /\ c.n \in 0..hist'.sent /\ c.l \in Settings!Lists
        /\ c.k # "list" => c.k \in DOMAIN Settings!About /\ c.l = Settings!About[c.k]
  BY <1>1 DEF Settings!Typed
<1>3. \A l \in Settings!Lists : hist'.base[l] <= hist'.sent
  BY <1>1 DEF Settings!Typed
<1>4. QED BY <1>2, <1>3 DEF Settings!Typed

LEMMA SettingsStep == Settings!Inv /\ Settings!Next => Settings!Inv'
<1> SUFFICES ASSUME Settings!Inv, Settings!Next PROVE Settings!Inv'
  OBVIOUS
<1>a. /\ Settings!Typed /\ Settings!Gone /\ Settings!RowsFollow /\ Settings!ListsFollow
      /\ Settings!DoneMeansGone /\ Settings!BusyIsAnswered
  BY DEF Settings!Inv
<1>b. /\ hist \in Settings!Histories /\ hist.sent \in Nat
      /\ Settings!Lists \subseteq DOMAIN srv /\ Settings!Lists \subseteq DOMAIN page
      /\ flow = [demo |-> flow.demo, failed |-> flow.failed, confirm |-> flow.confirm,
                 deleting |-> flow.deleting, forgetting |-> flow.forgetting,
                 clearing |-> flow.clearing, emptying |-> flow.emptying,
                 importing |-> flow.importing, deleteErr |-> flow.deleteErr]
      /\ flow.failed \subseteq Settings!Lists
      /\ \A c \in calls : /\ c.n \in 0..hist.sent /\ c.l \in Settings!Lists
                          /\ c.k # "list" => c.k \in DOMAIN Settings!About /\ c.l = Settings!About[c.k]
  BY <1>a DEF Settings!Typed, Settings!Histories
<1>c. {"sessions", "recaps", "packs"} = Settings!Lists
  BY DEF Settings!Lists
<1>1. CASE Settings!ListAnswered
  <2>1. PICK c \in calls :
          /\ c.k = "list" /\ calls' = calls \ {c} /\ UNCHANGED <<srv, mirror>>
          /\ \/ /\ page' = [page EXCEPT ![c.l] = c.seen]
                /\ flow' = [flow EXCEPT !.failed = @ \ {c.l}] /\ Settings!Listed(c)
             \/ /\ flow' = [flow EXCEPT !.failed = @ \cup {c.l}]
                /\ hist' = Settings!Untold(c, TRUE) /\ UNCHANGED page
    BY <1>1 DEF Settings!ListAnswered
  <2>2. /\ flow' = [demo |-> flow'.demo, failed |-> flow'.failed, confirm |-> flow'.confirm,
                    deleting |-> flow'.deleting, forgetting |-> flow'.forgetting,
                    clearing |-> flow'.clearing, emptying |-> flow'.emptying,
                    importing |-> flow'.importing, deleteErr |-> flow'.deleteErr]
           /\ flow'.failed \subseteq Settings!Lists
        /\ flow'.deleting = flow.deleting /\ flow'.clearing = flow.clearing
        /\ flow'.forgetting = flow.forgetting /\ flow'.emptying = flow.emptying
        /\ flow'.importing = flow.importing
    <3>1. PICK F \in SUBSET Settings!Lists : flow' = [flow EXCEPT !.failed = F]
      <4>1. flow.failed \ {c.l} \in SUBSET Settings!Lists
            /\ flow.failed \cup {c.l} \in SUBSET Settings!Lists
        BY <1>b
      <4>2. QED BY <2>1, <4>1
    <3>2. QED BY <1>b, <3>1
  <2>3. Settings!Gone' /\ Settings!DoneMeansGone' /\ Settings!BusyIsAnswered'
    <3>1. Settings!Gone'
      BY <1>a, <2>1, GoneStays
    <3>2. Settings!BusyIsAnswered'
      BY <1>a, <2>1, <2>2, BusyStays
    <3>3. QED BY <1>a, <2>1, <2>2, <3>1, <3>2 DEF Settings!DoneMeansGone
  <2>4. CASE page' = [page EXCEPT ![c.l] = c.seen] /\ Settings!Listed(c)
    <3>1. PICK D \in SUBSET Settings!Lists :
            D = IF hist.wrote[c.l] > c.n THEN hist.dirty \cup {c.l} ELSE hist.dirty \ {c.l}
      BY <1>b DEF Settings!Histories
    <3>2. PICK b \in [Settings!Lists -> Nat] : b = [hist.base EXCEPT ![c.l] = c.n]
      <4>1. hist.base \in [Settings!Lists -> Nat] /\ c.n \in Nat
        BY <1>b DEF Settings!Histories
      <4>2. QED BY <4>1
    <3>3. hist' = [sent |-> hist.sent, base |-> b, wrote |-> hist.wrote, dirty |-> D]
      <4>1. hist' = [hist EXCEPT !.base[c.l] = c.n, !.dirty = D]
        BY <2>4, <3>1 DEF Settings!Listed
      <4>2. QED BY <1>b, <3>2, <4>1 DEF Settings!Histories
    <3>4. hist' \in Settings!Histories
      BY <1>b, <3>1, <3>2, <3>3 DEF Settings!Histories
    <3>5. Settings!RowsFollow' /\ Settings!ListsFollow'
      BY <1>a, <2>1, <2>4, <3>1, <3>2, <3>3, ListFollowed
    <3>6. \A l \in Settings!Lists : hist'.base[l] \in {hist.base[l]} \cup 0..hist.sent
      BY <1>b, <3>2, <3>3 DEF Settings!Histories
    <3>7. DOMAIN page' = DOMAIN page /\ hist'.sent >= hist.sent
      BY <1>b, <2>4, <3>3
    <3>8. Settings!Typed'
      BY <1>a, <2>1, <2>2, <3>4, <3>6, <3>7, TypedStays
    <3>9. QED BY <2>3, <3>5, <3>8 DEF Settings!Inv
  <2>5. CASE hist' = Settings!Untold(c, TRUE) /\ UNCHANGED page
    <3>1. /\ hist' \in Settings!Histories /\ hist'.sent = hist.sent /\ hist'.base = hist.base
          /\ hist.dirty \subseteq hist'.dirty /\ hist'.wrote[c.l] >= c.n
          /\ c.n > hist.base[c.l] => c.l \in hist'.dirty
          /\ \A l \in Settings!Lists : hist'.wrote[l] \in Nat /\ hist'.wrote[l] >= hist.wrote[l]
      BY <1>a, <2>5, UntoldNoted
    <3>2. PICK R : R = {}
      OBVIOUS
    <3>3. c.n \in Nat /\ hist.base[c.l] \in Nat
      BY <1>b DEF Settings!Histories
    <3>4. Settings!RowsFollow' /\ Settings!ListsFollow'
      <4>1. calls' = (calls \ {c}) \cup R
        BY <2>1, <3>2
      <4>2. c.l \notin hist'.dirty => c.n <= hist.base[c.l]
        BY <3>1, <3>3
      <4>3. \A r \in R : r.k = "list" /\ r.n = hist.sent /\ r.l = c.l /\ r.seen = srv[c.l]
        BY <3>2
      <4>4. QED BY <1>a, <2>1, <2>5, <3>1, <4>1, <4>2, <4>3, AnswerFollowed
    <3>5. Settings!Typed'
      <4>1. DOMAIN srv' = DOMAIN srv /\ DOMAIN page' = DOMAIN page /\ calls' \ calls = {}
        BY <2>1, <2>5
      <4>2. hist'.sent >= hist.sent
            /\ \A l \in Settings!Lists : hist'.base[l] \in {hist.base[l]} \cup 0..hist.sent
        BY <1>b, <3>1
      <4>3. QED BY <1>a, <2>2, <3>1, <4>1, <4>2, TypedStays
    <3>6. QED BY <2>3, <3>4, <3>5 DEF Settings!Inv
  <2>6. QED BY <2>1, <2>4, <2>5
<1>2. ASSUME UNCHANGED <<page, calls, srv, mirror, hist>>,
             /\ flow' = [demo |-> flow'.demo, failed |-> flow'.failed, confirm |-> flow'.confirm,
                              deleting |-> flow'.deleting, forgetting |-> flow'.forgetting,
                              clearing |-> flow'.clearing, emptying |-> flow'.emptying,
                              importing |-> flow'.importing, deleteErr |-> flow'.deleteErr]
                /\ flow'.failed \subseteq Settings!Lists
             /\ flow'.deleting = flow.deleting /\ flow'.forgetting = flow.forgetting
             /\ flow'.emptying = flow.emptying /\ flow'.importing = flow.importing,
             flow'.clearing \notin {"clearing", "done"} \/ flow'.clearing = flow.clearing
      PROVE  Settings!Inv'
  <2>1. Settings!Typed'
    BY <1>a, <1>2 DEF Settings!Typed
  <2>2. Settings!Gone' /\ Settings!RowsFollow' /\ Settings!ListsFollow'
    BY <1>a, <1>2 DEF Settings!Gone, Settings!RowsFollow, Settings!ListsFollow, Settings!Affects,
      Settings!Differ, Settings!Unread, Settings!None
  <2>3. Settings!BusyIsAnswered'
    BY <1>a, <1>2, BusyStays
  <2>4. Settings!DoneMeansGone'
    BY <1>a, <1>2 DEF Settings!DoneMeansGone
  <2>5. QED BY <2>1, <2>2, <2>3, <2>4 DEF Settings!Inv
<1>3. CASE Settings!AskDelete \/ Settings!CancelDelete \/ Settings!AskClear \/ Settings!CancelClear
  <2>1. /\ UNCHANGED <<page, calls, srv, mirror, hist>>
        /\ \/ \E s : flow' = [flow EXCEPT !.confirm = s]
           \/ flow' = [flow EXCEPT !.clearing = "confirming"]
           \/ flow' = [flow EXCEPT !.clearing = "idle"]
    BY <1>3 DEF Settings!AskDelete, Settings!CancelDelete, Settings!AskClear, Settings!CancelClear
  <2>2. /\ flow' = [demo |-> flow'.demo, failed |-> flow'.failed, confirm |-> flow'.confirm,
                    deleting |-> flow'.deleting, forgetting |-> flow'.forgetting,
                    clearing |-> flow'.clearing, emptying |-> flow'.emptying,
                    importing |-> flow'.importing, deleteErr |-> flow'.deleteErr]
           /\ flow'.failed \subseteq Settings!Lists
        /\ flow'.deleting = flow.deleting /\ flow'.forgetting = flow.forgetting
        /\ flow'.emptying = flow.emptying /\ flow'.importing = flow.importing
        /\ flow'.clearing \notin {"clearing", "done"} \/ flow'.clearing = flow.clearing
    <3>1. CASE \E s : flow' = [flow EXCEPT !.confirm = s]
      BY <1>b, <3>1
    <3>2. CASE flow' = [flow EXCEPT !.clearing = "confirming"]
      BY <1>b, <3>2
    <3>3. CASE flow' = [flow EXCEPT !.clearing = "idle"]
      BY <1>b, <3>3
    <3>4. QED BY <2>1, <3>1, <3>2, <3>3
  <2>3. QED BY <1>2, <2>1, <2>2
<1>4. ASSUME NEW c, c.n = hist.sent + 1, c.l \in Settings!Lists,
             c.k = "list" => c.seen = srv'[c.l],
             c.k # "list" => c.k \in DOMAIN Settings!About /\ c.l = Settings!About[c.k],
             c.k = "delete" => c.x \notin srv'["sessions"],
             c.k = "forget" => c.x \notin srv'["recaps"],
             c.k = "empty" => srv'["recaps"] = {}, c.k # "clear",
             Settings!Send(c),
             UNCHANGED <<page, mirror>>, DOMAIN srv' = DOMAIN srv,
             \A l \in Settings!Lists \ {c.l} : srv'[l] = srv[l],
             c.l # "packs" => srv'[c.l] \subseteq srv[c.l],
             \A x \in Settings!Differ(srv[c.l], srv'[c.l]) : Settings!Affects(c, x),
             flow' = [demo |-> flow'.demo, failed |-> flow'.failed, confirm |-> flow'.confirm,
                     deleting |-> flow'.deleting, forgetting |-> flow'.forgetting,
                     clearing |-> flow'.clearing, emptying |-> flow'.emptying,
                     importing |-> flow'.importing, deleteErr |-> flow'.deleteErr]
         /\ flow'.failed \subseteq Settings!Lists,
             flow'.clearing = flow.clearing, Settings!BusyIsAnswered'
      PROVE  Settings!Inv'
  <2>0. calls' = calls \cup {c} /\ hist' = [hist EXCEPT !.sent = @ + 1]
    BY <1>4 DEF Settings!Send
  <2>1. /\ hist' \in Settings!Histories /\ hist'.sent = hist.sent + 1 /\ hist'.base = hist.base
        /\ hist'.dirty = hist.dirty /\ hist'.wrote = hist.wrote
    BY <1>a, <2>0, SentNoted
  <2>2. srv'["sessions"] \subseteq srv["sessions"] /\ srv'["recaps"] \subseteq srv["recaps"]
    BY <1>4, <1>c
  <2>3. Settings!Typed'
    <3>1. DOMAIN page' = DOMAIN page /\ hist'.sent >= hist.sent
          /\ \A l \in Settings!Lists : hist'.base[l] \in {hist.base[l]} \cup 0..hist.sent
      BY <1>b, <1>4, <2>1
    <3>2. \A d \in calls' \ calls :
            /\ d.n \in 0..hist'.sent /\ d.l \in Settings!Lists
            /\ d.k # "list" => d.k \in DOMAIN Settings!About /\ d.l = Settings!About[d.k]
      BY <1>b, <1>4, <2>0, <2>1
    <3>3. QED BY <1>a, <1>4, <2>1, <3>1, <3>2, TypedStays
  <2>4. Settings!Gone'
    BY <1>a, <1>4, <2>0, <2>2, GoneStays
  <2>5. Settings!RowsFollow' /\ Settings!ListsFollow'
    BY <1>a, <1>4, <2>0, <2>1, RequestFollowed
  <2>6. Settings!DoneMeansGone'
    BY <1>a, <1>4, <2>2 DEF Settings!DoneMeansGone
  <2>7. QED BY <1>4, <2>3, <2>4, <2>5, <2>6 DEF Settings!Inv
<1>5. CASE Settings!Retry
  <2>1. PICK l \in flow.failed : /\ Settings!Send(Settings!Call("list", l, Settings!None, TRUE))
                               /\ UNCHANGED <<page, flow, srv, mirror>>
    BY <1>5 DEF Settings!Retry
  <2>2. CASE l \in Settings!Lists
    <3>1. PICK c : c = Settings!Call("list", l, Settings!None, TRUE)
      OBVIOUS
    <3>2. c.k = "list" /\ c.l = l /\ c.n = hist.sent + 1 /\ c.seen = srv'[l]
      BY <3>1 DEF Settings!Call
    <3>3. /\ flow' = [demo |-> flow'.demo, failed |-> flow'.failed, confirm |-> flow'.confirm,
                    deleting |-> flow'.deleting, forgetting |-> flow'.forgetting,
                    clearing |-> flow'.clearing, emptying |-> flow'.emptying,
                    importing |-> flow'.importing, deleteErr |-> flow'.deleteErr]
         /\ flow'.failed \subseteq Settings!Lists
        /\ flow'.deleting = flow.deleting /\ flow'.clearing = flow.clearing
        /\ flow'.forgetting = flow.forgetting /\ flow'.emptying = flow.emptying
        /\ flow'.importing = flow.importing
      BY <1>b, <2>1
    <3>4. Settings!BusyIsAnswered'
      <4>1. \A d \in calls : d.k # "none" => d \in calls'
        BY <2>1 DEF Settings!Send
      <4>2. QED BY <1>a, <3>3, <4>1, BusyStays
    <3>5. srv' = srv /\ \A x : x \notin Settings!Differ(srv[l], srv'[l])
      BY <2>1 DEF Settings!Differ
    <3>6. QED BY <1>4, <2>1, <2>2, <3>1, <3>2, <3>3, <3>4, <3>5
  <2>3. QED BY <1>b, <2>2
<1>6. CASE Settings!DeleteSession
  <2>1. /\ flow' = [flow EXCEPT !.deleting = flow.confirm, !.deleteErr = FALSE]
        /\ srv' = [srv EXCEPT !["sessions"] = @ \ {flow.confirm}]
        /\ Settings!Send(Settings!Call("delete", "sessions", flow.confirm, flow.confirm \in srv["sessions"]))
        /\ UNCHANGED <<page, mirror>>
    BY <1>6 DEF Settings!DeleteSession
  <2>2. PICK c : c = Settings!Call("delete", "sessions", flow.confirm, flow.confirm \in srv["sessions"])
    OBVIOUS
  <2>3. /\ c.k = "delete" /\ c.l = "sessions" /\ c.n = hist.sent + 1 /\ c.x = flow.confirm
        /\ c.ok = (flow.confirm \in srv["sessions"])
    BY <2>2 DEF Settings!Call
  <2>4. /\ flow' = [demo |-> flow'.demo, failed |-> flow'.failed, confirm |-> flow'.confirm,
                    deleting |-> flow'.deleting, forgetting |-> flow'.forgetting,
                    clearing |-> flow'.clearing, emptying |-> flow'.emptying,
                    importing |-> flow'.importing, deleteErr |-> flow'.deleteErr]
         /\ flow'.failed \subseteq Settings!Lists
        /\ flow'.clearing = flow.clearing /\ flow'.forgetting = flow.forgetting
        /\ flow'.emptying = flow.emptying /\ flow'.importing = flow.importing
        /\ flow'.deleting = flow.confirm
    BY <1>b, <2>1
  <2>5. Settings!BusyIsAnswered'
    <3>1. c \in calls' /\ \A d \in calls : d.k # "none" => d \in calls'
      BY <2>1, <2>2 DEF Settings!Send
    <3>2. QED BY <1>a, <2>3, <2>4, <3>1, BusyStays
  <2>6. /\ DOMAIN srv' = DOMAIN srv /\ \A l \in Settings!Lists \ {"sessions"} : srv'[l] = srv[l]
        /\ srv'["sessions"] = srv["sessions"] \ {flow.confirm}
        /\ \A x \in Settings!Differ(srv["sessions"], srv'["sessions"]) : Settings!Affects(c, x)
    BY <1>b, <1>c, <2>1, <2>3 DEF Settings!Differ, Settings!Affects
  <2>7. "sessions" \in Settings!Lists /\ "delete" \in DOMAIN Settings!About
        /\ Settings!About["delete"] = "sessions"
    BY <1>c DEF Settings!About
  <2>8. QED BY <1>4, <2>1, <2>2, <2>3, <2>4, <2>5, <2>6, <2>7
<1>7. CASE Settings!ForgetOne
  <2>1. PICK x :
          /\ flow' = [flow EXCEPT !.forgetting = x]
          /\ srv' = [srv EXCEPT !["recaps"] = @ \ {x}]
          /\ Settings!Send(Settings!Call("forget", "recaps", x, TRUE))
          /\ UNCHANGED <<page, mirror>>
    BY <1>7 DEF Settings!ForgetOne
  <2>2. PICK c : c = Settings!Call("forget", "recaps", x, TRUE)
    OBVIOUS
  <2>3. /\ c.k = "forget" /\ c.l = "recaps" /\ c.n = hist.sent + 1 /\ c.x = x
        /\ c.ok = (TRUE)
    BY <2>2 DEF Settings!Call
  <2>4. /\ flow' = [demo |-> flow'.demo, failed |-> flow'.failed, confirm |-> flow'.confirm,
                    deleting |-> flow'.deleting, forgetting |-> flow'.forgetting,
                    clearing |-> flow'.clearing, emptying |-> flow'.emptying,
                    importing |-> flow'.importing, deleteErr |-> flow'.deleteErr]
         /\ flow'.failed \subseteq Settings!Lists
        /\ flow'.deleting = flow.deleting /\ flow'.clearing = flow.clearing
        /\ flow'.emptying = flow.emptying /\ flow'.importing = flow.importing
        /\ flow'.forgetting = x
    BY <1>b, <2>1
  <2>5. Settings!BusyIsAnswered'
    <3>1. c \in calls' /\ \A d \in calls : d.k # "none" => d \in calls'
      BY <2>1, <2>2 DEF Settings!Send
    <3>2. QED BY <1>a, <2>3, <2>4, <3>1, BusyStays
  <2>6. /\ DOMAIN srv' = DOMAIN srv /\ \A l \in Settings!Lists \ {"recaps"} : srv'[l] = srv[l]
        /\ srv'["recaps"] = srv["recaps"] \ {x}
        /\ \A y \in Settings!Differ(srv["recaps"], srv'["recaps"]) : Settings!Affects(c, y)
    BY <1>b, <1>c, <2>1, <2>3 DEF Settings!Differ, Settings!Affects
  <2>7. "recaps" \in Settings!Lists /\ "forget" \in DOMAIN Settings!About
        /\ Settings!About["forget"] = "recaps"
    BY <1>c DEF Settings!About
  <2>8. QED BY <1>4, <2>1, <2>2, <2>3, <2>4, <2>5, <2>6, <2>7
<1>8. CASE Settings!ForgetAll
  <2>1. /\ flow' = [flow EXCEPT !.emptying = TRUE]
        /\ srv' = [srv EXCEPT !["recaps"] = {}]
        /\ Settings!Send(Settings!Call("empty", "recaps", Settings!None, TRUE))
        /\ UNCHANGED <<page, mirror>>
    BY <1>8 DEF Settings!ForgetAll
  <2>2. PICK c : c = Settings!Call("empty", "recaps", Settings!None, TRUE)
    OBVIOUS
  <2>3. /\ c.k = "empty" /\ c.l = "recaps" /\ c.n = hist.sent + 1 /\ c.x = Settings!None
        /\ c.ok = (TRUE)
    BY <2>2 DEF Settings!Call
  <2>4. /\ flow' = [demo |-> flow'.demo, failed |-> flow'.failed, confirm |-> flow'.confirm,
                    deleting |-> flow'.deleting, forgetting |-> flow'.forgetting,
                    clearing |-> flow'.clearing, emptying |-> flow'.emptying,
                    importing |-> flow'.importing, deleteErr |-> flow'.deleteErr]
         /\ flow'.failed \subseteq Settings!Lists
        /\ flow'.deleting = flow.deleting /\ flow'.clearing = flow.clearing
        /\ flow'.forgetting = flow.forgetting /\ flow'.importing = flow.importing
        /\ flow'.emptying = TRUE
    BY <1>b, <2>1
  <2>5. Settings!BusyIsAnswered'
    <3>1. c \in calls' /\ \A d \in calls : d.k # "none" => d \in calls'
      BY <2>1, <2>2 DEF Settings!Send
    <3>2. QED BY <1>a, <2>3, <2>4, <3>1, BusyStays
  <2>6. /\ DOMAIN srv' = DOMAIN srv /\ \A l \in Settings!Lists \ {"recaps"} : srv'[l] = srv[l]
        /\ srv'["recaps"] = {}
        /\ \A y \in Settings!Differ(srv["recaps"], srv'["recaps"]) : Settings!Affects(c, y)
    BY <1>b, <1>c, <2>1, <2>3 DEF Settings!Differ, Settings!Affects
  <2>7. "recaps" \in Settings!Lists /\ "empty" \in DOMAIN Settings!About
        /\ Settings!About["empty"] = "recaps"
    BY <1>c DEF Settings!About
  <2>8. QED BY <1>4, <2>1, <2>2, <2>3, <2>4, <2>5, <2>6, <2>7
<1>9. CASE Settings!ImportPack
  <2>1. PICK ok \in BOOLEAN :
          /\ flow' = [flow EXCEPT !.importing = TRUE]
          /\ srv' = IF ok THEN [srv EXCEPT !["packs"] = @ \cup {NewPack}] ELSE srv
          /\ Settings!Send(Settings!Call("import", "packs", NewPack, ok))
          /\ UNCHANGED <<page, mirror>>
    BY <1>9 DEF Settings!ImportPack
  <2>2. PICK c : c = Settings!Call("import", "packs", NewPack, ok)
    OBVIOUS
  <2>3. /\ c.k = "import" /\ c.l = "packs" /\ c.n = hist.sent + 1 /\ c.x = NewPack
        /\ c.ok = (ok)
    BY <2>2 DEF Settings!Call
  <2>4. /\ flow' = [demo |-> flow'.demo, failed |-> flow'.failed, confirm |-> flow'.confirm,
                    deleting |-> flow'.deleting, forgetting |-> flow'.forgetting,
                    clearing |-> flow'.clearing, emptying |-> flow'.emptying,
                    importing |-> flow'.importing, deleteErr |-> flow'.deleteErr]
         /\ flow'.failed \subseteq Settings!Lists
        /\ flow'.deleting = flow.deleting /\ flow'.clearing = flow.clearing
        /\ flow'.forgetting = flow.forgetting /\ flow'.emptying = flow.emptying
        /\ flow'.importing = TRUE
    BY <1>b, <2>1
  <2>5. Settings!BusyIsAnswered'
    <3>1. c \in calls' /\ \A d \in calls : d.k # "none" => d \in calls'
      BY <2>1, <2>2 DEF Settings!Send
    <3>2. QED BY <1>a, <2>3, <2>4, <3>1, BusyStays
  <2>6. /\ DOMAIN srv' = DOMAIN srv /\ \A l \in Settings!Lists \ {"packs"} : srv'[l] = srv[l]
        /\ srv'["packs"] = IF ok THEN srv["packs"] \cup {NewPack} ELSE srv["packs"]
        /\ \A x \in Settings!Differ(srv["packs"], srv'["packs"]) : Settings!Affects(c, x)
    BY <1>b, <1>c, <2>1, <2>3 DEF Settings!Differ, Settings!Affects
  <2>7. "packs" \in Settings!Lists /\ "import" \in DOMAIN Settings!About
        /\ Settings!About["import"] = "packs"
    BY <1>c DEF Settings!About
  <2>8. QED BY <1>4, <2>1, <2>2, <2>3, <2>4, <2>5, <2>6, <2>7
<1>10. CASE Settings!Clear
  <2>1. /\ flow' = [flow EXCEPT !.clearing = "clearing"]
        /\ srv' = [srv EXCEPT !["sessions"] = {}, !["recaps"] = {}]
        /\ calls' = calls \cup {Settings!Call("clear", "sessions", Settings!None, TRUE)}
        /\ hist' = [hist EXCEPT !.sent = @ + 1, !.dirty = @ \cup {"recaps"},
                              !.wrote["recaps"] = hist.sent + 1]
        /\ UNCHANGED <<page, mirror>>
    BY <1>10 DEF Settings!Clear
  <2>2. PICK c : c = Settings!Call("clear", "sessions", Settings!None, TRUE)
    OBVIOUS
  <2>3. c.k = "clear" /\ c.l = "sessions" /\ c.n = hist.sent + 1 /\ c.x = Settings!None
    BY <2>2 DEF Settings!Call
  <2>4. /\ flow' = [demo |-> flow'.demo, failed |-> flow'.failed, confirm |-> flow'.confirm,
                    deleting |-> flow'.deleting, forgetting |-> flow'.forgetting,
                    clearing |-> flow'.clearing, emptying |-> flow'.emptying,
                    importing |-> flow'.importing, deleteErr |-> flow'.deleteErr]
         /\ flow'.failed \subseteq Settings!Lists
        /\ flow'.deleting = flow.deleting /\ flow'.forgetting = flow.forgetting
        /\ flow'.emptying = flow.emptying /\ flow'.importing = flow.importing
        /\ flow'.clearing = "clearing"
    BY <1>b, <2>1
  <2>5. /\ DOMAIN srv' = DOMAIN srv /\ srv'["sessions"] = {} /\ srv'["recaps"] = {}
        /\ srv'["packs"] = srv["packs"]
    BY <1>b, <1>c, <2>1
  <2>6. /\ hist' \in Settings!Histories /\ hist'.sent = hist.sent + 1 /\ hist'.base = hist.base
        /\ hist'.dirty = hist.dirty \cup {"recaps"} /\ hist'.wrote["recaps"] = hist.sent + 1
        /\ \A l \in Settings!Lists : hist'.wrote[l] \in {hist.wrote[l], hist.sent + 1}
    <3>1. PICK w \in [Settings!Lists -> Nat] : w = [hist.wrote EXCEPT !["recaps"] = hist.sent + 1]
      <4>1. hist.wrote \in [Settings!Lists -> Nat] /\ hist.sent + 1 \in Nat
        BY <1>b DEF Settings!Histories
      <4>2. QED BY <4>1
    <3>2. PICK D \in SUBSET Settings!Lists : D = hist.dirty \cup {"recaps"}
      BY <1>b, <1>c DEF Settings!Histories
    <3>3. hist' = [sent |-> hist.sent + 1, base |-> hist.base, wrote |-> w, dirty |-> D]
      BY <1>b, <2>1, <3>1, <3>2 DEF Settings!Histories
    <3>4. hist' \in Settings!Histories
      BY <1>b, <3>1, <3>2, <3>3 DEF Settings!Histories
    <3>5. hist.wrote \in [Settings!Lists -> Nat]
      BY <1>b DEF Settings!Histories
    <3>6. w["recaps"] = hist.sent + 1
          /\ \A l \in Settings!Lists : w[l] \in {hist.wrote[l], hist.sent + 1}
      BY <1>c, <3>1, <3>5
    <3>7. QED BY <3>2, <3>3, <3>4, <3>6
  <2>7. calls' = calls \cup {c} /\ page' = page
    BY <2>1, <2>2
  <2>8. Settings!Typed'
    <3>1. DOMAIN page' = DOMAIN page /\ hist'.sent >= hist.sent
          /\ \A l \in Settings!Lists : hist'.base[l] \in {hist.base[l]} \cup 0..hist.sent
      BY <1>b, <2>1, <2>6
    <3>2. \A d \in calls' \ calls :
            /\ d.n \in 0..hist'.sent /\ d.l \in Settings!Lists
            /\ d.k # "list" => d.k \in DOMAIN Settings!About /\ d.l = Settings!About[d.k]
      BY <1>b, <1>c, <2>3, <2>6, <2>7 DEF Settings!About
    <3>3. QED BY <1>a, <2>4, <2>5, <2>6, <3>1, <3>2, TypedStays
  <2>9. Settings!Gone'
    BY <1>a, <2>5, <2>7, <2>3, GoneStays
  <2>10. Settings!RowsFollow' /\ Settings!ListsFollow'
    <3>1. \A x \in Settings!Differ(srv[c.l], srv'[c.l]) : Settings!Affects(c, x)
      BY <2>3 DEF Settings!Affects
    <3>2. \A l \in Settings!Lists \ {c.l} :
            srv'[l] = srv[l] \/ (l \in hist'.dirty /\ hist'.wrote[l] = hist.sent + 1)
      BY <1>c, <2>3, <2>5, <2>6
    <3>3. hist.dirty \subseteq hist'.dirty /\ c.l \in Settings!Lists /\ c.k # "list"
      BY <1>c, <2>3, <2>6
    <3>4. QED BY <1>a, <2>3, <2>6, <2>7, <3>1, <3>2, <3>3, RequestFollowed
  <2>11. Settings!BusyIsAnswered'
    <3>1. c \in calls' /\ \A d \in calls : d.k # "none" => d \in calls'
      BY <2>7
    <3>2. QED BY <1>a, <2>3, <2>4, <3>1, BusyStays
  <2>12. QED BY <2>4, <2>8, <2>9, <2>10, <2>11 DEF Settings!Inv, Settings!DoneMeansGone
<1>11. ASSUME NEW c \in calls, c.k # "list", NEW R, NEW told \in BOOLEAN,
              calls' = (calls \ {c}) \cup R, srv' = srv,
              \A r \in R : r.k = "list" /\ r.n = hist.sent /\ r.l = c.l /\ r.seen = srv[c.l],
              \A l \in Settings!Lists \ {c.l} : page'[l] = page[l], DOMAIN page' = DOMAIN page,
              \/ told /\ hist' = Settings!Told(c)
              \/ \E changed \in BOOLEAN :
                   hist' = Settings!Untold(c, changed) /\ ((\E x : Settings!Affects(c, x)) => changed),
              page'[c.l] # Settings!Unread =>
                \A x \in Settings!Differ(page'[c.l], srv[c.l]) :
                  /\ page[c.l] # Settings!Unread /\ x \in Settings!Differ(page[c.l], srv[c.l])
                  /\ R # {} \/ ~told \/ ~Settings!Affects(c, x),
              flow' = [demo |-> flow'.demo, failed |-> flow'.failed, confirm |-> flow'.confirm,
                      deleting |-> flow'.deleting, forgetting |-> flow'.forgetting,
                      clearing |-> flow'.clearing, emptying |-> flow'.emptying,
                      importing |-> flow'.importing, deleteErr |-> flow'.deleteErr]
         /\ flow'.failed \subseteq Settings!Lists,
              Settings!BusyIsAnswered', Settings!DoneMeansGone'
       PROVE  Settings!Inv'
  <2>1. /\ hist' \in Settings!Histories /\ hist'.sent = hist.sent /\ hist'.base = hist.base
        /\ hist.dirty \subseteq hist'.dirty /\ hist'.wrote[c.l] >= c.n
        /\ \A l \in Settings!Lists : hist'.wrote[l] \in Nat /\ hist'.wrote[l] >= hist.wrote[l]
        /\ told \/ c.l \in hist'.dirty \/ c.n <= hist.base[c.l]
             \/ \A x : ~Settings!Affects(c, x)
    <3>1. CASE told /\ hist' = Settings!Told(c)
      BY <1>a, <3>1, ToldNoted
    <3>2. CASE \E changed \in BOOLEAN :
                 hist' = Settings!Untold(c, changed) /\ ((\E x : Settings!Affects(c, x)) => changed)
      <4>1. PICK changed \in BOOLEAN :
              hist' = Settings!Untold(c, changed) /\ ((\E x : Settings!Affects(c, x)) => changed)
        BY <3>2
      <4>2. /\ hist' \in Settings!Histories /\ hist'.sent = hist.sent /\ hist'.base = hist.base
            /\ hist.dirty \subseteq hist'.dirty /\ hist'.wrote[c.l] >= c.n
            /\ changed /\ c.n > hist.base[c.l] => c.l \in hist'.dirty
            /\ \A l \in Settings!Lists : hist'.wrote[l] \in Nat /\ hist'.wrote[l] >= hist.wrote[l]
        BY <1>a, <4>1, UntoldNoted
      <4>3. c.n \in Nat /\ hist.base[c.l] \in Nat
        BY <1>b DEF Settings!Histories
      <4>4. QED BY <4>1, <4>2, <4>3
    <3>3. QED BY <1>11, <3>1, <3>2
  <2>2. Settings!RowsFollow' /\ Settings!ListsFollow'
    <3>1. c.l \notin hist'.dirty /\ page'[c.l] # Settings!Unread =>
            \A x \in Settings!Differ(page'[c.l], srv[c.l]) :
              /\ page[c.l] # Settings!Unread /\ x \in Settings!Differ(page[c.l], srv[c.l])
              /\ R # {} \/ ~(c.k = "list" \/ Settings!Affects(c, x)) \/ c.n <= hist.base[c.l]
      BY <1>11, <2>1
    <3>2. QED BY <1>a, <1>11, <2>1, <3>1, AnswerFollowed
  <2>3. Settings!Typed'
    <3>1. DOMAIN srv' = DOMAIN srv /\ hist'.sent >= hist.sent
          /\ \A l \in Settings!Lists : hist'.base[l] \in {hist.base[l]} \cup 0..hist.sent
      BY <1>b, <1>11, <2>1
    <3>2. \A d \in calls' \ calls :
            /\ d.n \in 0..hist'.sent /\ d.l \in Settings!Lists
            /\ d.k # "list" => d.k \in DOMAIN Settings!About /\ d.l = Settings!About[d.k]
      BY <1>b, <1>11, <2>1
    <3>3. QED BY <1>a, <1>11, <2>1, <3>1, <3>2, TypedStays
  <2>4. Settings!Gone'
    BY <1>a, <1>11, GoneStays
  <2>5. QED BY <1>11, <2>2, <2>3, <2>4 DEF Settings!Inv
<1>12. CASE Settings!DeleteAnswered
  <2>1. PICK c \in calls :
          /\ c.k = "delete" /\ UNCHANGED srv
          /\ \/ /\ page' = Settings!Dropped("sessions", c.x) /\ flow' = [flow EXCEPT !.deleting = Settings!None, !.confirm = Settings!None, !.deleteErr = @ \/ ~TRUE]
                /\ hist' = Settings!Told(c) /\ UNCHANGED mirror
                /\ calls' = calls \ {c}
             \/ /\ flow' = [flow EXCEPT !.deleting = Settings!None, !.confirm = Settings!None, !.deleteErr = @ \/ ~FALSE] /\ UNCHANGED <<page, mirror>>
                /\ hist' = Settings!Untold(c, c.ok)
                /\ calls' = calls \ {c}
    BY <1>12 DEF Settings!DeleteAnswered, Settings!BrowserCleared, Settings!DeleteDone, Settings!ClearFailed,
      Settings!Forgotten
  <2>2. c.l = "sessions" /\ "sessions" \in Settings!Lists
    BY <1>b, <1>c, <2>1 DEF Settings!About
  <2>3. CASE /\ page' = Settings!Dropped("sessions", c.x) /\ flow' = [flow EXCEPT !.deleting = Settings!None, !.confirm = Settings!None, !.deleteErr = @ \/ ~TRUE]
             /\ hist' = Settings!Told(c) /\ UNCHANGED mirror
             /\ calls' = calls \ {c}
    <3>1. /\ flow' = [demo |-> flow'.demo, failed |-> flow'.failed, confirm |-> flow'.confirm,
                      deleting |-> flow'.deleting, forgetting |-> flow'.forgetting,
                      clearing |-> flow'.clearing, emptying |-> flow'.emptying,
                      importing |-> flow'.importing, deleteErr |-> flow'.deleteErr]
           /\ flow'.failed \subseteq Settings!Lists
          /\ flow'.clearing = flow.clearing /\ flow'.forgetting = flow.forgetting
          /\ flow'.emptying = flow.emptying /\ flow'.importing = flow.importing
          /\ flow'.deleting = Settings!None
      BY <1>b, <2>3
    <3>2. PICK R : R = {}
      OBVIOUS
    <3>3. /\ calls' = (calls \ {c}) \cup R
          /\ \A r \in R : r.k = "list" /\ r.n = hist.sent /\ r.l = c.l /\ r.seen = srv[c.l]
      BY <2>2, <2>3, <3>2 DEF Settings!Reload
    <3>4. /\ \A l \in Settings!Lists \ {c.l} : page'[l] = page[l]
          /\ DOMAIN page' = DOMAIN page
          /\ page'[c.l] # Settings!Unread =>
               \A x \in Settings!Differ(page'[c.l], srv[c.l]) :
                 /\ page[c.l] # Settings!Unread /\ x \in Settings!Differ(page[c.l], srv[c.l])
                 /\ R # {} \/ ~TRUE \/ ~Settings!Affects(c, x)
      <4>1. CASE page["sessions"] = Settings!Unread
        BY <2>2, <2>3, <4>1 DEF Settings!Dropped
      <4>2. CASE page["sessions"] # Settings!Unread
        <5>1. page' = [page EXCEPT !["sessions"] = @ \ {c.x}]
          BY <2>3, <4>2 DEF Settings!Dropped
        <5>2. page'["sessions"] = page["sessions"] \ {c.x} /\ c.x \notin srv["sessions"]
          BY <1>a, <1>b, <2>1, <2>2, <5>1 DEF Settings!Gone
        <5>3. \A x : Settings!Affects(c, x) => x = c.x
          BY <2>1 DEF Settings!Affects
        <5>4. QED BY <2>2, <4>2, <5>1, <5>2, <5>3 DEF Settings!Differ
      <4>3. QED BY <4>1, <4>2
    <3>5. Settings!BusyIsAnswered'
      <4>1. \A d \in calls : d.k # "delete" => d \in calls'
        BY <2>1, <2>3
      <4>2. QED BY <1>a, <3>1, <4>1, BusyStays
    <3>6. Settings!DoneMeansGone'
      BY <1>a, <2>1, <2>3, <3>1 DEF Settings!DoneMeansGone
    <3>7. QED BY <1>11, <2>1, <2>3, <3>1, <3>3, <3>4, <3>5, <3>6, ZenonT(60)
  <2>4. CASE /\ flow' = [flow EXCEPT !.deleting = Settings!None, !.confirm = Settings!None, !.deleteErr = @ \/ ~FALSE] /\ UNCHANGED <<page, mirror>>
             /\ hist' = Settings!Untold(c, c.ok)
             /\ calls' = calls \ {c}
    <3>1. /\ flow' = [demo |-> flow'.demo, failed |-> flow'.failed, confirm |-> flow'.confirm,
                      deleting |-> flow'.deleting, forgetting |-> flow'.forgetting,
                      clearing |-> flow'.clearing, emptying |-> flow'.emptying,
                      importing |-> flow'.importing, deleteErr |-> flow'.deleteErr]
           /\ flow'.failed \subseteq Settings!Lists
          /\ flow'.clearing = flow.clearing /\ flow'.forgetting = flow.forgetting
          /\ flow'.emptying = flow.emptying /\ flow'.importing = flow.importing
          /\ flow'.deleting = Settings!None
      BY <1>b, <2>4
    <3>2. PICK changed \in BOOLEAN : changed <=> c.ok
      OBVIOUS
    <3>a. PICK R : R = {}
      OBVIOUS
    <3>3. hist' = Settings!Untold(c, changed)
      BY <2>4, <3>2 DEF Settings!Untold
    <3>4. (\E x : Settings!Affects(c, x)) => changed
      BY <2>1, <3>2 DEF Settings!Affects
    <3>5. /\ calls' = (calls \ {c}) \cup R
          /\ \A r \in R : r.k = "list" /\ r.n = hist.sent /\ r.l = c.l /\ r.seen = srv[c.l]
      BY <2>4, <3>a
    <3>6. Settings!BusyIsAnswered'
      <4>1. \A d \in calls : d.k # "delete" => d \in calls'
        BY <2>1, <2>4
      <4>2. QED BY <1>a, <3>1, <4>1, BusyStays
    <3>7. Settings!DoneMeansGone'
      BY <1>a, <2>1, <2>4, <3>1 DEF Settings!DoneMeansGone
    <3>8. PICK told \in BOOLEAN : told = FALSE
      OBVIOUS
    <3>9. QED BY <1>11, <2>1, <2>4, <3>1, <3>3, <3>4, <3>5, <3>6, <3>7, <3>8
  <2>5. QED BY <2>1, <2>3, <2>4
<1>13. CASE Settings!ClearAnswered
  <2>1. PICK c \in calls :
          /\ c.k = "clear" /\ UNCHANGED srv
          /\ \/ /\ page' = [page EXCEPT !["sessions"] = {}] /\ flow' = [flow EXCEPT !.clearing = "done", !.deleteErr = FALSE, !.confirm = Settings!None]
                /\ hist' = Settings!Told(c) /\ mirror' = FALSE
                /\ calls' = (calls \ {c}) \cup {Settings!Reload("sessions")}
             \/ /\ flow' = [flow EXCEPT !.clearing = "error"] /\ UNCHANGED <<page, mirror>>
                /\ hist' = Settings!Untold(c, TRUE)
                /\ calls' = calls \ {c}
    BY <1>13 DEF Settings!ClearAnswered, Settings!BrowserCleared, Settings!DeleteDone, Settings!ClearFailed,
      Settings!Forgotten
  <2>2. c.l = "sessions" /\ "sessions" \in Settings!Lists
    BY <1>b, <1>c, <2>1 DEF Settings!About
  <2>3. CASE /\ page' = [page EXCEPT !["sessions"] = {}] /\ flow' = [flow EXCEPT !.clearing = "done", !.deleteErr = FALSE, !.confirm = Settings!None]
             /\ hist' = Settings!Told(c) /\ mirror' = FALSE
             /\ calls' = (calls \ {c}) \cup {Settings!Reload("sessions")}
    <3>1. /\ flow' = [demo |-> flow'.demo, failed |-> flow'.failed, confirm |-> flow'.confirm,
                      deleting |-> flow'.deleting, forgetting |-> flow'.forgetting,
                      clearing |-> flow'.clearing, emptying |-> flow'.emptying,
                      importing |-> flow'.importing, deleteErr |-> flow'.deleteErr]
           /\ flow'.failed \subseteq Settings!Lists
          /\ flow'.deleting = flow.deleting /\ flow'.forgetting = flow.forgetting
          /\ flow'.emptying = flow.emptying /\ flow'.importing = flow.importing
          /\ flow'.clearing = "done"
      BY <1>b, <2>3
    <3>2. PICK R : R = {Settings!Reload("sessions")}
      OBVIOUS
    <3>3. /\ calls' = (calls \ {c}) \cup R
          /\ \A r \in R : r.k = "list" /\ r.n = hist.sent /\ r.l = c.l /\ r.seen = srv[c.l]
      BY <2>2, <2>3, <3>2 DEF Settings!Reload
    <3>4. /\ \A l \in Settings!Lists \ {c.l} : page'[l] = page[l]
          /\ DOMAIN page' = DOMAIN page
          /\ page'[c.l] # Settings!Unread =>
               \A x \in Settings!Differ(page'[c.l], srv[c.l]) :
                 /\ page[c.l] # Settings!Unread /\ x \in Settings!Differ(page[c.l], srv[c.l])
                 /\ R # {} \/ ~TRUE \/ ~Settings!Affects(c, x)
      <4>1. page'["sessions"] = {} /\ srv["sessions"] = {}
        BY <1>a, <1>b, <2>1, <2>2, <2>3 DEF Settings!Gone
      <4>2. QED BY <2>2, <2>3, <4>1 DEF Settings!Differ
    <3>5. Settings!BusyIsAnswered'
      <4>1. \A d \in calls : d.k # "clear" => d \in calls'
        BY <2>1, <2>3
      <4>2. QED BY <1>a, <3>1, <4>1, BusyStays
    <3>6. Settings!DoneMeansGone'
      BY <1>a, <2>1, <2>3, <3>1 DEF Settings!DoneMeansGone, Settings!Gone
    <3>7. QED BY <1>11, <2>1, <2>3, <3>1, <3>3, <3>4, <3>5, <3>6, ZenonT(60)
  <2>4. CASE /\ flow' = [flow EXCEPT !.clearing = "error"] /\ UNCHANGED <<page, mirror>>
             /\ hist' = Settings!Untold(c, TRUE)
             /\ calls' = calls \ {c}
    <3>1. /\ flow' = [demo |-> flow'.demo, failed |-> flow'.failed, confirm |-> flow'.confirm,
                      deleting |-> flow'.deleting, forgetting |-> flow'.forgetting,
                      clearing |-> flow'.clearing, emptying |-> flow'.emptying,
                      importing |-> flow'.importing, deleteErr |-> flow'.deleteErr]
           /\ flow'.failed \subseteq Settings!Lists
          /\ flow'.deleting = flow.deleting /\ flow'.forgetting = flow.forgetting
          /\ flow'.emptying = flow.emptying /\ flow'.importing = flow.importing
          /\ flow'.clearing = "error"
      BY <1>b, <2>4
    <3>2. PICK changed \in BOOLEAN : changed <=> TRUE
      OBVIOUS
    <3>a. PICK R : R = {}
      OBVIOUS
    <3>3. hist' = Settings!Untold(c, changed)
      BY <2>4, <3>2 DEF Settings!Untold
    <3>4. (\E x : Settings!Affects(c, x)) => changed
      BY <2>1, <3>2 DEF Settings!Affects
    <3>5. /\ calls' = (calls \ {c}) \cup R
          /\ \A r \in R : r.k = "list" /\ r.n = hist.sent /\ r.l = c.l /\ r.seen = srv[c.l]
      BY <2>4, <3>a
    <3>6. Settings!BusyIsAnswered'
      <4>1. \A d \in calls : d.k # "clear" => d \in calls'
        BY <2>1, <2>4
      <4>2. QED BY <1>a, <3>1, <4>1, BusyStays
    <3>7. Settings!DoneMeansGone'
      BY <1>a, <2>1, <2>4, <3>1 DEF Settings!DoneMeansGone
    <3>8. PICK told \in BOOLEAN : told = FALSE
      OBVIOUS
    <3>9. QED BY <1>11, <2>1, <2>4, <3>1, <3>3, <3>4, <3>5, <3>6, <3>7, <3>8
  <2>5. QED BY <2>1, <2>3, <2>4
<1>14. CASE Settings!ForgetAnswered
  <2>1. PICK c \in calls :
          /\ c.k = "forget" /\ UNCHANGED srv
          /\ \/ /\ page' = Settings!Dropped("recaps", c.x) /\ flow' = [flow EXCEPT !.forgetting = Settings!None]
                /\ hist' = Settings!Told(c) /\ UNCHANGED mirror
                /\ calls' = calls \ {c}
             \/ /\ flow' = [flow EXCEPT !.forgetting = Settings!None] /\ UNCHANGED <<page, mirror>>
                /\ hist' = Settings!Untold(c, TRUE)
                /\ calls' = calls \ {c}
    BY <1>14 DEF Settings!ForgetAnswered, Settings!BrowserCleared, Settings!DeleteDone, Settings!ClearFailed,
      Settings!Forgotten
  <2>2. c.l = "recaps" /\ "recaps" \in Settings!Lists
    BY <1>b, <1>c, <2>1 DEF Settings!About
  <2>3. CASE /\ page' = Settings!Dropped("recaps", c.x) /\ flow' = [flow EXCEPT !.forgetting = Settings!None]
             /\ hist' = Settings!Told(c) /\ UNCHANGED mirror
             /\ calls' = calls \ {c}
    <3>1. /\ flow' = [demo |-> flow'.demo, failed |-> flow'.failed, confirm |-> flow'.confirm,
                      deleting |-> flow'.deleting, forgetting |-> flow'.forgetting,
                      clearing |-> flow'.clearing, emptying |-> flow'.emptying,
                      importing |-> flow'.importing, deleteErr |-> flow'.deleteErr]
           /\ flow'.failed \subseteq Settings!Lists
          /\ flow'.deleting = flow.deleting /\ flow'.clearing = flow.clearing
          /\ flow'.emptying = flow.emptying /\ flow'.importing = flow.importing
          /\ flow'.forgetting = Settings!None
      BY <1>b, <2>3
    <3>2. PICK R : R = {}
      OBVIOUS
    <3>3. /\ calls' = (calls \ {c}) \cup R
          /\ \A r \in R : r.k = "list" /\ r.n = hist.sent /\ r.l = c.l /\ r.seen = srv[c.l]
      BY <2>2, <2>3, <3>2 DEF Settings!Reload
    <3>4. /\ \A l \in Settings!Lists \ {c.l} : page'[l] = page[l]
          /\ DOMAIN page' = DOMAIN page
          /\ page'[c.l] # Settings!Unread =>
               \A x \in Settings!Differ(page'[c.l], srv[c.l]) :
                 /\ page[c.l] # Settings!Unread /\ x \in Settings!Differ(page[c.l], srv[c.l])
                 /\ R # {} \/ ~TRUE \/ ~Settings!Affects(c, x)
      <4>1. CASE page["recaps"] = Settings!Unread
        BY <2>2, <2>3, <4>1 DEF Settings!Dropped
      <4>2. CASE page["recaps"] # Settings!Unread
        <5>1. page' = [page EXCEPT !["recaps"] = @ \ {c.x}]
          BY <2>3, <4>2 DEF Settings!Dropped
        <5>2. page'["recaps"] = page["recaps"] \ {c.x} /\ c.x \notin srv["recaps"]
          BY <1>a, <1>b, <2>1, <2>2, <5>1 DEF Settings!Gone
        <5>3. \A x : Settings!Affects(c, x) => x = c.x
          BY <2>1 DEF Settings!Affects
        <5>4. QED BY <2>2, <4>2, <5>1, <5>2, <5>3 DEF Settings!Differ
      <4>3. QED BY <4>1, <4>2
    <3>5. Settings!BusyIsAnswered'
      <4>1. \A d \in calls : d.k # "forget" => d \in calls'
        BY <2>1, <2>3
      <4>2. QED BY <1>a, <3>1, <4>1, BusyStays
    <3>6. Settings!DoneMeansGone'
      BY <1>a, <2>1, <2>3, <3>1 DEF Settings!DoneMeansGone
    <3>7. QED BY <1>11, <2>1, <2>3, <3>1, <3>3, <3>4, <3>5, <3>6, ZenonT(60)
  <2>4. CASE /\ flow' = [flow EXCEPT !.forgetting = Settings!None] /\ UNCHANGED <<page, mirror>>
             /\ hist' = Settings!Untold(c, TRUE)
             /\ calls' = calls \ {c}
    <3>1. /\ flow' = [demo |-> flow'.demo, failed |-> flow'.failed, confirm |-> flow'.confirm,
                      deleting |-> flow'.deleting, forgetting |-> flow'.forgetting,
                      clearing |-> flow'.clearing, emptying |-> flow'.emptying,
                      importing |-> flow'.importing, deleteErr |-> flow'.deleteErr]
           /\ flow'.failed \subseteq Settings!Lists
          /\ flow'.deleting = flow.deleting /\ flow'.clearing = flow.clearing
          /\ flow'.emptying = flow.emptying /\ flow'.importing = flow.importing
          /\ flow'.forgetting = Settings!None
      BY <1>b, <2>4
    <3>2. PICK changed \in BOOLEAN : changed <=> TRUE
      OBVIOUS
    <3>a. PICK R : R = {}
      OBVIOUS
    <3>3. hist' = Settings!Untold(c, changed)
      BY <2>4, <3>2 DEF Settings!Untold
    <3>4. (\E x : Settings!Affects(c, x)) => changed
      BY <2>1, <3>2 DEF Settings!Affects
    <3>5. /\ calls' = (calls \ {c}) \cup R
          /\ \A r \in R : r.k = "list" /\ r.n = hist.sent /\ r.l = c.l /\ r.seen = srv[c.l]
      BY <2>4, <3>a
    <3>6. Settings!BusyIsAnswered'
      <4>1. \A d \in calls : d.k # "forget" => d \in calls'
        BY <2>1, <2>4
      <4>2. QED BY <1>a, <3>1, <4>1, BusyStays
    <3>7. Settings!DoneMeansGone'
      BY <1>a, <2>1, <2>4, <3>1 DEF Settings!DoneMeansGone
    <3>8. PICK told \in BOOLEAN : told = FALSE
      OBVIOUS
    <3>9. QED BY <1>11, <2>1, <2>4, <3>1, <3>3, <3>4, <3>5, <3>6, <3>7, <3>8
  <2>5. QED BY <2>1, <2>3, <2>4
<1>15. CASE Settings!ForgetAllAnswered
  <2>1. PICK c \in calls :
          /\ c.k = "empty" /\ UNCHANGED srv
          /\ \/ /\ page' = [page EXCEPT !["recaps"] = {}] /\ flow' = [flow EXCEPT !.emptying = FALSE]
                /\ hist' = Settings!Told(c) /\ UNCHANGED mirror
                /\ calls' = calls \ {c}
             \/ /\ flow' = [flow EXCEPT !.emptying = FALSE] /\ UNCHANGED <<page, mirror>>
                /\ hist' = Settings!Untold(c, TRUE)
                /\ calls' = calls \ {c}
    BY <1>15 DEF Settings!ForgetAllAnswered, Settings!BrowserCleared, Settings!DeleteDone, Settings!ClearFailed,
      Settings!Forgotten
  <2>2. c.l = "recaps" /\ "recaps" \in Settings!Lists
    BY <1>b, <1>c, <2>1 DEF Settings!About
  <2>3. CASE /\ page' = [page EXCEPT !["recaps"] = {}] /\ flow' = [flow EXCEPT !.emptying = FALSE]
             /\ hist' = Settings!Told(c) /\ UNCHANGED mirror
             /\ calls' = calls \ {c}
    <3>1. /\ flow' = [demo |-> flow'.demo, failed |-> flow'.failed, confirm |-> flow'.confirm,
                      deleting |-> flow'.deleting, forgetting |-> flow'.forgetting,
                      clearing |-> flow'.clearing, emptying |-> flow'.emptying,
                      importing |-> flow'.importing, deleteErr |-> flow'.deleteErr]
           /\ flow'.failed \subseteq Settings!Lists
          /\ flow'.deleting = flow.deleting /\ flow'.clearing = flow.clearing
          /\ flow'.forgetting = flow.forgetting /\ flow'.importing = flow.importing
          /\ ~flow'.emptying
      BY <1>b, <2>3
    <3>2. PICK R : R = {}
      OBVIOUS
    <3>3. /\ calls' = (calls \ {c}) \cup R
          /\ \A r \in R : r.k = "list" /\ r.n = hist.sent /\ r.l = c.l /\ r.seen = srv[c.l]
      BY <2>2, <2>3, <3>2 DEF Settings!Reload
    <3>4. /\ \A l \in Settings!Lists \ {c.l} : page'[l] = page[l]
          /\ DOMAIN page' = DOMAIN page
          /\ page'[c.l] # Settings!Unread =>
               \A x \in Settings!Differ(page'[c.l], srv[c.l]) :
                 /\ page[c.l] # Settings!Unread /\ x \in Settings!Differ(page[c.l], srv[c.l])
                 /\ R # {} \/ ~TRUE \/ ~Settings!Affects(c, x)
      <4>1. page'["recaps"] = {} /\ srv["recaps"] = {}
        BY <1>a, <1>b, <2>1, <2>2, <2>3 DEF Settings!Gone
      <4>2. QED BY <2>2, <2>3, <4>1 DEF Settings!Differ
    <3>5. Settings!BusyIsAnswered'
      <4>1. \A d \in calls : d.k # "empty" => d \in calls'
        BY <2>1, <2>3
      <4>2. QED BY <1>a, <3>1, <4>1, BusyStays
    <3>6. Settings!DoneMeansGone'
      BY <1>a, <2>1, <2>3, <3>1 DEF Settings!DoneMeansGone
    <3>7. QED BY <1>11, <2>1, <2>3, <3>1, <3>3, <3>4, <3>5, <3>6, ZenonT(60)
  <2>4. CASE /\ flow' = [flow EXCEPT !.emptying = FALSE] /\ UNCHANGED <<page, mirror>>
             /\ hist' = Settings!Untold(c, TRUE)
             /\ calls' = calls \ {c}
    <3>1. /\ flow' = [demo |-> flow'.demo, failed |-> flow'.failed, confirm |-> flow'.confirm,
                      deleting |-> flow'.deleting, forgetting |-> flow'.forgetting,
                      clearing |-> flow'.clearing, emptying |-> flow'.emptying,
                      importing |-> flow'.importing, deleteErr |-> flow'.deleteErr]
           /\ flow'.failed \subseteq Settings!Lists
          /\ flow'.deleting = flow.deleting /\ flow'.clearing = flow.clearing
          /\ flow'.forgetting = flow.forgetting /\ flow'.importing = flow.importing
          /\ ~flow'.emptying
      BY <1>b, <2>4
    <3>2. PICK changed \in BOOLEAN : changed <=> TRUE
      OBVIOUS
    <3>a. PICK R : R = {}
      OBVIOUS
    <3>3. hist' = Settings!Untold(c, changed)
      BY <2>4, <3>2 DEF Settings!Untold
    <3>4. (\E x : Settings!Affects(c, x)) => changed
      BY <2>1, <3>2 DEF Settings!Affects
    <3>5. /\ calls' = (calls \ {c}) \cup R
          /\ \A r \in R : r.k = "list" /\ r.n = hist.sent /\ r.l = c.l /\ r.seen = srv[c.l]
      BY <2>4, <3>a
    <3>6. Settings!BusyIsAnswered'
      <4>1. \A d \in calls : d.k # "empty" => d \in calls'
        BY <2>1, <2>4
      <4>2. QED BY <1>a, <3>1, <4>1, BusyStays
    <3>7. Settings!DoneMeansGone'
      BY <1>a, <2>1, <2>4, <3>1 DEF Settings!DoneMeansGone
    <3>8. PICK told \in BOOLEAN : told = FALSE
      OBVIOUS
    <3>9. QED BY <1>11, <2>1, <2>4, <3>1, <3>3, <3>4, <3>5, <3>6, <3>7, <3>8
  <2>5. QED BY <2>1, <2>3, <2>4
<1>16. CASE Settings!ImportAnswered
  <2>1. PICK c \in calls :
          /\ c.k = "import" /\ UNCHANGED srv
          /\ \/ /\ page' = page /\ flow' = [flow EXCEPT !.importing = FALSE]
                /\ hist' = Settings!Told(c) /\ UNCHANGED mirror
                /\ calls' = (calls \ {c}) \cup {Settings!Reload("packs")}
             \/ /\ flow' = [flow EXCEPT !.importing = FALSE] /\ UNCHANGED <<page, mirror>>
                /\ hist' = Settings!Untold(c, c.ok)
                /\ calls' = calls \ {c}
    BY <1>16 DEF Settings!ImportAnswered, Settings!BrowserCleared, Settings!DeleteDone, Settings!ClearFailed,
      Settings!Forgotten
  <2>2. c.l = "packs" /\ "packs" \in Settings!Lists
    BY <1>b, <1>c, <2>1 DEF Settings!About
  <2>3. CASE /\ page' = page /\ flow' = [flow EXCEPT !.importing = FALSE]
             /\ hist' = Settings!Told(c) /\ UNCHANGED mirror
             /\ calls' = (calls \ {c}) \cup {Settings!Reload("packs")}
    <3>1. /\ flow' = [demo |-> flow'.demo, failed |-> flow'.failed, confirm |-> flow'.confirm,
                      deleting |-> flow'.deleting, forgetting |-> flow'.forgetting,
                      clearing |-> flow'.clearing, emptying |-> flow'.emptying,
                      importing |-> flow'.importing, deleteErr |-> flow'.deleteErr]
           /\ flow'.failed \subseteq Settings!Lists
          /\ flow'.deleting = flow.deleting /\ flow'.clearing = flow.clearing
          /\ flow'.forgetting = flow.forgetting /\ flow'.emptying = flow.emptying
          /\ ~flow'.importing
      BY <1>b, <2>3
    <3>2. PICK R : R = {Settings!Reload("packs")}
      OBVIOUS
    <3>3. /\ calls' = (calls \ {c}) \cup R
          /\ \A r \in R : r.k = "list" /\ r.n = hist.sent /\ r.l = c.l /\ r.seen = srv[c.l]
      BY <2>2, <2>3, <3>2 DEF Settings!Reload
    <3>4. /\ \A l \in Settings!Lists \ {c.l} : page'[l] = page[l]
          /\ DOMAIN page' = DOMAIN page
          /\ page'[c.l] # Settings!Unread =>
               \A x \in Settings!Differ(page'[c.l], srv[c.l]) :
                 /\ page[c.l] # Settings!Unread /\ x \in Settings!Differ(page[c.l], srv[c.l])
                 /\ R # {} \/ ~TRUE \/ ~Settings!Affects(c, x)
      BY <2>2, <2>3, <3>2
    <3>5. Settings!BusyIsAnswered'
      <4>1. \A d \in calls : d.k # "import" => d \in calls'
        BY <2>1, <2>3
      <4>2. QED BY <1>a, <3>1, <4>1, BusyStays
    <3>6. Settings!DoneMeansGone'
      BY <1>a, <2>1, <2>3, <3>1 DEF Settings!DoneMeansGone
    <3>7. QED BY <1>11, <2>1, <2>3, <3>1, <3>3, <3>4, <3>5, <3>6, ZenonT(60)
  <2>4. CASE /\ flow' = [flow EXCEPT !.importing = FALSE] /\ UNCHANGED <<page, mirror>>
             /\ hist' = Settings!Untold(c, c.ok)
             /\ calls' = calls \ {c}
    <3>1. /\ flow' = [demo |-> flow'.demo, failed |-> flow'.failed, confirm |-> flow'.confirm,
                      deleting |-> flow'.deleting, forgetting |-> flow'.forgetting,
                      clearing |-> flow'.clearing, emptying |-> flow'.emptying,
                      importing |-> flow'.importing, deleteErr |-> flow'.deleteErr]
           /\ flow'.failed \subseteq Settings!Lists
          /\ flow'.deleting = flow.deleting /\ flow'.clearing = flow.clearing
          /\ flow'.forgetting = flow.forgetting /\ flow'.emptying = flow.emptying
          /\ ~flow'.importing
      BY <1>b, <2>4
    <3>2. PICK changed \in BOOLEAN : changed <=> c.ok
      OBVIOUS
    <3>a. PICK R : R = {}
      OBVIOUS
    <3>3. hist' = Settings!Untold(c, changed)
      BY <2>4, <3>2 DEF Settings!Untold
    <3>4. (\E x : Settings!Affects(c, x)) => changed
      BY <2>1, <3>2 DEF Settings!Affects
    <3>5. /\ calls' = (calls \ {c}) \cup R
          /\ \A r \in R : r.k = "list" /\ r.n = hist.sent /\ r.l = c.l /\ r.seen = srv[c.l]
      BY <2>4, <3>a
    <3>6. Settings!BusyIsAnswered'
      <4>1. \A d \in calls : d.k # "import" => d \in calls'
        BY <2>1, <2>4
      <4>2. QED BY <1>a, <3>1, <4>1, BusyStays
    <3>7. Settings!DoneMeansGone'
      BY <1>a, <2>1, <2>4, <3>1 DEF Settings!DoneMeansGone
    <3>8. PICK told \in BOOLEAN : told = FALSE
      OBVIOUS
    <3>9. QED BY <1>11, <2>1, <2>4, <3>1, <3>3, <3>4, <3>5, <3>6, <3>7, <3>8
  <2>5. QED BY <2>1, <2>3, <2>4
<1>17. QED
  BY <1>1, <1>3, <1>5, <1>6, <1>7, <1>8, <1>9, <1>10, <1>12, <1>13, <1>14, <1>15, <1>16
  DEF Settings!Next

LEMMA SettingsHolds ==
  Settings!Inv => Settings!ListsCatchUp /\ Settings!DoneMeansGone /\ Settings!BusyIsAnswered
<1> SUFFICES ASSUME Settings!Inv, calls = {}, NEW l \in Settings!Lists \ hist.dirty,
                    page[l] # Settings!Unread
             PROVE  page[l] = srv[l]
  BY DEF Settings!Inv, Settings!ListsCatchUp, Settings!Shown
<1>1. \A x : x \notin Settings!Differ(page[l], srv[l])
  BY DEF Settings!Inv, Settings!RowsFollow
<1>2. page[l] \subseteq srv[l] /\ srv[l] \subseteq page[l]
  BY <1>1 DEF Settings!Differ
<1>3. QED BY <1>2

-----------------------------------------------------------------------------
(* The home page *)

LEMMA HomeInit == Home!Init => Home!Inv
<1> SUFFICES ASSUME Home!Init PROVE Home!Inv
  OBVIOUS
<1>1. /\ srv \in [ok : BOOLEAN, model : {"m"}, crashed : BOOLEAN, packs : {0}, version : 0..1]
      /\ page = Home!Opened(1)
      /\ calls = {[k |-> k, n |-> 0, visit |-> 1, path |-> Home!None, got |-> Home!Waiting] :
                    k \in Home!Hooks}
      /\ hist = [sent |-> 0, changes |-> 0, dismissed |-> 0, model |-> Home!None, alone |-> TRUE]
  BY DEF Home!Init
<1>2. Home!Shape
  BY <1>1 DEF Home!Shape, Home!Opened
<1>3. Home!Notices
  BY <1>1 DEF Home!Notices, Home!DismissedStays, Home!Opened
<1>4. Home!Restarted
  BY <1>1 DEF Home!Restarted
<1>5. Home!AsksUntilHealthy
  <2>1. "health" \in Home!Hooks /\ page.visit = 1
    BY <1>1 DEF Home!Hooks, Home!Opened
  <2>2. PICK c : c = [k |-> "health", n |-> 0, visit |-> 1, path |-> Home!None, got |-> Home!Waiting]
    OBVIOUS
  <2>3. c \in calls
    BY <1>1, <2>1, <2>2
  <2>4. QED BY <2>1, <2>2, <2>3 DEF Home!AsksUntilHealthy
<1>6. QED BY <1>2, <1>3, <1>4, <1>5 DEF Home!Inv

\* What leaves the steps of a restart and the model alone.
LEMMA RestartKept ==
  ASSUME Home!Restarted, NEW C, calls' = C,
         \A c : c.k \in Home!Steps => (c \in C <=> c \in calls),
         srv'.model = srv.model, hist'.model = hist.model, hist'.alone => hist.alone
  PROVE  Home!Restarted'
<1>1. Home!Of(Home!Steps)' = Home!Of(Home!Steps)
  BY DEF Home!Of
<1>2. ASSUME NEW c, Home!Of(Home!Steps) = {c} PROVE c \in C
  BY <1>2 DEF Home!Of
<1>3. QED BY <1>1, <1>2 DEF Home!Restarted

\* What leaves the checks of the page under way.
LEMMA ChecksKept ==
  ASSUME Home!AsksUntilHealthy, page'.health = page.health, page'.visit = page.visit,
         ticking' = ticking,
         \A c \in calls : c.k = "health" => \E d \in calls' : d.k = "health" /\ d.visit = c.visit
  PROVE  Home!AsksUntilHealthy'
  BY DEF Home!AsksUntilHealthy
LEMMA HomeStep == Home!Inv /\ Home!Next => Home!Inv'
<1> SUFFICES ASSUME Home!Inv, Home!Next PROVE Home!Inv'
  OBVIOUS
<1>0. Home!Shape /\ Home!Notices /\ Home!Restarted /\ Home!AsksUntilHealthy
  BY DEF Home!Inv
<1>1. CASE Home!Visit
  <2>1. PICK C : C = {Home!Request(k, Home!None) : k \in Home!Hooks}
    OBVIOUS
  <2>2. /\ page' = Home!Opened(page.visit + 1) /\ UNCHANGED srv
        /\ calls' = Home!Of(Home!Steps \cup {"reseed"}) \cup C
        /\ hist' = [hist EXCEPT !.sent = @ + 1]
    BY <1>1, <2>1 DEF Home!Visit, Home!Sent
  <2>3. \A c \in C : /\ c = [k |-> c.k, n |-> c.n, visit |-> c.visit, path |-> c.path, got |-> c.got]
                     /\ c.k \in Home!Hooks
    BY <2>1 DEF Home!Request
  <2>4. PICK c \in C : c.k = "health" /\ c.visit = page'.visit
    <3>1. "health" \in Home!Hooks
      BY DEF Home!Hooks
    <3>2. PICK c : c = Home!Request("health", Home!None)
      OBVIOUS
    <3>3. c \in C
      BY <2>1, <3>1, <3>2
    <3>4. QED BY <3>2, <3>3 DEF Home!Request
  <2>5. Home!Shape'
    BY <1>0, <2>2, <2>3 DEF Home!Shape, Home!Opened, Home!Of
  <2>6. Home!Notices'
    BY <1>0, <2>2 DEF Home!Notices, Home!DismissedStays, Home!Opened, Home!Shape
  <2>7. Home!Restarted'
    <3>1. \A d : d.k \in Home!Steps => (d \in calls' <=> d \in calls)
      BY <2>2, <2>3 DEF Home!Of, Home!Steps, Home!Hooks
    <3>2. srv'.model = srv.model /\ hist'.model = hist.model /\ hist'.alone = hist.alone
      BY <1>0, <2>2 DEF Home!Shape
    <3>3. QED BY <1>0, <3>1, <3>2, RestartKept
  <2>8. Home!AsksUntilHealthy'
    BY <2>2, <2>4 DEF Home!AsksUntilHealthy
  <2>9. QED BY <2>5, <2>6, <2>7, <2>8 DEF Home!Inv
<1>2. CASE Home!ReadHealth
  <2>1. PICK c, g :
          /\ c \in calls /\ c.k = "health" /\ UNCHANGED <<page, ticking, srv, hist>>
          /\ calls' = (calls \ {c}) \cup {[c EXCEPT !.got = g]}
    BY <1>2 DEF Home!ReadHealth, Home!Read, Home!Of
  <2>2. PICK d : d = [c EXCEPT !.got = g]
    OBVIOUS
  <2>3. d = [k |-> "health", n |-> c.n, visit |-> c.visit, path |-> c.path, got |-> g]
    BY <1>0, <2>1, <2>2 DEF Home!Shape
  <2>4. Home!Shape'
    BY <1>0, <2>1, <2>2, <2>3 DEF Home!Shape
  <2>5. Home!Notices'
    BY <1>0, <2>1 DEF Home!Notices, Home!DismissedStays
  <2>6. Home!Restarted'
    <3>1. \A e : e.k \in Home!Steps => (e \in calls' <=> e \in calls)
      BY <2>1, <2>2, <2>3 DEF Home!Steps
    <3>2. QED BY <1>0, <2>1, <3>1, RestartKept
  <2>7. Home!AsksUntilHealthy'
    BY <1>0, <2>1, <2>2, <2>3, ChecksKept
  <2>8. QED BY <2>4, <2>5, <2>6, <2>7 DEF Home!Inv
<1>3. CASE Home!Change
  <2>1. hist' = [hist EXCEPT !.changes = @ + 1] /\ UNCHANGED <<page, ticking, calls>>
    BY <1>3 DEF Home!Change
  <2>2. PICK ok, crashed, version :
          /\ srv' = [ok |-> ok, model |-> srv.model, crashed |-> crashed, packs |-> srv.packs,
                     version |-> version]
          /\ version \in {srv.version, srv.version + 1}
    <3>1. CASE srv' = [srv EXCEPT !.crashed = TRUE]
      BY <1>0, <3>1 DEF Home!Shape
    <3>2. CASE srv' = [srv EXCEPT !.ok = ~@]
      <4>1. PICK b : b = ~srv.ok
        OBVIOUS
      <4>2. srv' = [srv EXCEPT !.ok = b]
        BY <3>2, <4>1
      <4>3. QED BY <1>0, <4>2 DEF Home!Shape
    <3>3. CASE srv' = [srv EXCEPT !.version = @ + 1]
      BY <1>0, <3>3 DEF Home!Shape
    <3>4. QED BY <1>3, <3>1, <3>2, <3>3 DEF Home!Change
  <2>3. Home!Shape'
    BY <1>0, <2>1, <2>2 DEF Home!Shape
  <2>4. hist'.dismissed = hist.dismissed /\ hist'.model = hist.model /\ hist'.alone = hist.alone
    BY <1>0, <2>1 DEF Home!Shape
  <2>5. srv'.version \in {srv.version, srv.version + 1} /\ srv'.model = srv.model
    BY <2>2
  <2>6. Home!Notices'
    BY <1>0, <2>1, <2>4, <2>5 DEF Home!Notices, Home!DismissedStays
  <2>7. Home!Restarted'
    BY <1>0, <2>1, <2>4, <2>5, RestartKept
  <2>8. Home!AsksUntilHealthy'
    BY <1>0, <2>1, ChecksKept
  <2>9. QED BY <2>3, <2>6, <2>7, <2>8 DEF Home!Inv
<1>4. CASE Home!HealthAnswered
  <2>1. PICK c, h :
          /\ c \in calls /\ c.k = "health" /\ c.visit = page.visit /\ calls' = calls \ {c} /\ UNCHANGED <<srv, hist>>
          /\ \E v, l, e : h = [page EXCEPT !.health = v, !.llm = l, !.error = e]
                         /\ (~Home!AsksAgain(c.got) => v = "healthy")
          /\ IF Home!AsksAgain(c.got)
             THEN page' = Home!Timed(h) /\ ticking' = ticking \cup {h.timeoutId + 1}
             ELSE page' = h /\ UNCHANGED ticking
    BY <1>4 DEF Home!HealthAnswered, Home!Own, Home!Of, Home!AsksAgain
  <2>2. PICK v, l, e : h = [page EXCEPT !.health = v, !.llm = l, !.error = e]
                       /\ (~Home!AsksAgain(c.got) => v = "healthy")
    BY <2>1
  <2>3. PICK t : page' = [visit |-> page.visit, health |-> v, llm |-> l, error |-> e,
                          count |-> page.count, restarting |-> page.restarting,
                          reseed |-> page.reseed, update |-> page.update,
                          version |-> page.version, timeoutId |-> t]
    <3>1. h = [visit |-> page.visit, health |-> v, llm |-> l, error |-> e,
               count |-> page.count, restarting |-> page.restarting,
               reseed |-> page.reseed, update |-> page.update,
               version |-> page.version, timeoutId |-> page.timeoutId]
      BY <1>0, <2>2 DEF Home!Shape
    <3>2. page' = [h EXCEPT !.timeoutId = @ + 1] \/ page' = h
      BY <2>1 DEF Home!Timed
    <3>3. QED BY <3>1, <3>2
  <2>4. Home!Shape'
    BY <1>0, <2>1, <2>3 DEF Home!Shape
  <2>5. Home!Notices'
    BY <1>0, <2>1, <2>3 DEF Home!Notices, Home!DismissedStays
  <2>6. Home!Restarted'
    <3>1. \A d : d.k \in Home!Steps => (d \in calls' <=> d \in calls)
      BY <2>1 DEF Home!Steps
    <3>2. QED BY <1>0, <2>1, <3>1, RestartKept
  <2>7. Home!AsksUntilHealthy'
    BY <2>1, <2>2, <2>3 DEF Home!AsksUntilHealthy
  <2>8. QED BY <2>4, <2>5, <2>6, <2>7 DEF Home!Inv
<1>5. CASE Home!TimerFires
  <2>1. PICK c : c = Home!Request("health", Home!None)
    OBVIOUS
  <2>2. calls' = calls \cup {c} /\ hist' = [hist EXCEPT !.sent = @ + 1] /\ UNCHANGED <<page, srv>>
    BY <1>5, <2>1 DEF Home!TimerFires, Home!Sent
  <2>3. c = [k |-> "health", n |-> c.n, visit |-> page.visit, path |-> c.path, got |-> c.got]
    BY <2>1, <2>2 DEF Home!Request
  <2>4. Home!Shape'
    BY <1>0, <2>2, <2>3 DEF Home!Shape
  <2>5. hist'.dismissed = hist.dismissed /\ hist'.model = hist.model /\ hist'.alone = hist.alone
    BY <1>0, <2>2 DEF Home!Shape
  <2>6. Home!Notices'
    BY <1>0, <2>2, <2>5 DEF Home!Notices, Home!DismissedStays
  <2>7. Home!Restarted'
    <3>1. \A d : d.k \in Home!Steps => (d \in calls' <=> d \in calls)
      BY <2>2, <2>3 DEF Home!Steps
    <3>2. QED BY <1>0, <2>2, <2>5, <3>1, RestartKept
  <2>8. Home!AsksUntilHealthy'
    BY <2>2, <2>3 DEF Home!AsksUntilHealthy
  <2>9. QED BY <2>4, <2>6, <2>7, <2>8 DEF Home!Inv
<1>6. CASE Home!Restart
  <2>1. PICK c, b : c = Home!Request("status", Home!None) /\ b = (Home!Of(Home!Steps) = {})
    OBVIOUS
  <2>2. /\ page' = [page EXCEPT !.restarting = TRUE] /\ UNCHANGED <<ticking, srv>>
        /\ calls' = calls \cup {c}
        /\ hist' = [[hist EXCEPT !.sent = @ + 1] EXCEPT !.model = srv.model, !.alone = b]
    BY <1>6, <2>1 DEF Home!Restart, Home!Sent
  <2>3. c = [k |-> "status", n |-> c.n, visit |-> c.visit, path |-> c.path, got |-> c.got]
    BY <2>1 DEF Home!Request
  <2>4. Home!Shape'
    BY <1>0, <2>2, <2>3 DEF Home!Shape
  <2>5. hist'.dismissed = hist.dismissed /\ hist'.model = srv.model /\ hist'.alone = b
    BY <1>0, <2>2 DEF Home!Shape
  <2>6. page'.version = page.version /\ page'.update = page.update
        /\ page'.health = page.health /\ page'.visit = page.visit
    BY <1>0, <2>2 DEF Home!Shape
  <2>7. Home!Notices'
    BY <1>0, <2>2, <2>5, <2>6 DEF Home!Notices, Home!DismissedStays
  <2>8. Home!Restarted'
    <3>1. SUFFICES ASSUME Home!Of(Home!Steps) = {}
                   PROVE  /\ Home!Of(Home!Steps)' = {c} /\ c \in calls'
                          /\ c.k = "status" /\ srv'.model = hist'.model
      BY <2>1, <2>5 DEF Home!Restarted
    <3>2. QED BY <2>2, <2>3, <2>5, <3>1 DEF Home!Of, Home!Steps
  <2>9. Home!AsksUntilHealthy'
    BY <1>0, <2>2, <2>6, ChecksKept
  <2>10. QED BY <2>4, <2>7, <2>8, <2>9 DEF Home!Inv
<1>7. ASSUME NEW c \in calls, NEW k, NEW p, Home!Goes(c, k, p)
      PROVE  \E d : /\ d = [k |-> k, n |-> c.n, visit |-> c.visit, path |-> p, got |-> c.got]
                    /\ calls' = (calls \ {c}) \cup {d}
                    /\ \A x \in calls' : x = [k |-> x.k, n |-> x.n, visit |-> x.visit,
                                              path |-> x.path, got |-> x.got]
  <2>1. PICK d : d = [c EXCEPT !.k = k, !.path = p]
    OBVIOUS
  <2>2. d = [k |-> k, n |-> c.n, visit |-> c.visit, path |-> p, got |-> c.got]
    <3>1. c = [k |-> c.k, n |-> c.n, visit |-> c.visit, path |-> c.path, got |-> c.got]
      BY <1>0 DEF Home!Shape
    <3>2. QED BY <2>1, <3>1
  <2>3. calls' = (calls \ {c}) \cup {d}
    BY <1>7, <2>1 DEF Home!Goes
  <2>4. QED BY <1>0, <2>2, <2>3 DEF Home!Shape
<1>8. ASSUME NEW ok \in BOOLEAN, Home!Untroubled(ok)
      PROVE  /\ hist' = [sent |-> hist'.sent, changes |-> hist'.changes,
                         dismissed |-> hist'.dismissed, model |-> hist'.model, alone |-> hist'.alone]
             /\ hist'.dismissed = hist.dismissed /\ hist'.model = hist.model
             /\ hist'.alone => hist.alone /\ ok
  <2>1. CASE ok
    BY <1>0, <1>8, <2>1 DEF Home!Untroubled, Home!Shape
  <2>2. CASE ~ok
    BY <1>0, <1>8, <2>2 DEF Home!Untroubled, Home!Shape
  <2>3. QED BY <2>1, <2>2
<1>9. CASE Home!StatusAnswered
  <2>1. PICK c, ok, p :
          /\ c \in calls /\ ok \in BOOLEAN /\ c.k = "status" /\ p = (IF ok THEN srv.model ELSE Home!None)
          /\ Home!Goes(c, "stop", p)
          /\ Home!Untroubled(ok) /\ UNCHANGED <<page, ticking, srv>>
    BY <1>9 DEF Home!StatusAnswered, Home!Of
  <2>2. PICK d : /\ d = [k |-> "stop", n |-> c.n, visit |-> c.visit, path |-> p, got |-> c.got]
                 /\ calls' = (calls \ {c}) \cup {d}
                 /\ \A x \in calls' : x = [k |-> x.k, n |-> x.n, visit |-> x.visit,
                                           path |-> x.path, got |-> x.got]
    BY <1>7, <2>1
  <2>3. Home!Shape'
    BY <1>0, <1>8, <2>1, <2>2 DEF Home!Shape
  <2>4. Home!Notices'
    BY <1>0, <1>8, <2>1 DEF Home!Notices, Home!DismissedStays
  <2>5. Home!Restarted'
    <3>1. SUFFICES ASSUME hist'.alone, hist'.model # Home!None
                   PROVE  Home!Of(Home!Steps)' = {d} /\ d \in calls' /\ d.path = hist'.model
      BY <2>2 DEF Home!Restarted
    <3>2. hist'.model = hist.model /\ hist.alone /\ ok
      BY <1>8, <2>1, <3>1
    <3>3. c \in Home!Of(Home!Steps)
      BY <2>1 DEF Home!Of, Home!Steps
    <3>4. Home!Of(Home!Steps) = {c} /\ srv.model = hist.model
      BY <1>0, <2>1, <3>1, <3>2, <3>3 DEF Home!Restarted
    <3>5. Home!Of(Home!Steps)' = {d}
      BY <2>2, <3>4 DEF Home!Of, Home!Steps
    <3>6. QED BY <2>1, <2>2, <3>2, <3>4, <3>5
  <2>6. Home!AsksUntilHealthy'
    BY <1>0, <2>1, <2>2, ChecksKept
  <2>7. QED BY <2>3, <2>4, <2>5, <2>6 DEF Home!Inv
<1>10. CASE Home!StepAnswered
  <2>1. PICK c \in calls, ok \in BOOLEAN :
          /\ c.k \in {"stop", "start"}
          /\ IF ok THEN Home!Succeeds(c) ELSE Home!Fails(c)
          /\ Home!Untroubled(ok)
          /\ IF Home!Starts(c) THEN Home!Goes(c, "start", c.path) /\ UNCHANGED <<page, ticking>>
             ELSE Home!Refetched(c)
    BY <1>10 DEF Home!StepAnswered, Home!Of
  <2>2. /\ srv' = [ok |-> srv'.ok, model |-> srv'.model, crashed |-> srv'.crashed,
                   packs |-> srv'.packs, version |-> srv.version]
        /\ ok => srv'.model = IF c.k = "stop" THEN Home!None ELSE c.path
    <3>1. Home!Effect(c) = [ok |-> srv.ok, model |-> IF c.k = "stop" THEN Home!None ELSE c.path,
                            crashed |-> FALSE, packs |-> srv.packs, version |-> srv.version]
      <4>1. CASE c.k = "stop"
        BY <1>0, <4>1 DEF Home!Effect, Home!Shape
      <4>2. CASE c.k = "start"
        BY <1>0, <4>2 DEF Home!Effect, Home!Shape
      <4>3. QED BY <2>1, <4>1, <4>2
    <3>2. srv' \in {srv, Home!Effect(c)} /\ (ok => srv' = Home!Effect(c))
      BY <2>1 DEF Home!Succeeds, Home!Fails
    <3>3. CASE srv' = Home!Effect(c)
      BY <3>1, <3>3
    <3>4. CASE srv' = srv /\ ~ok
      BY <1>0, <3>4 DEF Home!Shape
    <3>5. QED BY <3>2, <3>3, <3>4
  <2>3. /\ page' = [visit |-> page'.visit, health |-> page'.health, llm |-> page'.llm,
                    error |-> page'.error, count |-> page'.count, restarting |-> page'.restarting,
                    reseed |-> page'.reseed, update |-> page'.update, version |-> page'.version,
                    timeoutId |-> page'.timeoutId]
        /\ page'.version = page.version /\ page'.update = page.update
        /\ page'.health = page.health /\ page'.visit = page.visit
    <3>1. page' = [page EXCEPT !.restarting = FALSE] \/ page' = page
      BY <2>1 DEF Home!Refetched
    <3>2. QED BY <1>0, <3>1 DEF Home!Shape
  <2>4. PICK D : /\ calls' = (calls \ {c}) \cup D /\ (D = {} \/ \E d : D = {d})
                 /\ \A d \in D : d = [k |-> d.k, n |-> d.n, visit |-> c.visit, path |-> d.path,
                                      got |-> d.got]
                 /\ IF Home!Starts(c)
                    THEN \A d \in D : d.k = "start" /\ d.path = c.path
                    ELSE \A d \in D : d.k = "health"
                 /\ IF Home!Starts(c) THEN D # {} /\ UNCHANGED ticking
                    ELSE IF c.visit = page.visit THEN D # {} ELSE UNCHANGED ticking
    <3>1. CASE Home!Starts(c)
      <4>1. PICK d : /\ d = [k |-> "start", n |-> c.n, visit |-> c.visit, path |-> c.path,
                             got |-> c.got]
                     /\ calls' = (calls \ {c}) \cup {d}
        BY <1>7, <2>1, <3>1
      <4>2. PICK D : D = {d}
        OBVIOUS
      <4>3. D # {} /\ \A x \in D : x = d
        BY <4>2
      <4>4. /\ calls' = (calls \ {c}) \cup D
            /\ (D = {} \/ \E x : D = {x})
            /\ \A x \in D : x = [k |-> x.k, n |-> x.n, visit |-> c.visit, path |-> x.path,
                                 got |-> x.got]
            /\ IF Home!Starts(c)
               THEN \A x \in D : x.k = "start" /\ x.path = c.path
               ELSE \A x \in D : x.k = "health"
            /\ IF Home!Starts(c) THEN D # {} /\ UNCHANGED ticking
               ELSE IF c.visit = page.visit THEN D # {} ELSE UNCHANGED ticking
        BY <2>1, <3>1, <4>1, <4>2, <4>3
      <4>5. QED BY <4>4, Zenon
    <3>2. CASE ~Home!Starts(c) /\ c.visit = page.visit
      <4>1. PICK d : /\ d = [k |-> "health", n |-> c.n, visit |-> c.visit, path |-> Home!None,
                             got |-> c.got]
                     /\ calls' = (calls \ {c}) \cup {d}
        BY <1>7, <2>1, <3>2 DEF Home!Refetched
      <4>2. PICK D : D = {d}
        OBVIOUS
      <4>3. D # {} /\ \A x \in D : x = d
        BY <4>2
      <4>4. /\ calls' = (calls \ {c}) \cup D
            /\ (D = {} \/ \E x : D = {x})
            /\ \A x \in D : x = [k |-> x.k, n |-> x.n, visit |-> c.visit, path |-> x.path,
                                 got |-> x.got]
            /\ IF Home!Starts(c)
               THEN \A x \in D : x.k = "start" /\ x.path = c.path
               ELSE \A x \in D : x.k = "health"
            /\ IF Home!Starts(c) THEN D # {} /\ UNCHANGED ticking
               ELSE IF c.visit = page.visit THEN D # {} ELSE UNCHANGED ticking
        BY <3>2, <4>1, <4>2, <4>3
      <4>5. QED BY <4>4, Zenon
    <3>3. CASE ~Home!Starts(c) /\ c.visit # page.visit
      <4>1. PICK D : D = {}
        OBVIOUS
      <4>2. calls' = (calls \ {c}) \cup D /\ UNCHANGED ticking
        BY <2>1, <3>3, <4>1 DEF Home!Refetched
      <4>3. QED BY <3>3, <4>1, <4>2
    <3>4. QED BY <3>1, <3>2, <3>3
  <2>5. Home!Shape'
    <3>1. \A x \in calls' : x = [k |-> x.k, n |-> x.n, visit |-> x.visit, path |-> x.path,
                                 got |-> x.got]
      <4>1. \A x \in calls \ {c} : x = [k |-> x.k, n |-> x.n, visit |-> x.visit, path |-> x.path,
                                         got |-> x.got]
        BY <1>0 DEF Home!Shape
      <4>2. ASSUME NEW x \in calls'
            PROVE  x = [k |-> x.k, n |-> x.n, visit |-> x.visit, path |-> x.path, got |-> x.got]
        BY <2>4, <4>1
      <4>3. QED BY <4>2
    <3>2. srv' = [ok |-> srv'.ok, model |-> srv'.model, crashed |-> srv'.crashed,
                  packs |-> srv'.packs, version |-> srv'.version]
      BY <2>2
    <3>3. QED BY <1>8, <2>1, <2>3, <3>1, <3>2 DEF Home!Shape
  <2>6. Home!Notices'
    <3>1. srv'.version = srv.version
      BY <2>2
    <3>2. QED BY <1>0, <1>8, <2>1, <2>3, <3>1 DEF Home!Notices, Home!DismissedStays
  <2>7. Home!Restarted'
    <3>1. SUFFICES ASSUME hist'.alone, hist'.model # Home!None
                   PROVE  \/ Home!Of(Home!Steps)' = {} /\ srv'.model = hist'.model
                          \/ \E d \in calls' : /\ Home!Of(Home!Steps)' = {d}
                                              /\ d.k = "start" /\ d.path = hist'.model
      BY DEF Home!Restarted
    <3>2. hist'.model = hist.model /\ hist.alone /\ ok
      BY <1>8, <2>1, <3>1
    <3>3. c \in Home!Of(Home!Steps)
      BY <2>1 DEF Home!Of, Home!Steps
    <3>4. Home!Of(Home!Steps) = {c} /\ c.path = hist.model /\ c.path # Home!None
      BY <1>0, <2>1, <3>1, <3>2, <3>3 DEF Home!Restarted
    <3>5. \A x \in calls \ {c} : x.k \notin Home!Steps
      BY <3>4 DEF Home!Of
    <3>6. CASE Home!Starts(c)
      <4>1. PICK d : D = {d}
        BY <2>4, <3>6
      <4>2. d.k = "start" /\ d.path = c.path /\ d \in calls'
        BY <2>4, <3>6, <4>1
      <4>3. Home!Of(Home!Steps)' = {d}
        BY <2>4, <3>5, <4>1, <4>2 DEF Home!Of, Home!Steps
      <4>4. QED BY <3>2, <3>4, <4>2, <4>3
    <3>7. CASE ~Home!Starts(c)
      <4>1. c.k = "start"
        BY <2>1, <3>4, <3>7 DEF Home!Starts
      <4>2. srv'.model = hist'.model
        BY <2>2, <3>2, <3>4, <4>1
      <4>3. Home!Of(Home!Steps)' = {}
        BY <2>4, <3>5, <3>7 DEF Home!Of, Home!Steps
      <4>4. QED BY <4>2, <4>3
    <3>8. QED BY <3>6, <3>7
  <2>8. Home!AsksUntilHealthy'
    <3>1. CASE UNCHANGED ticking
      <4>1. \A x \in calls : x.k = "health" => \E d \in calls' : d.k = "health" /\ d.visit = x.visit
        BY <2>1, <2>4
      <4>2. QED BY <1>0, <2>3, <3>1, <4>1, ChecksKept
    <3>2. CASE ~Home!Starts(c) /\ c.visit = page.visit
      <4>1. PICK d \in D : d.k = "health" /\ d.visit = c.visit
        BY <2>4, <3>2
      <4>2. QED BY <2>3, <2>4, <3>2, <4>1 DEF Home!AsksUntilHealthy
    <3>3. QED BY <2>4, <3>1, <3>2
  <2>9. QED BY <2>5, <2>6, <2>7, <2>8 DEF Home!Inv
<1>11. CASE Home!PacksAnswered \/ Home!Reseed
  <2>1. PICK n, r : page' = [page EXCEPT !.count = n, !.reseed = r]
    <3>1. CASE Home!PacksAnswered
      <4>1. PICK n : page' = [page EXCEPT !.count = n]
        BY <3>1 DEF Home!PacksAnswered
      <4>2. page' = [page EXCEPT !.count = n, !.reseed = page.reseed]
        BY <1>0, <4>1 DEF Home!Shape
      <4>3. QED BY <4>2
    <3>2. CASE Home!Reseed
      <4>1. page' = [page EXCEPT !.reseed = "busy"]
        BY <3>2 DEF Home!Reseed
      <4>2. page' = [page EXCEPT !.count = page.count, !.reseed = "busy"]
        BY <1>0, <4>1 DEF Home!Shape
      <4>3. QED BY <4>2
    <3>3. QED BY <1>11, <3>1, <3>2
  <2>2. /\ page' = [visit |-> page'.visit, health |-> page'.health, llm |-> page'.llm,
                    error |-> page'.error, count |-> page'.count, restarting |-> page'.restarting,
                    reseed |-> page'.reseed, update |-> page'.update, version |-> page'.version,
                    timeoutId |-> page'.timeoutId]
        /\ page'.version = page.version /\ page'.update = page.update
        /\ page'.health = page.health /\ page'.visit = page.visit
    BY <1>0, <2>1 DEF Home!Shape
  <2>3. /\ UNCHANGED <<ticking, srv>>
        /\ \A c \in calls : c.k # "packs" => c \in calls'
        /\ \A c \in calls' : c \in calls \/ c = Home!Request("reseed", Home!None)
    BY <1>11 DEF Home!PacksAnswered, Home!Reseed, Home!Own, Home!Of
  <2>4. PICK d : d = Home!Request("reseed", Home!None)
    OBVIOUS
  <2>5. d = [k |-> "reseed", n |-> d.n, visit |-> d.visit, path |-> d.path, got |-> d.got]
    BY <2>4 DEF Home!Request
  <2>6. hist' = hist \/ hist' = [hist EXCEPT !.sent = @ + 1]
    BY <1>11 DEF Home!PacksAnswered, Home!Reseed, Home!Sent
  <2>7. /\ hist' = [sent |-> hist'.sent, changes |-> hist'.changes, dismissed |-> hist'.dismissed,
                    model |-> hist'.model, alone |-> hist'.alone]
        /\ hist'.dismissed = hist.dismissed /\ hist'.model = hist.model /\ hist'.alone = hist.alone
    BY <1>0, <2>6 DEF Home!Shape
  <2>8. Home!Shape'
    BY <1>0, <2>2, <2>3, <2>4, <2>5, <2>7 DEF Home!Shape
  <2>9. Home!Notices'
    BY <1>0, <2>2, <2>3, <2>7 DEF Home!Notices, Home!DismissedStays
  <2>10. Home!Restarted'
    <3>1. \A e : e.k \in Home!Steps => (e \in calls' <=> e \in calls)
      BY <2>3, <2>4, <2>5 DEF Home!Steps
    <3>2. QED BY <1>0, <2>3, <2>7, <3>1, RestartKept
  <2>11. Home!AsksUntilHealthy'
    BY <1>0, <2>2, <2>3, ChecksKept
  <2>12. QED BY <2>8, <2>9, <2>10, <2>11 DEF Home!Inv
<1>12. CASE Home!ReseedAnswered
  <2>1. PICK c \in calls, ok \in BOOLEAN :
          /\ c.k = "reseed" /\ (IF ok THEN Home!Succeeds(c) ELSE Home!Fails(c))
          /\ UNCHANGED <<ticking, hist>>
          /\ page' = page \/ \E r : page' = [page EXCEPT !.reseed = r]
          /\ calls' = calls \ {c} \/ Home!Goes(c, "packs", Home!None)
    BY <1>12 DEF Home!ReseedAnswered, Home!Of
  <2>2. /\ srv' = [ok |-> srv'.ok, model |-> srv'.model, crashed |-> srv'.crashed,
                   packs |-> srv'.packs, version |-> srv'.version]
        /\ srv'.model = srv.model /\ srv'.version = srv.version
    <3>1. Home!Effect(c) = [srv EXCEPT !.packs = 1]
      BY <2>1 DEF Home!Effect
    <3>2. srv' = srv \/ srv' = [srv EXCEPT !.packs = 1]
      BY <2>1, <3>1 DEF Home!Succeeds, Home!Fails
    <3>3. QED BY <1>0, <3>2 DEF Home!Shape
  <2>3. /\ page' = [visit |-> page'.visit, health |-> page'.health, llm |-> page'.llm,
                    error |-> page'.error, count |-> page'.count, restarting |-> page'.restarting,
                    reseed |-> page'.reseed, update |-> page'.update, version |-> page'.version,
                    timeoutId |-> page'.timeoutId]
        /\ page'.version = page.version /\ page'.update = page.update
        /\ page'.health = page.health /\ page'.visit = page.visit
    BY <1>0, <2>1 DEF Home!Shape
  <2>4. PICK D : /\ calls' = (calls \ {c}) \cup D
                 /\ \A d \in D : d.k = "packs" /\ d = [k |-> d.k, n |-> d.n, visit |-> d.visit,
                                                      path |-> d.path, got |-> d.got]
    <3>1. CASE calls' = calls \ {c}
      <4>1. PICK D : D = {}
        OBVIOUS
      <4>2. calls' = (calls \ {c}) \cup D
        BY <3>1, <4>1
      <4>3. QED BY <4>1, <4>2
    <3>2. CASE Home!Goes(c, "packs", Home!None)
      <4>1. PICK d : /\ d = [k |-> "packs", n |-> c.n, visit |-> c.visit, path |-> Home!None,
                             got |-> c.got]
                     /\ calls' = (calls \ {c}) \cup {d}
        BY <1>7, <3>2
      <4>2. PICK D : D = {d}
        OBVIOUS
      <4>3. QED BY <4>1, <4>2
    <3>3. QED BY <2>1, <3>1, <3>2
  <2>5. Home!Shape'
    BY <1>0, <2>1, <2>2, <2>3, <2>4 DEF Home!Shape
  <2>6. Home!Notices'
    BY <1>0, <2>1, <2>2, <2>3 DEF Home!Notices, Home!DismissedStays
  <2>7. Home!Restarted'
    <3>1. \A e : e.k \in Home!Steps => (e \in calls' <=> e \in calls)
      BY <2>1, <2>4 DEF Home!Steps
    <3>2. QED BY <1>0, <2>1, <2>2, <3>1, RestartKept
  <2>8. Home!AsksUntilHealthy'
    <3>1. \A x \in calls : x.k = "health" => x \in calls'
      BY <2>1, <2>4
    <3>2. QED BY <1>0, <2>1, <2>3, <3>1, ChecksKept
  <2>9. QED BY <2>5, <2>6, <2>7, <2>8 DEF Home!Inv
<1>13. CASE Home!UpdateAnswered
  <2>1. PICK c \in calls, v \in {0, srv.version} :
          /\ c.k = "update" /\ calls' = calls \ {c} /\ UNCHANGED <<ticking, srv, hist>>
          /\ page' = IF v = 0 THEN [page EXCEPT !.update = "idle"]
                     ELSE [page EXCEPT !.version = v,
                             !.update = IF Home!Dismissed(v) THEN "dismissed" ELSE "available"]
    BY <1>13 DEF Home!UpdateAnswered, Home!Own, Home!Of
  <2>2. PICK u, w : /\ page' = [visit |-> page.visit, health |-> page.health, llm |-> page.llm,
                                error |-> page.error, count |-> page.count, restarting |-> page.restarting,
                                reseed |-> page.reseed, update |-> u, version |-> w,
                                timeoutId |-> page.timeoutId]
                    /\ w \in {page.version, srv.version}
                    /\ u = "available" => w = srv.version /\ w # hist.dismissed
    <3>1. CASE v = 0
      <4>1. PICK u, w : u = "idle" /\ w = page.version
        OBVIOUS
      <4>2. page' = [page EXCEPT !.update = u]
        BY <2>1, <3>1, <4>1
      <4>3. page' = [visit |-> page.visit, health |-> page.health, llm |-> page.llm,
                     error |-> page.error, count |-> page.count, restarting |-> page.restarting,
                     reseed |-> page.reseed, update |-> u, version |-> w,
                     timeoutId |-> page.timeoutId]
        BY <1>0, <4>1, <4>2 DEF Home!Shape
      <4>4. /\ w \in {page.version, srv.version}
            /\ u = "available" => w = srv.version /\ w # hist.dismissed
        BY <4>1
      <4>5. QED BY <4>3, <4>4, Zenon
    <3>2. CASE v # 0
      <4>1. PICK u, w : w = v /\ u = IF Home!Dismissed(v) THEN "dismissed" ELSE "available"
        OBVIOUS
      <4>2. page' = [visit |-> page.visit, health |-> page.health, llm |-> page.llm,
                     error |-> page.error, count |-> page.count, restarting |-> page.restarting,
                     reseed |-> page.reseed, update |-> u, version |-> w,
                     timeoutId |-> page.timeoutId]
        BY <1>0, <2>1, <3>2, <4>1 DEF Home!Shape
      <4>3. /\ w \in {page.version, srv.version}
            /\ u = "available" => w = srv.version /\ w # hist.dismissed
        BY <2>1, <3>2, <4>1 DEF Home!Dismissed
      <4>4. QED BY <4>2, <4>3, Zenon
    <3>3. QED BY <3>1, <3>2
  <2>3. /\ page' = [visit |-> page'.visit, health |-> page'.health, llm |-> page'.llm,
                    error |-> page'.error, count |-> page'.count, restarting |-> page'.restarting,
                    reseed |-> page'.reseed, update |-> page'.update, version |-> page'.version,
                    timeoutId |-> page'.timeoutId]
        /\ page'.version = w /\ page'.update = u
        /\ page'.health = page.health /\ page'.visit = page.visit
    BY <1>0, <2>2 DEF Home!Shape
  <2>4. Home!Shape'
    BY <1>0, <2>1, <2>3 DEF Home!Shape
  <2>5. Home!Notices'
    BY <1>0, <2>1, <2>2, <2>3 DEF Home!Notices, Home!DismissedStays
  <2>6. Home!Restarted'
    <3>1. \A e : e.k \in Home!Steps => (e \in calls' <=> e \in calls)
      BY <2>1 DEF Home!Steps
    <3>2. QED BY <1>0, <2>1, <3>1, RestartKept
  <2>7. Home!AsksUntilHealthy'
    <3>1. \A x \in calls : x.k = "health" => x \in calls'
      BY <2>1
    <3>2. QED BY <1>0, <2>1, <2>3, <3>1, ChecksKept
  <2>8. QED BY <2>4, <2>5, <2>6, <2>7 DEF Home!Inv
<1>14. CASE Home!DismissUpdate
  <2>1. /\ page' = [page EXCEPT !.update = "dismissed"]
        /\ hist' = [hist EXCEPT !.dismissed = page.version] /\ UNCHANGED <<ticking, calls, srv>>
    BY <1>14 DEF Home!DismissUpdate
  <2>2. /\ page' = [visit |-> page'.visit, health |-> page'.health, llm |-> page'.llm,
                    error |-> page'.error, count |-> page'.count, restarting |-> page'.restarting,
                    reseed |-> page'.reseed, update |-> page'.update, version |-> page'.version,
                    timeoutId |-> page'.timeoutId]
        /\ page'.version = page.version /\ page'.update = "dismissed"
        /\ page'.health = page.health /\ page'.visit = page.visit
    BY <1>0, <2>1 DEF Home!Shape
  <2>3. /\ hist' = [sent |-> hist'.sent, changes |-> hist'.changes, dismissed |-> hist'.dismissed,
                    model |-> hist'.model, alone |-> hist'.alone]
        /\ hist'.dismissed = page.version /\ hist'.model = hist.model /\ hist'.alone = hist.alone
    BY <1>0, <2>1 DEF Home!Shape
  <2>4. Home!Shape'
    BY <1>0, <2>1, <2>2, <2>3 DEF Home!Shape
  <2>5. Home!Notices'
    BY <1>0, <2>1, <2>2, <2>3 DEF Home!Notices, Home!DismissedStays
  <2>6. Home!Restarted'
    BY <1>0, <2>1, <2>3, RestartKept
  <2>7. Home!AsksUntilHealthy'
    BY <1>0, <2>1, <2>2, ChecksKept
  <2>8. QED BY <2>4, <2>5, <2>6, <2>7 DEF Home!Inv
<1>15. QED
  BY <1>1, <1>2, <1>3, <1>4, <1>5, <1>6, <1>9, <1>10, <1>11, <1>12, <1>13, <1>14 DEF Home!Next

LEMMA HomeHolds ==
  Home!Inv => Home!AsksUntilHealthy /\ Home!RestartBringsBack /\ Home!DismissedStays
<1> SUFFICES ASSUME Home!Inv, Home!Of(Home!Steps) = {}, hist.model # Home!None, hist.alone
             PROVE  srv.model = hist.model
  BY DEF Home!Inv, Home!Notices, Home!RestartBringsBack
<1>1. QED BY DEF Home!Inv, Home!Restarted

-----------------------------------------------------------------------------
(* The debrief *)

LEMMA DebriefInit == Debrief!Init => Debrief!Inv
<1> SUFFICES ASSUME Debrief!Init PROVE Debrief!Inv
  OBVIOUS
<1>1. /\ mirror = "pending" /\ flow = Debrief!Fresh(0)
      /\ hist = [shownIn |-> {}, failed |-> "none", read |-> FALSE, varied |-> FALSE]
  BY DEF Debrief!Init, Debrief!None
<1>2. flow = [phase |-> "loading", err |-> "none", run |-> 0, card |-> mirror = "pending",
              setup |-> FALSE, scenario |-> FALSE, turns |-> FALSE,
              replaying |-> FALSE, exporting |-> FALSE, visit |-> 0]
  BY <1>1 DEF Debrief!Fresh, Debrief!None
<1>3. QED
  BY <1>1, <1>2 DEF Debrief!Inv, Debrief!Shape, Debrief!ShownOnce, Debrief!ErrorOfPage,
    Debrief!ReadsKeep, Debrief!DemoLeavesInvite, Debrief!ReplaysTheScenario

\* What an export leaves on the page, of either server.
LEMMA ReadsExport ==
  ASSUME Debrief!Inv, NEW u, u = Debrief!Reads(Debrief!Export)
  PROVE  /\ u = [phase |-> flow.phase, err |-> flow.err, run |-> flow.run, card |-> flow.card,
                 setup |-> u.setup, scenario |-> u.scenario, turns |-> u.turns,
                 replaying |-> flow.replaying, exporting |-> flow.exporting, visit |-> flow.visit]
         /\ guard.server = "gateway" => u.setup /\ u.scenario
<1>1. PICK e : e = Debrief!Export
  OBVIOUS
<1>2. guard.server = "gateway" => Debrief!Finds(e, "setup") /\ Debrief!Finds(e, "scenario_id")
  BY <1>1 DEF Debrief!Finds, Debrief!Export, Debrief!GatewayExport
<1>3. PICK a, b, t : /\ a = (flow.setup \/ Debrief!Finds(e, "setup"))
                     /\ b = (flow.scenario \/ Debrief!Finds(e, "scenario_id"))
                     /\ t = (e.events \cap {"player_turn", "npc_turn", "npc_opening"} # {})
  OBVIOUS
<1>4. guard.server = "gateway" => a /\ b
  BY <1>2, <1>3
<1>5. u = [flow EXCEPT !.setup = a, !.scenario = b, !.turns = t]
  BY <1>1, <1>3, Zenon DEF Debrief!Reads
<1>6. u = [phase |-> flow.phase, err |-> flow.err, run |-> flow.run, card |-> flow.card,
           setup |-> a, scenario |-> b, turns |-> t,
           replaying |-> flow.replaying, exporting |-> flow.exporting, visit |-> flow.visit]
  BY <1>5 DEF Debrief!Inv, Debrief!Shape
<1>7. u.setup = a /\ u.scenario = b /\ u.turns = t
  BY <1>6
<1>8. QED BY <1>4, <1>6, <1>7

\* A step that shows no card and reads no export keeps the invariant.
LEMMA DebriefQuiet ==
  ASSUME Debrief!Inv, guard' = guard, mirror' = mirror,
         NEW varied, guard.server = "gateway" => ~varied,
         hist' = [shownIn |-> hist.shownIn, failed |-> hist.failed, read |-> hist.read,
                  varied |-> varied],
         flow' = [phase |-> flow'.phase, err |-> flow'.err, run |-> flow'.run, card |-> flow.card,
                  setup |-> flow.setup, scenario |-> flow.scenario, turns |-> flow.turns,
                  replaying |-> flow'.replaying, exporting |-> flow'.exporting,
                  visit |-> flow.visit],
         flow'.phase = "error" => flow.phase = "error" /\ flow'.err = flow.err
  PROVE  Debrief!Inv'
<1>1. /\ flow'.card = flow.card /\ flow'.visit = flow.visit /\ flow'.setup = flow.setup
      /\ flow'.scenario = flow.scenario
      /\ hist'.shownIn = hist.shownIn /\ hist'.failed = hist.failed /\ hist'.read = hist.read
      /\ hist'.varied = varied
  OBVIOUS
<1>2. Debrief!Shape'
  BY DEF Debrief!Inv, Debrief!Shape
<1>3. Debrief!ShownOnce'
  BY <1>1 DEF Debrief!Inv, Debrief!ShownOnce
<1>4. Debrief!ErrorOfPage'
  BY <1>1 DEF Debrief!Inv, Debrief!ErrorOfPage
<1>5. Debrief!ReadsKeep' /\ Debrief!DemoLeavesInvite' /\ Debrief!ReplaysTheScenario'
  BY <1>1 DEF Debrief!Inv, Debrief!ReadsKeep, Debrief!DemoLeavesInvite, Debrief!ReplaysTheScenario
<1>6. QED BY <1>2, <1>3, <1>4, <1>5 DEF Debrief!Inv

LEMMA DebriefStill ==
  ASSUME Debrief!Inv, guard' = guard, mirror' = mirror, hist' = hist,
         flow' = [phase |-> flow'.phase, err |-> flow'.err, run |-> flow'.run, card |-> flow.card,
                  setup |-> flow.setup, scenario |-> flow.scenario, turns |-> flow.turns,
                  replaying |-> flow'.replaying, exporting |-> flow'.exporting,
                  visit |-> flow.visit],
         flow'.phase = "error" => flow.phase = "error" /\ flow'.err = flow.err
  PROVE  Debrief!Inv'
<1>1. PICK varied : varied = hist.varied
  OBVIOUS
<1>2. (guard.server = "gateway" => ~varied)
      /\ hist' = [shownIn |-> hist.shownIn, failed |-> hist.failed, read |-> hist.read,
                  varied |-> varied]
  BY <1>1 DEF Debrief!Inv, Debrief!Shape, Debrief!ReplaysTheScenario
<1>3. QED BY <1>2, DebriefQuiet

LEMMA DebriefStep ==
  ASSUME Debrief!Inv, [Debrief!Next]_(Debrief!vars)
  PROVE  Debrief!Inv'
<1>1. /\ flow = [phase |-> flow.phase, err |-> flow.err, run |-> flow.run, card |-> flow.card,
                 setup |-> flow.setup, scenario |-> flow.scenario, turns |-> flow.turns,
                 replaying |-> flow.replaying, exporting |-> flow.exporting, visit |-> flow.visit]
      /\ hist = [shownIn |-> hist.shownIn, failed |-> hist.failed, read |-> hist.read,
                 varied |-> hist.varied]
      /\ guard.server = "gateway" => ~hist.varied
  BY DEF Debrief!Inv, Debrief!Shape, Debrief!ReplaysTheScenario
<1>2. CASE Debrief!Open
  <2>1. /\ flow' = Debrief!Fresh(flow.visit + 1) /\ guard' = guard /\ mirror' = mirror
        /\ hist' = [shownIn |-> hist.shownIn, failed |-> "none", read |-> FALSE,
                    varied |-> hist.varied]
    BY <1>1, <1>2 DEF Debrief!Open, Debrief!None
  <2>2. PICK card : card = (mirror = "pending")
    OBVIOUS
  <2>3. flow' = [phase |-> "loading", err |-> "none", run |-> 0, card |-> card,
                 setup |-> FALSE, scenario |-> FALSE, turns |-> FALSE,
                 replaying |-> FALSE, exporting |-> FALSE, visit |-> flow.visit + 1]
    BY <2>1, <2>2 DEF Debrief!Fresh, Debrief!None
  <2>4. Debrief!Shape'
    BY <2>1, <2>3 DEF Debrief!Shape
  <2>5. Debrief!ShownOnce'
    <3>1. card => hist.shownIn = {}
      BY <2>2 DEF Debrief!Inv, Debrief!ShownOnce
    <3>2. QED BY <2>1, <2>3, <3>1 DEF Debrief!Inv, Debrief!ShownOnce
  <2>6. QED
    BY <1>1, <2>1, <2>3, <2>4, <2>5 DEF Debrief!Inv, Debrief!ErrorOfPage, Debrief!ReadsKeep,
      Debrief!DemoLeavesInvite, Debrief!ReplaysTheScenario
<1>3. CASE Debrief!GenerateAnswered
  <2>1. guard' = guard
    BY <1>3 DEF Debrief!GenerateAnswered
  <2>2. CASE flow' = flow /\ mirror' = mirror /\ hist' = hist
    BY <1>1, <2>1, <2>2, DebriefStill
  <2>3. CASE /\ flow' = [flow EXCEPT !.phase = "error", !.err = "generate"]
             /\ hist' = [hist EXCEPT !.failed = "generate"] /\ mirror' = mirror
    <3>1. /\ flow' = [phase |-> "error", err |-> "generate", run |-> flow.run, card |-> flow.card,
                      setup |-> flow.setup, scenario |-> flow.scenario, turns |-> flow.turns,
                      replaying |-> flow.replaying, exporting |-> flow.exporting,
                      visit |-> flow.visit]
          /\ hist' = [shownIn |-> hist.shownIn, failed |-> "generate", read |-> hist.read,
                      varied |-> hist.varied]
      BY <1>1, <2>3
    <3>2. Debrief!Shape' /\ Debrief!ErrorOfPage'
      BY <3>1 DEF Debrief!Shape, Debrief!ErrorOfPage
    <3>3. Debrief!ShownOnce'
      BY <2>3, <3>1 DEF Debrief!Inv, Debrief!ShownOnce
    <3>4. QED
      BY <1>1, <2>1, <2>3, <3>1, <3>2, <3>3 DEF Debrief!Inv, Debrief!ReadsKeep,
        Debrief!DemoLeavesInvite, Debrief!ReplaysTheScenario
  <2>4. CASE /\ flow' = [flow EXCEPT !.phase = "loaded"]
             /\ hist' = [hist EXCEPT !.shownIn =
                           IF Debrief!CardShown(flow') THEN @ \cup {flow.visit} ELSE @]
             /\ mirror' = Debrief!Seen(flow')
    <3>1. flow' = [phase |-> "loaded", err |-> flow.err, run |-> flow.run, card |-> flow.card,
                   setup |-> flow.setup, scenario |-> flow.scenario, turns |-> flow.turns,
                   replaying |-> flow.replaying, exporting |-> flow.exporting, visit |-> flow.visit]
      BY <1>1, <2>4
    <3>2. PICK shown : /\ shown = IF Debrief!CardShown(flow') THEN hist.shownIn \cup {flow.visit}
                                  ELSE hist.shownIn
                       /\ hist' = [shownIn |-> shown, failed |-> hist.failed, read |-> hist.read,
                                   varied |-> hist.varied]
      BY <1>1, <2>4
    <3>3. Debrief!Shape' /\ Debrief!ErrorOfPage'
      BY <3>1, <3>2 DEF Debrief!Shape, Debrief!ErrorOfPage
    <3>4. CASE Debrief!CardShown(flow')
      <4>1. flow.card /\ ~guard.demo /\ mirror' = "dismissed"
        BY <2>4, <3>1, <3>4, <2>1 DEF Debrief!CardShown, Debrief!Seen
      <4>2. shown = {flow.visit}
        BY <3>2, <3>4, <4>1 DEF Debrief!Inv, Debrief!ShownOnce
      <4>3. Debrief!ShownOnce'
        BY <3>1, <3>2, <4>1, <4>2 DEF Debrief!ShownOnce
      <4>4. QED
        BY <1>1, <2>1, <3>1, <3>2, <3>3, <4>1, <4>3 DEF Debrief!Inv, Debrief!ReadsKeep,
          Debrief!DemoLeavesInvite, Debrief!ReplaysTheScenario
    <3>5. CASE ~Debrief!CardShown(flow')
      <4>1. mirror' = mirror /\ shown = hist.shownIn
        BY <2>4, <3>2, <3>5 DEF Debrief!Seen
      <4>2. Debrief!ShownOnce'
        BY <3>1, <3>2, <4>1 DEF Debrief!Inv, Debrief!ShownOnce
      <4>3. QED
        BY <1>1, <2>1, <3>1, <3>2, <3>3, <4>1, <4>2 DEF Debrief!Inv, Debrief!ReadsKeep,
          Debrief!DemoLeavesInvite, Debrief!ReplaysTheScenario
    <3>6. QED BY <3>4, <3>5
  <2>5. QED BY <1>3, <2>2, <2>3, <2>4 DEF Debrief!GenerateAnswered
<1>4. CASE Debrief!LoadAnswered \/ Debrief!OnlyAnswered
  <2>1. guard' = guard /\ mirror' = mirror
    BY <1>4 DEF Debrief!LoadAnswered, Debrief!OnlyAnswered
  <2>2. CASE flow' = flow /\ hist' = hist
    BY <1>1, <2>1, <2>2, DebriefStill
  <2>3. CASE flow' = Debrief!OnlyFailed /\ hist' = [hist EXCEPT !.failed = "export"]
    <3>1. /\ flow' = [phase |-> "error", err |-> "export", run |-> flow.run, card |-> flow.card,
                      setup |-> flow.setup, scenario |-> flow.scenario, turns |-> flow.turns,
                      replaying |-> flow.replaying, exporting |-> flow.exporting,
                      visit |-> flow.visit]
          /\ hist' = [shownIn |-> hist.shownIn, failed |-> "export", read |-> hist.read,
                      varied |-> hist.varied]
      BY <1>1, <2>3 DEF Debrief!OnlyFailed
    <3>2. Debrief!Shape' /\ Debrief!ErrorOfPage'
      BY <3>1 DEF Debrief!Shape, Debrief!ErrorOfPage
    <3>3. Debrief!ShownOnce'
      BY <2>1, <3>1 DEF Debrief!Inv, Debrief!ShownOnce
    <3>4. QED
      BY <1>1, <2>1, <3>1, <3>2, <3>3 DEF Debrief!Inv, Debrief!ReadsKeep,
        Debrief!DemoLeavesInvite, Debrief!ReplaysTheScenario
  <2>4. ASSUME NEW u, u = Debrief!Reads(Debrief!Export),
               flow' = u \/ flow' = [u EXCEPT !.phase = "transcript_only"],
               hist' = [hist EXCEPT !.read = TRUE]
        PROVE  Debrief!Inv'
    <3>1. /\ u = [phase |-> flow.phase, err |-> flow.err, run |-> flow.run, card |-> flow.card,
                  setup |-> u.setup, scenario |-> u.scenario, turns |-> u.turns,
                  replaying |-> flow.replaying, exporting |-> flow.exporting, visit |-> flow.visit]
          /\ guard.server = "gateway" => u.setup /\ u.scenario
      BY <2>4, ReadsExport
    <3>2. PICK p \in {flow.phase, "transcript_only"} :
            flow' = [phase |-> p, err |-> flow.err, run |-> flow.run, card |-> flow.card,
                     setup |-> u.setup, scenario |-> u.scenario, turns |-> u.turns,
                     replaying |-> flow.replaying, exporting |-> flow.exporting, visit |-> flow.visit]
      BY <2>4, <3>1
    <3>3. hist' = [shownIn |-> hist.shownIn, failed |-> hist.failed, read |-> TRUE,
                   varied |-> hist.varied]
      BY <1>1, <2>4
    <3>4. Debrief!Shape'
      BY <3>2, <3>3 DEF Debrief!Shape
    <3>5. Debrief!ErrorOfPage'
      BY <3>2, <3>3 DEF Debrief!Inv, Debrief!ErrorOfPage
    <3>6. Debrief!ShownOnce'
      BY <2>1, <3>2, <3>3 DEF Debrief!Inv, Debrief!ShownOnce
    <3>7. guard.server = "gateway" => flow'.setup /\ flow'.scenario
      BY <3>1, <3>2
    <3>8. QED
      BY <1>1, <2>1, <3>3, <3>4, <3>5, <3>6, <3>7 DEF Debrief!Inv, Debrief!ReadsKeep,
        Debrief!DemoLeavesInvite, Debrief!ReplaysTheScenario
  <2>5. QED BY <1>4, <2>2, <2>3, <2>4 DEF Debrief!LoadAnswered, Debrief!OnlyAnswered
<1>5. CASE Debrief!Retry
  <2>1. flow' = [phase |-> "loading", err |-> "none", run |-> flow.run + 1, card |-> flow.card,
                 setup |-> flow.setup, scenario |-> flow.scenario, turns |-> flow.turns,
                 replaying |-> flow.replaying, exporting |-> flow.exporting, visit |-> flow.visit]
    BY <1>1, <1>5 DEF Debrief!Retry, Debrief!None
  <2>2. guard' = guard /\ mirror' = mirror /\ hist' = hist
    BY <1>5 DEF Debrief!Retry
  <2>3. QED BY <2>1, <2>2, DebriefStill
<1>6. CASE Debrief!ShowTranscriptOnly
  <2>1. flow' = [phase |-> "loading", err |-> flow.err, run |-> flow.run, card |-> flow.card,
                 setup |-> flow.setup, scenario |-> flow.scenario, turns |-> flow.turns,
                 replaying |-> flow.replaying, exporting |-> flow.exporting, visit |-> flow.visit]
    BY <1>1, <1>6 DEF Debrief!ShowTranscriptOnly
  <2>2. guard' = guard /\ mirror' = mirror /\ hist' = hist
    BY <1>6 DEF Debrief!ShowTranscriptOnly
  <2>3. QED BY <2>1, <2>2, DebriefStill
<1>7. CASE Debrief!ReplayVariation \/ (Debrief!ReplaySame /\ ~flow.setup)
  <2>1. flow' = flow /\ guard' = guard /\ mirror' = mirror
    BY <1>7 DEF Debrief!ReplayVariation, Debrief!ReplaySame
  <2>2. PICK v : /\ guard.server = "gateway" => ~v
                 /\ hist' = [shownIn |-> hist.shownIn, failed |-> hist.failed,
                             read |-> hist.read, varied |-> v]
    <3>1. guard.server = "gateway" /\ hist.read => flow.setup /\ flow.scenario
      BY DEF Debrief!Inv, Debrief!ReadsKeep
    <3>2. ASSUME guard.server = "gateway" => ~hist.read, hist' = Debrief!Varied
          PROVE  \E v : /\ guard.server = "gateway" => ~v
                        /\ hist' = [shownIn |-> hist.shownIn, failed |-> hist.failed,
                                    read |-> hist.read, varied |-> v]
      <4>1. PICK v : v = (hist.varied \/ hist.read)
        OBVIOUS
      <4>2. hist' = [hist EXCEPT !.varied = v]
        BY <3>2, <4>1 DEF Debrief!Varied
      <4>3. guard.server = "gateway" => ~v
        BY <1>1, <3>2, <4>1
      <4>4. QED BY <1>1, <4>2, <4>3
    <3>3. CASE Debrief!ReplayVariation /\ page' = "brief"
      <4>1. hist' = hist
        BY <3>3 DEF Debrief!ReplayVariation
      <4>2. QED BY <1>1, <4>1
    <3>4. CASE Debrief!ReplayVariation /\ page' # "brief"
      <4>1. ~flow.scenario /\ hist' = Debrief!Varied
        BY <3>4 DEF Debrief!ReplayVariation, Debrief!Variation, Debrief!KnowsScenario
      <4>2. QED BY <3>1, <3>2, <4>1
    <3>5. CASE Debrief!ReplaySame /\ ~flow.setup
      <4>1. hist' = Debrief!Varied
        BY <3>5 DEF Debrief!ReplaySame
      <4>2. QED BY <3>1, <3>2, <3>5, <4>1
    <3>6. QED BY <1>7, <3>3, <3>4, <3>5
  <2>3. QED BY <1>1, <2>1, <2>2, DebriefQuiet
<1>8. CASE Debrief!ReplaySame /\ flow.setup
  <2>1. flow' = [phase |-> flow.phase, err |-> flow.err, run |-> flow.run, card |-> flow.card,
                 setup |-> flow.setup, scenario |-> flow.scenario, turns |-> flow.turns,
                 replaying |-> TRUE, exporting |-> flow.exporting, visit |-> flow.visit]
    BY <1>1, <1>8 DEF Debrief!ReplaySame
  <2>2. guard' = guard /\ mirror' = mirror /\ hist' = hist
    BY <1>8 DEF Debrief!ReplaySame
  <2>3. QED BY <2>1, <2>2, DebriefStill
<1>9. CASE Debrief!ReplayAnswered
  <2>1. flow' \in {flow, [flow EXCEPT !.replaying = FALSE]} /\ guard' = guard /\ mirror' = mirror
        /\ hist' = hist
    BY <1>9 DEF Debrief!ReplayAnswered
  <2>2. PICK r : flow' =
          [phase |-> flow.phase, err |-> flow.err, run |-> flow.run, card |-> flow.card,
           setup |-> flow.setup, scenario |-> flow.scenario, turns |-> flow.turns,
           replaying |-> r, exporting |-> flow.exporting, visit |-> flow.visit]
    BY <1>1, <2>1
  <2>3. QED BY <2>1, <2>2, DebriefStill
<1>10. CASE Debrief!ExportFile \/ Debrief!Exported
  <2>1. /\ flow' \in {flow, [flow EXCEPT !.exporting = TRUE], [flow EXCEPT !.exporting = FALSE]}
        /\ guard' = guard /\ mirror' = mirror /\ hist' = hist
    BY <1>10 DEF Debrief!ExportFile, Debrief!Exported
  <2>2. PICK e : flow' =
          [phase |-> flow.phase, err |-> flow.err, run |-> flow.run, card |-> flow.card,
           setup |-> flow.setup, scenario |-> flow.scenario, turns |-> flow.turns,
           replaying |-> flow.replaying, exporting |-> e, visit |-> flow.visit]
    BY <1>1, <2>1
  <2>3. QED BY <2>1, <2>2, DebriefStill
<1>11. CASE Debrief!AnswerInvite
  <2>1. /\ flow' = [phase |-> flow.phase, err |-> flow.err, run |-> flow.run, card |-> FALSE,
                    setup |-> flow.setup, scenario |-> flow.scenario, turns |-> flow.turns,
                    replaying |-> flow.replaying, exporting |-> flow.exporting, visit |-> flow.visit]
        /\ ~guard.demo /\ mirror' # "pending" /\ guard' = guard /\ hist' = hist
    BY <1>1, <1>11 DEF Debrief!AnswerInvite, Debrief!CardShown
  <2>2. Debrief!Shape' /\ Debrief!ErrorOfPage'
    BY <2>1 DEF Debrief!Inv, Debrief!Shape, Debrief!ErrorOfPage
  <2>3. Debrief!ShownOnce'
    BY <2>1 DEF Debrief!Inv, Debrief!ShownOnce
  <2>4. QED
    BY <2>1, <2>2, <2>3 DEF Debrief!Inv, Debrief!ReadsKeep, Debrief!DemoLeavesInvite,
      Debrief!ReplaysTheScenario
<1>12. CASE Debrief!Leave \/ UNCHANGED Debrief!vars
  <2>1. flow' = flow /\ guard' = guard /\ mirror' = mirror /\ hist' = hist
    BY <1>12 DEF Debrief!Leave, Debrief!vars
  <2>2. QED BY <1>1, <2>1, DebriefStill
<1>13. QED
  BY <1>2, <1>3, <1>4, <1>5, <1>6, <1>7, <1>8, <1>9, <1>10, <1>11, <1>12, Zenon DEF Debrief!Next

LEMMA SameCountDebrief == \A S : Debrief!Cardinality(S) = Cardinality(S)
  BY DEF Debrief!Cardinality, Cardinality

LEMMA DebriefHolds ==
  ASSUME Debrief!Inv
  PROVE  /\ Debrief!ErrorIsLast /\ Debrief!DemoLeavesInvite /\ Debrief!ReplaysTheScenario
         /\ Debrief!InvitedOnce
<1>1. Debrief!ErrorIsLast /\ Debrief!DemoLeavesInvite /\ Debrief!ReplaysTheScenario
  BY DEF Debrief!Inv, Debrief!ErrorOfPage, Debrief!ErrorIsLast
<1>2. Debrief!InvitedOnce
  <2>1. CASE hist.shownIn = {}
    BY <2>1, FS_EmptySet, SameCountDebrief DEF Debrief!InvitedOnce
  <2>2. CASE hist.shownIn # {}
    <3>1. PICK v \in hist.shownIn : hist.shownIn = {v}
      BY <2>2 DEF Debrief!Inv, Debrief!ShownOnce
    <3>2. Cardinality(hist.shownIn) = 1
      BY <3>1, FS_Singleton
    <3>3. QED BY <3>2, SameCountDebrief DEF Debrief!InvitedOnce
  <2>3. QED BY <2>1, <2>2
<1>3. QED BY <1>1, <1>2

-----------------------------------------------------------------------------
(* The form *)

LEMMA TextShape ==
  ASSUME NEW d \in [Fields -> Values \cup {"absent"}]
  PROVE  /\ Form!Text(d) \in Form!Texts /\ Form!Text(d).doc = d
         /\ Form!Text(d) = [parses |-> TRUE, doc |-> d]
BY DEF Form!Text, Form!Texts, Form!Docs, Form!Absent

LEMMA TextsHaveDocs ==
  ASSUME NEW t \in Form!Texts
  PROVE  t.doc \in [Fields -> Values \cup {"absent"}]
<1>1. CASE t = Form!Broken
  BY <1>1 DEF Form!Broken, Form!Empty, Form!Absent
<1>2. CASE t # Form!Broken
  BY <1>2 DEF Form!Texts, Form!Text, Form!Docs, Form!Absent
<1>3. QED BY <1>1, <1>2

LEMMA ShownShape ==
  ASSUME NEW t, NEW tab, NEW u, u = Form!Shown(t, tab)
  PROVE  /\ u = [yaml |-> t, values |-> t.doc, errors |-> Form!Errors(t), tab |-> tab]
         /\ u.yaml = t /\ u.tab = tab /\ u = Form!Shown(u.yaml, u.tab)
         /\ u = [yaml |-> u.yaml, values |-> u.values, errors |-> u.errors, tab |-> u.tab]
BY DEF Form!Shown, Form!Extract

\* The values of the form, merged into a text they were read from, are the text.
LEMMA MergeIsText ==
  ASSUME NEW t \in Form!Texts, NEW f, NEW v \in Values,
         NEW values, values = [t.doc EXCEPT ![f] = v]
  PROVE  /\ values \in [Fields -> Values \cup {"absent"}]
         /\ Form!Merge(values, t) = Form!Text(values)
         /\ \A g \in Fields \ {f} : values[g] = t.doc[g]
<1>1. t.doc \in [Fields -> Values \cup {"absent"}]
  BY TextsHaveDocs
<1>2. /\ values \in [Fields -> Values \cup {"absent"}]
      /\ \A g \in Fields : values[g] = IF g = f THEN v ELSE t.doc[g]
  BY <1>1
<1>3. PICK m : m = [g \in Fields |-> IF values[g] # "absent" THEN values[g] ELSE t.doc[g]]
  OBVIOUS
<1>4. m = values
  <2>1. "absent" \notin Values
    BY WebAssumption
  <2>2. \A g \in Fields : m[g] = values[g]
    BY <1>2, <1>3, <2>1
  <2>3. QED BY <1>2, <1>3, <2>2
<1>5. Form!Merge(values, t) = Form!Text(m)
  BY <1>3 DEF Form!Merge, Form!Absent
<1>6. QED BY <1>2, <1>4, <1>5

LEMMA FormInit == Form!Init => Form!Inv
<1> SUFFICES ASSUME Form!Init PROVE Form!Inv
  OBVIOUS
<1>1. PICK d \in [Fields -> Values \cup {"absent"}] : page = Form!Text(d)
  BY DEF Form!Init, Form!Docs, Form!Absent
<1>2. /\ flow = Form!Shown(page, "form") /\ shot = [initial |-> page, yaml |-> page]
      /\ mirror = FALSE /\ hist = [lost |-> FALSE]
  BY DEF Form!Init
<1>3. page \in Form!Texts /\ flow.yaml = page /\ Form!Follows
      /\ flow = [yaml |-> flow.yaml, values |-> flow.values, errors |-> flow.errors,
                 tab |-> flow.tab]
  BY <1>1, <1>2, TextShape, ShownShape DEF Form!Follows
<1>4. Form!Shape /\ Form!AtRest
  BY <1>2, <1>3 DEF Form!Shape, Form!AtRest, Form!Settled
<1>5. QED BY <1>2, <1>4 DEF Form!Inv, Form!FormEditKeepsRest

LEMMA SettledAtRest ==
  ASSUME Form!Inv, Form!Settled
  PROVE  /\ Form!AtRest
         /\ flow = [yaml |-> page, values |-> page.doc, errors |-> Form!Errors(page),
                    tab |-> flow.tab]
<1>1. shot.initial = page /\ shot.yaml = flow.yaml
  BY DEF Form!Settled
<1>2. Form!AtRest
  BY <1>1 DEF Form!Inv, Form!Edited, Form!CameBack, Form!Renewed, Form!TakenOver
<1>3. QED BY <1>2 DEF Form!AtRest, Form!Follows, Form!Shown, Form!Extract

\* The editor's text changes, by an edit of the form or of the text.
LEMMA EditStep ==
  ASSUME Form!Inv, Form!AtRest, page' = page, shot' = shot, mirror' = mirror,
         ~hist'.lost, flow'.yaml \in Form!Texts,
         flow' = [yaml |-> flow'.yaml, values |-> flow'.values, errors |-> flow'.errors,
                  tab |-> flow'.tab],
         flow'.yaml = page => Form!Follows'
  PROVE  Form!Inv'
<1>1. shot = [initial |-> page, yaml |-> flow.yaml] /\ flow.yaml = page /\ ~mirror
  BY DEF Form!AtRest, Form!Settled
<1>2. Form!Shape'
  BY DEF Form!Inv, Form!Shape
<1>3. shot.initial = page /\ shot.yaml = page
  BY <1>1
<1>4. CASE flow'.yaml = page
  <2>1. Form!Settled'
    BY <1>1, <1>4 DEF Form!Settled
  <2>2. Form!AtRest'
    BY <1>1, <1>4, <2>1 DEF Form!AtRest
  <2>3. QED BY <1>2, <2>2 DEF Form!Inv, Form!FormEditKeepsRest
<1>5. CASE flow'.yaml # page
  <2>1. Form!Edited'
    BY <1>1, <1>3, <1>5 DEF Form!Edited
  <2>2. QED BY <1>2, <2>1 DEF Form!Inv, Form!FormEditKeepsRest
<1>6. QED BY <1>4, <1>5

LEMMA FormStep ==
  ASSUME Form!Inv, [Form!Next]_(Form!vars)
  PROVE  Form!Inv'
<1>1. /\ page \in Form!Texts /\ flow.yaml \in Form!Texts /\ ~hist.lost
      /\ flow = [yaml |-> flow.yaml, values |-> flow.values, errors |-> flow.errors,
                 tab |-> flow.tab]
      /\ shot = [initial |-> shot.initial, yaml |-> shot.yaml]
  BY DEF Form!Inv, Form!Shape, Form!FormEditKeepsRest
<1>2. CASE Form!EditField
  <2>1. /\ Form!AtRest
        /\ flow = [yaml |-> page, values |-> page.doc, errors |-> Form!Errors(page),
                   tab |-> flow.tab]
    BY <1>2, SettledAtRest DEF Form!EditField
  <2>2. /\ page' = page /\ shot' = shot /\ mirror' = mirror
    BY <1>2 DEF Form!EditField
  <2>3. PICK f \in InForm, v \in Values :
          /\ flow' = [flow EXCEPT !.values = [flow.values EXCEPT ![f] = v],
                                  !.yaml = Form!Merge([flow.values EXCEPT ![f] = v], flow.yaml),
                                  !.errors =
                                    Form!Errors(Form!Merge([flow.values EXCEPT ![f] = v], flow.yaml))]
          /\ hist' = [lost |-> hist.lost \/
               (flow.yaml.parses /\ \E g \in Fields \ {f} :
                  Form!Merge([flow.values EXCEPT ![f] = v], flow.yaml).doc[g] # flow.yaml.doc[g])]
    BY <1>2, Zenon DEF Form!EditField
  <2>4. flow.yaml = page /\ flow.values = page.doc
    BY <2>1
  <2>5. PICK values : values = [page.doc EXCEPT ![f] = v]
    OBVIOUS
  <2>6. /\ values \in [Fields -> Values \cup {"absent"}]
        /\ Form!Merge(values, page) = Form!Text(values)
        /\ \A g \in Fields \ {f} : values[g] = page.doc[g]
    <3>1. \A u : u = [page.doc EXCEPT ![f] = v] =>
                  /\ u \in [Fields -> Values \cup {"absent"}]
                  /\ Form!Merge(u, page) = Form!Text(u)
                  /\ \A g \in Fields \ {f} : u[g] = page.doc[g]
      BY <1>1, MergeIsText
    <3>2. QED BY <2>5, <3>1, Zenon
  <2>7. PICK t : t = Form!Text(values)
    OBVIOUS
  <2>8. t \in Form!Texts /\ t.doc = values
    BY <2>6, <2>7, TextShape
  <2>9. flow' = [flow EXCEPT !.values = values, !.yaml = t, !.errors = Form!Errors(t)]
    BY <2>3, <2>4, <2>5, <2>6, <2>7
  <2>10. flow' = [yaml |-> t, values |-> values, errors |-> Form!Errors(t), tab |-> flow.tab]
    BY <1>1, <2>9
  <2>11. Form!Follows'
    BY <2>8, <2>10 DEF Form!Follows, Form!Shown, Form!Extract
  <2>12. ~hist'.lost
    <3>1. \A g \in Fields \ {f} : t.doc[g] = page.doc[g]
      BY <2>6, <2>8
    <3>2. PICK b : b = (hist.lost \/ (page.parses /\ \E g \in Fields \ {f} : t.doc[g] # page.doc[g]))
      OBVIOUS
    <3>3. hist' = [lost |-> b]
      BY <2>3, <2>4, <2>5, <2>6, <2>7, <3>2
    <3>4. ~b
      BY <1>1, <3>1, <3>2
    <3>5. QED BY <3>3, <3>4
  <2>13. QED BY <2>1, <2>2, <2>8, <2>10, <2>11, <2>12, EditStep
<1>3. CASE Form!EditText
  <2>1. /\ Form!AtRest
        /\ flow = [yaml |-> page, values |-> page.doc, errors |-> Form!Errors(page),
                   tab |-> flow.tab]
    BY <1>3, SettledAtRest DEF Form!EditText
  <2>2. page' = page /\ shot' = shot /\ mirror' = mirror /\ hist' = hist
    BY <1>3 DEF Form!EditText
  <2>3. PICK t \in Form!Texts :
          flow' = [flow EXCEPT !.yaml = t, !.errors = Form!Errors(t),
                               !.values = IF t.parses THEN t.doc ELSE @]
    BY <1>3 DEF Form!EditText
  <2>4. PICK values : /\ flow' = [yaml |-> t, values |-> values, errors |-> Form!Errors(t),
                                  tab |-> flow.tab]
                      /\ values = IF t.parses THEN t.doc ELSE flow.values
    BY <1>1, <2>3
  <2>5. t = page => values = t.doc
    BY <2>1, <2>4
  <2>6. t = page => Form!Follows'
    BY <2>4, <2>5 DEF Form!Follows, Form!Shown, Form!Extract
  <2>7. QED BY <1>1, <2>1, <2>2, <2>4, <2>6, EditStep
<1>4. CASE Form!SetActiveTab
  <2>1. /\ Form!AtRest
        /\ flow = [yaml |-> page, values |-> page.doc, errors |-> Form!Errors(page),
                   tab |-> flow.tab]
    BY <1>4, SettledAtRest DEF Form!SetActiveTab
  <2>2. page' = page /\ shot' = shot /\ mirror' = mirror /\ hist' = hist
    BY <1>4 DEF Form!SetActiveTab
  <2>3. PICK tab : flow' = [flow EXCEPT !.tab = tab]
    BY <1>4 DEF Form!SetActiveTab
  <2>4. flow' = [yaml |-> page, values |-> page.doc, errors |-> Form!Errors(page), tab |-> tab]
    BY <2>1, <2>3
  <2>5. Form!Follows'
    BY <2>4 DEF Form!Follows, Form!Shown, Form!Extract
  <2>6. QED BY <1>1, <2>1, <2>2, <2>4, <2>5, EditStep
<1>5. CASE Form!NewContent
  <2>1. Form!AtRest /\ flow.yaml = page /\ shot = [initial |-> page, yaml |-> page] /\ ~mirror
    BY <1>5, SettledAtRest DEF Form!NewContent, Form!AtRest, Form!Settled
  <2>2. page' \in Form!Texts /\ UNCHANGED <<flow, shot, mirror, hist>>
    BY <1>5, TextShape DEF Form!NewContent, Form!Docs, Form!Absent
  <2>3. Form!Shape'
    BY <2>2 DEF Form!Inv, Form!Shape
  <2>4. shot'.initial = page /\ shot'.yaml = page /\ flow'.yaml = page
    BY <2>1, <2>2
  <2>5. CASE page' = page
    BY <2>1, <2>2, <2>3, <2>5
      DEF Form!Inv, Form!FormEditKeepsRest, Form!AtRest, Form!Settled, Form!Follows
  <2>6. CASE page' # page
    <3>1. Form!Renewed'
      BY <2>1, <2>2, <2>4, <2>6 DEF Form!Renewed
    <3>2. QED BY <1>1, <2>2, <2>3, <3>1 DEF Form!Inv, Form!FormEditKeepsRest
  <2>7. QED BY <2>5, <2>6
<1>6. CASE Form!Settle
  <2>1. /\ shot' = [initial |-> page, yaml |-> flow.yaml] /\ hist' = hist
        /\ flow' = IF page # shot.initial THEN Form!Shown(page, "form") ELSE flow
        /\ flow.yaml # shot.yaml =>
             mirror' = FALSE /\ page' = IF Form!Mutes THEN page ELSE flow.yaml
        /\ flow.yaml = shot.yaml => mirror' = Form!Mutes /\ page' = page
    BY <1>6 DEF Form!Settle, Form!Reset
  <2>2. shot'.initial = page /\ shot'.yaml = flow.yaml
    BY <2>1
  <2>3. /\ flow'.yaml = IF page # shot.initial THEN page ELSE flow.yaml
        /\ flow' = [yaml |-> flow'.yaml, values |-> flow'.values, errors |-> flow'.errors,
                    tab |-> flow'.tab]
        /\ page # shot.initial => Form!Follows'
        /\ page = shot.initial => flow' = flow
    BY <1>1, <2>1, ShownShape DEF Form!Follows
  <2>4. page' \in Form!Texts
    BY <1>1, <2>1
  <2>5. Form!Shape'
    BY <1>1, <2>1, <2>2, <2>3, <2>4 DEF Form!Shape
  <2>6. CASE Form!AtRest
    BY <1>6, <2>6 DEF Form!Settle, Form!AtRest
  <2>7. CASE Form!Edited
    <3>1. ~Form!Mutes /\ flow.yaml # shot.yaml /\ page = shot.initial /\ flow.yaml # page
      BY <2>7 DEF Form!Edited, Form!Mutes
    <3>2. Form!CameBack'
      BY <2>1, <2>2, <2>3, <3>1 DEF Form!CameBack
    <3>3. QED BY <1>1, <2>1, <2>5, <3>2 DEF Form!Inv, Form!FormEditKeepsRest
  <2>8. CASE Form!CameBack
    <3>1. ~Form!Mutes /\ flow.yaml = shot.yaml /\ page # shot.initial /\ flow.yaml = page
      BY <2>8 DEF Form!CameBack, Form!Mutes
    <3>2. mirror' = Form!Mutes
      BY <2>1, <3>1
    <3>3. page' = page /\ flow'.yaml = page /\ Form!Follows'
      BY <2>1, <2>3, <3>1
    <3>4. Form!Settled'
      BY <2>1, <3>1, <3>3 DEF Form!Settled
    <3>5. Form!AtRest'
      BY <3>1, <3>2, <3>3, <3>4 DEF Form!AtRest
    <3>6. QED BY <1>1, <2>1, <2>5, <3>5 DEF Form!Inv, Form!FormEditKeepsRest
  <2>9. CASE Form!Renewed
    <3>1. Form!Mutes /\ flow.yaml = shot.yaml /\ page # shot.initial /\ flow.yaml # page
      BY <2>9 DEF Form!Renewed, Form!Mutes
    <3>2. mirror' = Form!Mutes
      BY <2>1, <3>1
    <3>3. page' = page /\ flow'.yaml = page /\ Form!Follows'
      BY <2>1, <2>3, <3>1
    <3>4. Form!TakenOver'
      BY <2>2, <3>1, <3>2, <3>3 DEF Form!TakenOver
    <3>5. QED BY <1>1, <2>1, <2>5, <3>4 DEF Form!Inv, Form!FormEditKeepsRest
  <2>10. CASE Form!TakenOver
    <3>1. Form!Mutes /\ flow.yaml # shot.yaml /\ page = shot.initial /\ flow.yaml = page
      BY <2>10 DEF Form!TakenOver, Form!Mutes
    <3>2. page' = page /\ flow' = flow /\ ~mirror'
      BY <2>1, <2>3, <3>1
    <3>3. Form!Settled' /\ Form!Follows'
      BY <2>1, <2>10, <3>1, <3>2 DEF Form!Settled, Form!Follows, Form!TakenOver
    <3>4. Form!AtRest'
      BY <3>1, <3>2, <3>3 DEF Form!AtRest
    <3>5. QED BY <1>1, <2>1, <2>5, <3>4 DEF Form!Inv, Form!FormEditKeepsRest
  <2>11. QED BY <2>6, <2>7, <2>8, <2>9, <2>10 DEF Form!Inv
<1>7. CASE UNCHANGED Form!vars
  BY <1>7 DEF Form!vars, Form!Inv, Form!Shape, Form!FormEditKeepsRest, Form!AtRest, Form!Settled,
    Form!Follows, Form!Edited, Form!CameBack, Form!Renewed, Form!TakenOver
<1>8. QED BY <1>2, <1>3, <1>4, <1>5, <1>6, <1>7, Zenon DEF Form!Next

LEMMA FormHolds ==
  ASSUME Form!Inv
  PROVE  Form!InSync /\ Form!FormEditKeepsRest
<1>1. ASSUME Form!Settled
      PROVE  page = flow.yaml /\ [flow EXCEPT !.tab = "form"] = Form!Shown(flow.yaml, "form")
  <2>1. flow = [yaml |-> page, values |-> page.doc, errors |-> Form!Errors(page),
                tab |-> flow.tab]
    BY <1>1, SettledAtRest
  <2>2. QED BY <2>1 DEF Form!Shown, Form!Extract
<1>2. QED BY <1>1 DEF Form!InSync, Form!Inv

-----------------------------------------------------------------------------
(* The test chat *)

LEMMA SameCountTest == \A S : Test!Cardinality(S) = Cardinality(S)
  BY DEF Test!Cardinality, Cardinality

\* Sessions are numbered from 1.
LEMMA SessionsCounted ==
  ASSUME NEW n \in Nat, NEW ss \in [1..n -> Test!Session]
  PROVE  Test!Cardinality(DOMAIN ss) = n
<1>1. Cardinality(1..n) = n
  BY FS_Interval
<1>2. QED BY <1>1, SameCountTest

LEMMA SessionsTyped ==
  ASSUME Test!Inv
  PROVE  \E n \in Nat : srv \in [1..n -> Test!Session] /\ Test!Cardinality(DOMAIN srv) = n
BY DEF Test!Inv, Test!Shape

LEMMA TestInit == Test!Init => Test!Inv
<1> SUFFICES ASSUME Test!Init PROVE Test!Inv
  OBVIOUS
<1>1. /\ page = [no |-> 1, status |-> "idle", id |-> 0, value |-> 0,
                 ending |-> FALSE, startErr |-> FALSE, turnErr |-> FALSE]
      /\ srv = <<>> /\ calls = {} /\ hist = [lost |-> {}]
  BY DEF Test!Init, Test!Fresh, Test!None
<1>2. DOMAIN srv = {} /\ srv \in [1..0 -> Test!Session]
  BY <1>1
<1>3. Test!Cardinality(DOMAIN srv) = 0
  BY <1>2, SessionsCounted
<1>4. Test!Shape
  BY <1>1, <1>2, <1>3 DEF Test!Shape
<1>5. Test!HasSession /\ Test!CallsKept /\ Test!InspectorShowsState /\ Test!OneTestSession
  BY <1>1, <1>2
    DEF Test!HasSession, Test!CallsKept, Test!InspectorShowsState, Test!OneTestSession, Test!None
<1>6. QED BY <1>4, <1>5 DEF Test!Inv

\* Deleting a session leaves the others alone.
LEMMA KilledShape ==
  ASSUME Test!Inv, NEW id, NEW ss, ss = Test!Killed(id)
  PROVE  /\ ss \in [DOMAIN srv -> Test!Session]
         /\ \A i \in DOMAIN srv : i # id => ss[i] = srv[i]
         /\ id \in DOMAIN srv => ~ss[id].live
<1>1. srv \in [DOMAIN srv -> Test!Session]
  BY SessionsTyped
<1>2. CASE Test!Live(id)
  <2>1. ss = [srv EXCEPT ![id].live = FALSE]
    BY <1>2 DEF Test!Killed
  <2>2. id \in DOMAIN srv /\ srv[id] \in Test!Session
    BY <1>1, <1>2 DEF Test!Live
  <2>3. PICK s : s = [srv[id] EXCEPT !.live = FALSE]
    OBVIOUS
  <2>4. s \in Test!Session /\ ~s.live
    BY <2>2, <2>3 DEF Test!Session
  <2>5. ss = [srv EXCEPT ![id] = s]
    BY <2>1, <2>3
  <2>6. QED BY <1>1, <2>2, <2>4, <2>5
<1>3. CASE ~Test!Live(id)
  BY <1>1, <1>3 DEF Test!Killed, Test!Live
<1>4. QED BY <1>2, <1>3

\* Requests but one are of earlier panels, whose sessions stay as they are.
LEMMA CallsOfOthers ==
  ASSUME Test!Inv, NEW c0, calls' \subseteq calls \cup {c0},
         \A c \in calls' \ {c0} : c.panel # page'.no,
         \A c \in calls' \ {c0} : c.k = "start" /\ c.id # 0 =>
            c.id # page'.id /\ c.id \in DOMAIN srv' /\ srv'[c.id] = srv[c.id],
         c0 \in calls' /\ c0.k = "turn" =>
           /\ page'.status = "sending" /\ c0.id = page'.id
           /\ c0.ok => c0.delta \in Int
           /\ c0.id \notin hist'.lost =>
                /\ c0.id \in DOMAIN srv' /\ srv'[c0.id].live
                /\ srv'[c0.id].value = IF c0.ok THEN page'.value + c0.delta ELSE page'.value
                /\ srv'[c0.id].ended <=> c0.ok /\ c0.ended,
         c0 \in calls' /\ c0.k = "start" =>
           /\ page'.status = "starting"
           /\ c0.id # 0 => /\ c0.id \in DOMAIN srv' /\ srv'[c0.id].live
                           /\ c0.id # page'.id /\ srv'[c0.id].value = c0.value
                           /\ ~srv'[c0.id].ended
           /\ \A d \in calls : d.k = "start" /\ c0.id = d.id => c0.id = 0
  PROVE  Test!CallsKept'
<1> SUFFICES ASSUME NEW c \in calls'
             PROVE  /\ c.k = "turn" => Test!TurnKept(c)'
                    /\ c.k = "start" => /\ Test!StartKept(c)'
                                        /\ \A d \in calls' \ {c} : d.k = "start" =>
                                              Test!StartsDiffer(c, d)'
  BY DEF Test!CallsKept
<1>1. CASE c.k = "turn"
  <2>1. CASE c = c0
    BY <1>1, <2>1 DEF Test!TurnKept, Test!Live
  <2>2. CASE c # c0
    <3>1. c.panel # page'.no
      BY <2>2
    <3>2. QED BY <1>1, <3>1 DEF Test!TurnKept
  <2>3. QED BY <1>1, <2>1, <2>2
<1>2. CASE c.k = "start"
  <2>1. CASE c = c0
    <3>1. Test!StartKept(c)'
      BY <1>2, <2>1 DEF Test!StartKept, Test!Live, Test!None
    <3>2. \A d \in calls' \ {c} : d.k = "start" => Test!StartsDiffer(c, d)'
      BY <1>2, <2>1 DEF Test!StartsDiffer, Test!None
    <3>3. QED BY <1>2, <3>1, <3>2
  <2>2. CASE c # c0
    <3>1. c \in calls /\ Test!StartKept(c)
      BY <1>2, <2>2 DEF Test!Inv, Test!CallsKept
    <3>2. Test!StartKept(c)'
      BY <1>2, <2>2, <3>1 DEF Test!StartKept, Test!Live, Test!None
    <3>3. \A d \in calls' \ {c} : d.k = "start" => Test!StartsDiffer(c, d)'
      <4>1. SUFFICES ASSUME NEW d \in calls' \ {c}, d.k = "start" PROVE Test!StartsDiffer(c, d)'
        OBVIOUS
      <4>2. c.panel # page'.no
        BY <2>2
      <4>3. CASE d = c0
        BY <1>2, <2>2, <3>1, <4>1, <4>2, <4>3 DEF Test!StartsDiffer, Test!None
      <4>4. CASE d # c0
        <5>1. d \in calls /\ Test!StartsDiffer(c, d)
          BY <1>2, <3>1, <4>1, <4>4 DEF Test!Inv, Test!CallsKept
        <5>2. QED BY <4>2, <5>1 DEF Test!StartsDiffer, Test!None
      <4>5. QED BY <4>3, <4>4
    <3>4. QED BY <1>2, <3>2, <3>3
  <2>3. QED BY <2>1, <2>2
<1>3. QED BY <1>1, <1>2

\* An answer that does not concern the panel.
LEMMA AnswerAside ==
  ASSUME Test!Inv, page' = page, srv' = srv, calls' \subseteq calls,
         hist' = [lost |-> hist'.lost], hist.lost \subseteq hist'.lost,
         \A c \in calls \ calls' : c.k = "start" => c.id \in hist'.lost
  PROVE  Test!Inv'
<1>1. Test!Shape' /\ Test!HasSession'
  BY DEF Test!Inv, Test!Shape, Test!HasSession, Test!Session
<1>2. Test!CallsKept'
  <2>1. ASSUME NEW c \in calls', c.k = "turn" PROVE Test!TurnKept(c)'
    <3>1. Test!TurnKept(c)
      BY <2>1 DEF Test!Inv, Test!CallsKept
    <3>2. QED BY <3>1 DEF Test!TurnKept, Test!Live
  <2>2. ASSUME NEW c \in calls', c.k = "start"
        PROVE  /\ Test!StartKept(c)'
               /\ \A d \in calls' \ {c} : d.k = "start" => Test!StartsDiffer(c, d)'
    <3>1. /\ Test!StartKept(c)
          /\ \A d \in calls' \ {c} : d.k = "start" => Test!StartsDiffer(c, d)
      BY <2>2 DEF Test!Inv, Test!CallsKept
    <3>2. QED BY <3>1 DEF Test!StartKept, Test!Live, Test!StartsDiffer
  <2>3. QED BY <2>1, <2>2 DEF Test!CallsKept
<1>3. Test!InspectorShowsState'
  BY DEF Test!Inv, Test!InspectorShowsState, Test!Live
<1>4. Test!OneTestSession'
  BY DEF Test!Inv, Test!OneTestSession, Test!Live
<1>5. QED BY <1>1, <1>2, <1>3, <1>4 DEF Test!Inv

\* The panel asks for a session, after the one it had was deleted.
LEMMA StartStep ==
  ASSUME Test!Inv, page.status \in {"idle", "active", "ended"},
         NEW ss \in [DOMAIN srv -> Test!Session],
         \A i \in DOMAIN srv : i # page.id => ss[i] = srv[i],
         page.id \in DOMAIN srv => ~ss[page.id].live,
         Test!Started(ss), page' = Test!Starting, hist' = hist
  PROVE  Test!Inv'
<1>1. PICK n \in Nat : srv \in [1..n -> Test!Session] /\ Test!Cardinality(DOMAIN srv) = n
  BY SessionsTyped
<1>2. DOMAIN srv = 1..n /\ ss \in [1..n -> Test!Session]
  BY <1>1
<1>3. page' = [no |-> page.no, status |-> "starting", id |-> 0, value |-> 0,
               ending |-> FALSE, startErr |-> FALSE, turnErr |-> FALSE]
  BY DEF Test!Starting, Test!Fresh, Test!None
<1>4. \A c \in calls : c.panel # page.no /\ c.k \in {"start", "turn"} /\ c.panel \in 0..page.no
  BY DEF Test!Inv, Test!Shape, Test!CallsKept, Test!StartKept, Test!TurnKept
<1>5. \A c \in calls : c.k = "start" /\ c.id # 0 => c.id \in 1..n /\ c.id # page.id
  BY <1>2 DEF Test!Inv, Test!CallsKept, Test!StartKept, Test!Live, Test!None
<1>6. \A id \in 1..n : id \notin hist.lost /\ ss[id].live =>
        \E c \in calls : c.k = "start" /\ c.id = id
  BY <1>2 DEF Test!Inv, Test!OneTestSession, Test!Live
<1>7. Test!HasSession' /\ Test!InspectorShowsState'
  BY <1>3 DEF Test!HasSession, Test!InspectorShowsState, Test!None
<1>8. page'.no \in Nat /\ page'.value \in Int /\ hist' = [lost |-> hist'.lost]
      /\ page' = [no |-> page'.no, status |-> page'.status, id |-> page'.id,
                  value |-> page'.value, ending |-> page'.ending, startErr |-> page'.startErr,
                  turnErr |-> page'.turnErr]
  BY <1>3 DEF Test!Inv, Test!Shape
<1>9. ASSUME NEW c0, calls' = calls \cup {c0}, c0.k = "start", c0.panel = page.no,
             NEW m \in Nat, srv' \in [1..m -> Test!Session], \A i \in 1..n : i \in 1..m /\ srv'[i] = ss[i],
             \A i \in 1..m : i \in 1..n \/ i = c0.id,
             c0.id # 0 => /\ c0.id \in 1..m /\ c0.id \notin 1..n
                          /\ srv'[c0.id].live /\ srv'[c0.id].value = c0.value
                          /\ ~srv'[c0.id].ended
      PROVE  Test!Inv'
  <2>1. Test!Cardinality(DOMAIN srv') = m
    BY <1>9, SessionsCounted
  <2>2. Test!Shape'
    <3>1. \A c \in calls' : c.k \in {"start", "turn"} /\ c.panel \in 0..page.no
      BY <1>4, <1>8, <1>9, <1>3
    <3>2. page'.no = page.no
      BY <1>3
    <3>3. QED BY <1>8, <1>9, <2>1, <3>1, <3>2 DEF Test!Shape
  <2>3. Test!CallsKept'
    <3>1. page'.no = page.no /\ page'.id = 0 /\ page'.status = "starting"
      BY <1>3
    <3>2. \A c \in calls' \ {c0} : c.panel # page'.no
      BY <1>4, <1>9, <3>1
    <3>3. \A c \in calls' \ {c0} : c.k = "start" /\ c.id # 0 =>
            c.id # page'.id /\ c.id \in DOMAIN srv' /\ srv'[c.id] = srv[c.id]
      BY <1>2, <1>5, <1>9, <3>1
    <3>4. /\ page'.status = "starting"
          /\ c0.id # 0 => /\ c0.id \in DOMAIN srv' /\ srv'[c0.id].live
                          /\ c0.id # page'.id /\ srv'[c0.id].value = c0.value
                          /\ ~srv'[c0.id].ended
          /\ \A d \in calls : d.k = "start" /\ c0.id = d.id => c0.id = 0
      BY <1>5, <1>9, <3>1
    <3>5. c0.k # "turn" /\ calls' \subseteq calls \cup {c0}
      BY <1>9
    <3>6. QED BY <3>2, <3>3, <3>4, <3>5, CallsOfOthers
  <2>4. Test!OneTestSession'
    <3>1. SUFFICES ASSUME NEW id \in 1..m, id \notin hist.lost, srv'[id].live
                   PROVE  \E c \in calls' : c.k = "start" /\ c.id = id
      BY <1>9 DEF Test!OneTestSession, Test!Live
    <3>2. CASE id \in 1..n
      BY <1>6, <1>9, <3>1, <3>2
    <3>3. CASE id \notin 1..n
      BY <1>9, <3>1, <3>3
    <3>4. QED BY <3>2, <3>3
  <2>5. QED BY <1>7, <2>2, <2>3, <2>4 DEF Test!Inv
<1>10. CASE /\ srv' = [i \in 1..(n + 1) |-> IF i < n + 1 THEN ss[i]
                         ELSE [live |-> TRUE, value |-> StartValue, turns |-> 0, ended |-> FALSE]]
            /\ calls' = calls \cup {[k |-> "start", id |-> n + 1, panel |-> page.no, value |-> StartValue]}
  <2>1. PICK c0 : c0 = [k |-> "start", id |-> n + 1, panel |-> page.no, value |-> StartValue]
    OBVIOUS
  <2>2. c0.k = "start" /\ c0.panel = page.no /\ c0.id = n + 1 /\ c0.value = StartValue
    BY <2>1
  <2>3. PICK s : s = [live |-> TRUE, value |-> StartValue, turns |-> 0, ended |-> FALSE]
    OBVIOUS
  <2>4. s \in Test!Session /\ s.live /\ s.value = StartValue /\ ~s.ended
    BY <2>3, WebAssumption DEF Test!Session
  <2>5. srv' = [i \in 1..(n + 1) |-> IF i < n + 1 THEN ss[i] ELSE s]
    BY <1>10, <2>3
  <2>6. srv' \in [1..(n + 1) -> Test!Session] /\ \A i \in 1..n : srv'[i] = ss[i]
    BY <1>2, <2>4, <2>5
  <2>7. srv'[n + 1] = s /\ n + 1 \in 1..(n + 1) /\ n + 1 \notin 1..n
    BY <2>5
  <2>8. \A i \in 1..(n + 1) : i \in 1..n \/ i = c0.id
    BY <2>2
  <2>9. calls' = calls \cup {c0} /\ n + 1 \in Nat /\ \A i \in 1..n : i \in 1..(n + 1)
    BY <1>10, <2>1
  <2>10. QED BY <1>9, <2>2, <2>4, <2>6, <2>7, <2>8, <2>9
<1>11. CASE /\ srv' = ss
            /\ calls' = calls \cup {[k |-> "start", id |-> 0, panel |-> page.no, value |-> 0]}
  <2>1. PICK c0 : c0 = [k |-> "start", id |-> 0, panel |-> page.no, value |-> 0]
    OBVIOUS
  <2>2. c0.k = "start" /\ c0.panel = page.no /\ c0.id = 0
    BY <2>1
  <2>3. srv' \in [1..n -> Test!Session] /\ \A i \in 1..n : srv'[i] = ss[i]
    BY <1>2, <1>11
  <2>4. calls' = calls \cup {c0}
    BY <1>11, <2>1
  <2>5. QED BY <1>9, <2>2, <2>3, <2>4
<1>12. Test!Cardinality(DOMAIN ss) = n
  BY <1>2, SessionsCounted
<1>13. QED BY <1>10, <1>11, <1>12 DEF Test!Started, Test!None

\* The panel is emptied, or mounted anew, after its session was deleted.
LEMMA CloseStep ==
  ASSUME Test!Inv, NEW no \in Nat, page' = Test!Fresh(no),
         (no = page.no /\ page.status \in {"active", "ended"}) \/ no = page.no + 1,
         srv' = Test!Killed(page.id), calls' = calls, hist' = hist
  PROVE  Test!Inv'
<1>1. PICK n \in Nat : srv \in [1..n -> Test!Session] /\ Test!Cardinality(DOMAIN srv) = n
  BY SessionsTyped
<1>2. /\ srv' \in [1..n -> Test!Session]
      /\ \A i \in 1..n : i # page.id => srv'[i] = srv[i]
      /\ page.id \in 1..n => ~srv'[page.id].live
  <2>1. /\ srv' \in [DOMAIN srv -> Test!Session]
        /\ \A i \in DOMAIN srv : i # page.id => srv'[i] = srv[i]
        /\ page.id \in DOMAIN srv => ~srv'[page.id].live
    BY KilledShape
  <2>2. DOMAIN srv = 1..n
    BY <1>1
  <2>3. QED BY <2>1, <2>2
<1>3. page' = [no |-> no, status |-> "idle", id |-> 0, value |-> 0,
               ending |-> FALSE, startErr |-> FALSE, turnErr |-> FALSE]
  BY DEF Test!Fresh, Test!None
<1>4. page'.no = no /\ page'.id = 0 /\ page'.status = "idle" /\ page'.value = 0
      /\ page' = [no |-> page'.no, status |-> page'.status, id |-> page'.id,
                  value |-> page'.value, ending |-> page'.ending, startErr |-> page'.startErr,
                  turnErr |-> page'.turnErr]
  BY <1>3
<1>5. \A c \in calls : c.panel # no /\ c.k \in {"start", "turn"} /\ c.panel \in 0..no
  <2>1. page.no \in Nat /\ \A c \in calls : c.k \in {"start", "turn"} /\ c.panel \in 0..page.no
    BY DEF Test!Inv, Test!Shape
  <2>2. page.status \in {"active", "ended"} => \A c \in calls : c.panel # page.no
    BY <2>1 DEF Test!Inv, Test!CallsKept, Test!StartKept, Test!TurnKept
  <2>3. QED BY <2>1, <2>2
<1>6. \A c \in calls : c.k = "start" /\ c.id # 0 => c.id \in 1..n /\ c.id # page.id
  BY <1>1 DEF Test!Inv, Test!CallsKept, Test!StartKept, Test!Live, Test!None
<1>7. Test!HasSession' /\ Test!InspectorShowsState'
  BY <1>4 DEF Test!HasSession, Test!InspectorShowsState, Test!None
<1>8. Test!Shape'
  <2>1. Test!Cardinality(DOMAIN srv') = n
    BY <1>2, SessionsCounted
  <2>2. QED BY <1>2, <1>4, <1>5, <2>1 DEF Test!Inv, Test!Shape
<1>9. Test!CallsKept'
  <2>1. PICK c0 : c0 \notin calls
    <3>1. {c \in calls : c \notin c} \notin calls
      OBVIOUS
    <3>2. QED BY <3>1
  <2>2. \A c \in calls' \ {c0} : c.panel # page'.no
    BY <1>4, <1>5
  <2>3. \A c \in calls' \ {c0} : c.k = "start" /\ c.id # 0 =>
          c.id # page'.id /\ c.id \in DOMAIN srv' /\ srv'[c.id] = srv[c.id]
    BY <1>2, <1>4, <1>6
  <2>4. c0 \notin calls' /\ calls' \subseteq calls \cup {c0}
    BY <2>1
  <2>5. QED BY <2>2, <2>3, <2>4, CallsOfOthers
<1>10. Test!OneTestSession'
  <2>1. SUFFICES ASSUME NEW id \in 1..n, id \notin hist.lost, srv'[id].live
                 PROVE  \E c \in calls : c.k = "start" /\ c.id = id
    BY <1>2 DEF Test!OneTestSession, Test!Live
  <2>2. id # page.id /\ srv[id].live
    BY <1>2, <2>1
  <2>3. QED BY <1>1, <2>1, <2>2 DEF Test!Inv, Test!OneTestSession, Test!Live
<1>11. QED BY <1>7, <1>8, <1>9, <1>10 DEF Test!Inv

LEMMA ClampedShape ==
  ASSUME NEW v \in Int
  PROVE  Test!Clamped(v) \in 0..100 /\ (v \in 0..100 => Test!Clamped(v) = v)
BY DEF Test!Clamped

LEMMA SendStep ==
  ASSUME Test!Inv, Test!HandleSend
  PROVE  Test!Inv'
<1>1. PICK n \in Nat : srv \in [1..n -> Test!Session] /\ Test!Cardinality(DOMAIN srv) = n
  BY SessionsTyped
<1>2. /\ page.status = "active" /\ hist' = hist
      /\ page' = [page EXCEPT !.status = "sending", !.turnErr = FALSE]
      /\ page.id \in 1..n /\ page.no \in Nat /\ page.value \in Int
  BY <1>1 DEF Test!HandleSend, Test!Inv, Test!Shape, Test!HasSession
<1>3. page' = [no |-> page.no, status |-> "sending", id |-> page.id, value |-> page.value,
               ending |-> page.ending, startErr |-> page.startErr, turnErr |-> FALSE]
  BY <1>2 DEF Test!Inv, Test!Shape
<1>4. page'.no = page.no /\ page'.id = page.id /\ page'.status = "sending"
      /\ page'.value = page.value
      /\ page' = [no |-> page'.no, status |-> page'.status, id |-> page'.id,
                  value |-> page'.value, ending |-> page'.ending, startErr |-> page'.startErr,
                  turnErr |-> page'.turnErr]
  BY <1>3
<1>5. \A c \in calls : c.panel # page.no /\ c.k \in {"start", "turn"} /\ c.panel \in 0..page.no
  BY <1>2 DEF Test!Inv, Test!Shape, Test!CallsKept, Test!StartKept, Test!TurnKept
<1>6. \A c \in calls : c.k = "start" /\ c.id # 0 => c.id \in 1..n /\ c.id # page.id
  BY <1>1 DEF Test!Inv, Test!CallsKept, Test!StartKept, Test!Live, Test!None
<1>7. page.id \notin hist.lost =>
        srv[page.id].live /\ page.value = srv[page.id].value /\ ~srv[page.id].ended
  BY <1>2 DEF Test!Inv, Test!InspectorShowsState, Test!Live
<1>8. ASSUME NEW c0, calls' = calls \cup {c0}, c0.k = "turn", c0.panel = page.no, c0.id = page.id,
             c0.ok => c0.delta \in Int,
             srv' \in [1..n -> Test!Session],
             \A i \in 1..n : (i # page.id => srv'[i] = srv[i]) /\ (srv'[i].live <=> srv[i].live),
             page.id \notin hist.lost =>
               /\ srv'[page.id].value = IF c0.ok THEN page.value + c0.delta ELSE page.value
               /\ srv'[page.id].ended <=> c0.ok /\ c0.ended
      PROVE  Test!Inv'
  <2>1. Test!Shape'
    <3>1. Test!Cardinality(DOMAIN srv') = n
      BY <1>8, SessionsCounted
    <3>2. \A c \in calls' : c.k \in {"start", "turn"} /\ c.panel \in 0..page.no
      BY <1>2, <1>5, <1>8
    <3>3. hist' = [lost |-> hist'.lost]
      BY <1>2 DEF Test!Inv, Test!Shape
    <3>4. QED BY <1>2, <1>4, <1>8, <3>1, <3>2, <3>3 DEF Test!Shape
  <2>2. Test!HasSession' /\ Test!InspectorShowsState'
    BY <1>2, <1>4, <1>8 DEF Test!HasSession, Test!InspectorShowsState
  <2>3. Test!CallsKept'
    <3>1. \A c \in calls' \ {c0} : c.panel # page'.no
      BY <1>4, <1>5, <1>8
    <3>2. \A c \in calls' \ {c0} : c.k = "start" /\ c.id # 0 =>
            c.id # page'.id /\ c.id \in DOMAIN srv' /\ srv'[c.id] = srv[c.id]
      BY <1>4, <1>6, <1>8
    <3>3. c0.k # "start" /\ calls' \subseteq calls \cup {c0}
      BY <1>8
    <3>4. /\ page'.status = "sending" /\ c0.id = page'.id
          /\ c0.ok => c0.delta \in Int
          /\ c0.id \notin hist'.lost =>
               /\ c0.id \in DOMAIN srv' /\ srv'[c0.id].live
               /\ srv'[c0.id].value = IF c0.ok THEN page'.value + c0.delta ELSE page'.value
               /\ srv'[c0.id].ended <=> c0.ok /\ c0.ended
      BY <1>2, <1>4, <1>7, <1>8
    <3>5. QED BY <3>1, <3>2, <3>3, <3>4, CallsOfOthers
  <2>4. Test!OneTestSession'
    <3>1. SUFFICES ASSUME NEW id \in 1..n, id \notin hist.lost, srv'[id].live, id # page.id
                   PROVE  \E c \in calls : c.k = "start" /\ c.id = id
      BY <1>2, <1>4, <1>8 DEF Test!OneTestSession, Test!Live
    <3>2. srv[id].live
      BY <1>8, <3>1
    <3>3. QED BY <1>1, <3>1, <3>2 DEF Test!Inv, Test!OneTestSession, Test!Live
  <2>5. QED BY <2>1, <2>2, <2>3, <2>4 DEF Test!Inv
<1>9. ASSUME NEW d \in Deltas, NEW over \in BOOLEAN, NEW value, value = Test!Clamped(srv[page.id].value + d),
             srv' = [srv EXCEPT ![page.id] =
                       [srv[page.id] EXCEPT !.value = value, !.turns = srv[page.id].turns + 1,
                                            !.ended = over]],
             calls' = calls \cup {[k |-> "turn", id |-> page.id, panel |-> page.no,
                                   ok |-> TRUE, delta |-> value - srv[page.id].value, ended |-> over]}
      PROVE  Test!Inv'
  <2>1. srv[page.id] \in Test!Session
    BY <1>1, <1>2
  <2>2. value \in 0..100 /\ srv[page.id].value \in 0..100 /\ srv[page.id].turns \in Nat
    <3>1. d \in Int /\ srv[page.id].value \in 0..100 /\ srv[page.id].turns \in Nat
      BY <2>1, WebAssumption DEF Test!Session
    <3>2. srv[page.id].value + d \in Int
      BY <3>1
    <3>3. QED BY <1>9, <3>1, <3>2, ClampedShape
  <2>3. PICK s : s = [srv[page.id] EXCEPT !.value = value, !.turns = srv[page.id].turns + 1,
                                          !.ended = over]
    OBVIOUS
  <2>4. s \in Test!Session /\ s.value = value /\ (s.ended <=> over)
        /\ (s.live <=> srv[page.id].live)
    <3>1. PICK t : t = srv[page.id].turns + 1
      OBVIOUS
    <3>2. s = [live |-> srv[page.id].live, value |-> value, turns |-> t, ended |-> over]
      <4>1. \A r \in Test!Session : \A x :
              x = [r EXCEPT !.value = value, !.turns = t, !.ended = over] =>
                x = [live |-> r.live, value |-> value, turns |-> t, ended |-> over]
        <5>1. SUFFICES ASSUME NEW r \in Test!Session, NEW x,
                              x = [r EXCEPT !.value = value, !.turns = t, !.ended = over]
                       PROVE  x = [live |-> r.live, value |-> value, turns |-> t, ended |-> over]
          OBVIOUS
        <5>2. QED BY <5>1 DEF Test!Session
      <4>2. PICK r : r = srv[page.id]
        OBVIOUS
      <4>3. s = [r EXCEPT !.value = value, !.turns = t, !.ended = over]
        BY <2>3, <3>1, <4>2
      <4>4. r \in Test!Session
        BY <2>1, <4>2
      <4>5. QED BY <4>1, <4>2, <4>3, <4>4, Zenon
    <3>3. t \in Nat
      BY <2>2, <3>1
    <3>4. QED BY <2>1, <2>2, <3>2, <3>3 DEF Test!Session
  <2>5. srv' = [srv EXCEPT ![page.id] = s]
    BY <1>9, <2>3
  <2>6. /\ srv' \in [1..n -> Test!Session] /\ srv'[page.id] = s
        /\ \A i \in 1..n : (i # page.id => srv'[i] = srv[i]) /\ (srv'[i].live <=> srv[i].live)
    BY <1>1, <1>2, <2>4, <2>5
  <2>7. PICK c0 : c0 = [k |-> "turn", id |-> page.id, panel |-> page.no,
                        ok |-> TRUE, delta |-> value - srv[page.id].value, ended |-> over]
    OBVIOUS
  <2>8. /\ c0.k = "turn" /\ c0.panel = page.no /\ c0.id = page.id /\ c0.ok
        /\ c0.delta = value - srv[page.id].value /\ c0.ended = over /\ calls' = calls \cup {c0}
    BY <1>9, <2>7
  <2>9. c0.delta \in Int /\ srv[page.id].value + c0.delta = value
    <3>1. PICK x \in Int, y \in Int : x = srv[page.id].value /\ y = value
      BY <2>2
    <3>2. c0.delta = y - x
      BY <2>8, <3>1
    <3>3. y - x \in Int /\ x + (y - x) = y
      OBVIOUS
    <3>4. QED BY <3>1, <3>2, <3>3
  <2>10. page.id \notin hist.lost =>
           /\ srv'[page.id].value = IF c0.ok THEN page.value + c0.delta ELSE page.value
           /\ srv'[page.id].ended <=> c0.ok /\ c0.ended
    <3>1. srv'[page.id].value = value /\ (srv'[page.id].ended <=> over)
      BY <2>4, <2>6
    <3>2. page.id \notin hist.lost => page.value = srv[page.id].value
      BY <1>7
    <3>3. QED BY <2>8, <2>9, <3>1, <3>2
  <2>11. QED BY <1>8, <2>6, <2>8, <2>9, <2>10
<1>10. CASE /\ srv' = srv
            /\ calls' = calls \cup {[k |-> "turn", id |-> page.id, panel |-> page.no,
                                     ok |-> FALSE, delta |-> 0, ended |-> FALSE]}
  <2>1. PICK c0 : c0 = [k |-> "turn", id |-> page.id, panel |-> page.no,
                        ok |-> FALSE, delta |-> 0, ended |-> FALSE]
    OBVIOUS
  <2>2. /\ c0.k = "turn" /\ c0.panel = page.no /\ c0.id = page.id /\ ~c0.ok
        /\ calls' = calls \cup {c0}
    BY <1>10, <2>1
  <2>3. page.id \notin hist.lost =>
          /\ srv'[page.id].value = IF c0.ok THEN page.value + c0.delta ELSE page.value
          /\ srv'[page.id].ended <=> c0.ok /\ c0.ended
    BY <1>7, <1>10, <2>2
  <2>4. /\ srv' \in [1..n -> Test!Session]
        /\ \A i \in 1..n : (i # page.id => srv'[i] = srv[i]) /\ (srv'[i].live <=> srv[i].live)
    BY <1>1, <1>10
  <2>5. QED BY <1>8, <2>2, <2>3, <2>4
<1>11. \/ \E d \in Deltas, over \in BOOLEAN :
            /\ srv' = [srv EXCEPT ![page.id] =
                         [srv[page.id] EXCEPT !.value = Test!Clamped(srv[page.id].value + d),
                                              !.turns = srv[page.id].turns + 1, !.ended = over]]
            /\ calls' = calls \cup
                 {[k |-> "turn", id |-> page.id, panel |-> page.no, ok |-> TRUE,
                   delta |-> Test!Clamped(srv[page.id].value + d) - srv[page.id].value,
                   ended |-> over]}
       \/ /\ srv' = srv
          /\ calls' = calls \cup {[k |-> "turn", id |-> page.id, panel |-> page.no,
                                   ok |-> FALSE, delta |-> 0, ended |-> FALSE]}
  BY Zenon DEF Test!HandleSend
<1>12. QED BY <1>9, <1>10, <1>11

LEMMA StartAnswerStep ==
  ASSUME Test!Inv, Test!StartAnswered
  PROVE  Test!Inv'
<1>1. PICK c \in calls :
        /\ c.k = "start" /\ calls' = calls \ {c} /\ srv' = srv
        /\ \/ /\ c.id # 0
              /\ IF c.panel = page.no
                 THEN /\ page' = [page EXCEPT !.status = "active", !.id = c.id, !.value = c.value]
                      /\ hist' = hist
                 ELSE hist' = [lost |-> hist.lost \cup {c.id}] /\ page' = page
           \/ /\ page' = IF c.panel = page.no
                         THEN [page EXCEPT !.status = "idle", !.startErr = TRUE] ELSE page
              /\ hist' = [lost |-> hist.lost \cup {c.id}]
  BY DEF Test!StartAnswered, Test!None
<1>2. PICK n \in Nat : srv \in [1..n -> Test!Session] /\ Test!Cardinality(DOMAIN srv) = n
  BY SessionsTyped
<1>3. /\ Test!StartKept(c)
      /\ \A d \in calls \ {c} : d.k = "start" => Test!StartsDiffer(c, d)
      /\ \A d \in calls : d.k = "start" /\ d.id # 0 => d.id \in 1..n
  BY <1>1, <1>2 DEF Test!Inv, Test!CallsKept, Test!StartKept, Test!Live, Test!None
<1>4. /\ page = [no |-> page.no, status |-> page.status, id |-> page.id, value |-> page.value,
                 ending |-> page.ending, startErr |-> page.startErr, turnErr |-> page.turnErr]
      /\ page.no \in Nat /\ page.value \in Int /\ hist = [lost |-> hist.lost]
      /\ \A d \in calls : d.k \in {"start", "turn"} /\ d.panel \in 0..page.no
  BY DEF Test!Inv, Test!Shape
<1>5. CASE c.panel # page.no
  <2>1. page' = page /\ hist' = [lost |-> hist.lost \cup {c.id}]
    BY <1>1, <1>5
  <2>2. hist'.lost = hist.lost \cup {c.id}
    BY <2>1
  <2>3. hist' = [lost |-> hist'.lost]
    BY <2>1, <2>2
  <2>4. QED BY <1>1, <2>1, <2>2, <2>3, AnswerAside
<1>6. ASSUME c.panel = page.no PROVE \A d \in calls' : d.panel # page.no
  <2>1. page.status = "starting"
    BY <1>3, <1>6 DEF Test!StartKept
  <2>2. SUFFICES ASSUME NEW d \in calls \ {c} PROVE d.panel # page.no
    BY <1>1
  <2>3. CASE d.k = "start"
    BY <1>3, <1>6, <2>3 DEF Test!StartsDiffer
  <2>4. CASE d.k = "turn"
    BY <2>1, <2>4 DEF Test!Inv, Test!CallsKept, Test!TurnKept
  <2>5. QED BY <1>4, <2>3, <2>4
<1>7. CASE /\ c.panel = page.no /\ c.id # 0 /\ hist' = hist
           /\ page' = [page EXCEPT !.status = "active", !.id = c.id, !.value = c.value]
  <2>1. page' = [no |-> page.no, status |-> "active", id |-> c.id, value |-> c.value,
                 ending |-> page.ending, startErr |-> page.startErr, turnErr |-> page.turnErr]
    BY <1>4, <1>7
  <2>2. page'.no = page.no /\ page'.id = c.id /\ page'.status = "active" /\ page'.value = c.value
        /\ page' = [no |-> page'.no, status |-> page'.status, id |-> page'.id,
                    value |-> page'.value, ending |-> page'.ending, startErr |-> page'.startErr,
                    turnErr |-> page'.turnErr]
    BY <2>1
  <2>3. c.id \in 1..n /\ srv[c.id].live /\ srv[c.id].value = c.value /\ ~srv[c.id].ended
    BY <1>1, <1>3, <1>7 DEF Test!StartKept, Test!Live, Test!None
  <2>4. c.value \in Int
    <3>1. srv[c.id] \in Test!Session
      BY <1>2, <2>3
    <3>2. QED BY <2>3, <3>1 DEF Test!Session
  <2>5. Test!Shape'
    BY <1>1, <1>4, <1>7, <2>2, <2>4 DEF Test!Inv, Test!Shape, Test!Session
  <2>6. Test!HasSession' /\ Test!InspectorShowsState'
    BY <1>1, <1>2, <2>2, <2>3 DEF Test!HasSession, Test!InspectorShowsState, Test!Live
  <2>7. Test!CallsKept'
    <3>1. \A d \in calls' \ {c} : d.panel # page'.no
      BY <1>6, <1>7, <2>2
    <3>2. \A d \in calls' \ {c} : d.k = "start" /\ d.id # 0 =>
            d.id # page'.id /\ d.id \in DOMAIN srv' /\ srv'[d.id] = srv[d.id]
      BY <1>1, <1>2, <1>3, <2>2 DEF Test!StartsDiffer, Test!None
    <3>3. c \notin calls' /\ calls' \subseteq calls \cup {c}
      BY <1>1
    <3>4. QED BY <3>1, <3>2, <3>3, CallsOfOthers
  <2>8. Test!OneTestSession'
    <3>1. SUFFICES ASSUME NEW id \in DOMAIN srv, id \notin hist.lost, srv[id].live, id # c.id
                   PROVE  \E d \in calls' : d.k = "start" /\ d.id = id
      BY <1>1, <1>7, <2>2 DEF Test!OneTestSession, Test!Live
    <3>2. page.id = 0
      BY <1>3, <1>7 DEF Test!StartKept, Test!Inv, Test!HasSession, Test!None
    <3>3. id # page.id
      BY <1>2, <3>2
    <3>4. PICK d \in calls : d.k = "start" /\ d.id = id
      BY <3>1, <3>3 DEF Test!Inv, Test!OneTestSession, Test!Live
    <3>5. QED BY <1>1, <3>1, <3>4
  <2>9. QED BY <2>5, <2>6, <2>7, <2>8 DEF Test!Inv
<1>8. CASE /\ c.panel = page.no /\ hist' = [lost |-> hist.lost \cup {c.id}]
           /\ page' = [page EXCEPT !.status = "idle", !.startErr = TRUE]
  <2>1. page' = [no |-> page.no, status |-> "idle", id |-> page.id, value |-> page.value,
                 ending |-> page.ending, startErr |-> TRUE, turnErr |-> page.turnErr]
    BY <1>4, <1>8
  <2>2. page'.no = page.no /\ page'.id = page.id /\ page'.status = "idle"
        /\ page'.value = page.value
        /\ page' = [no |-> page'.no, status |-> page'.status, id |-> page'.id,
                    value |-> page'.value, ending |-> page'.ending, startErr |-> page'.startErr,
                    turnErr |-> page'.turnErr]
    BY <2>1
  <2>3. page.id = 0
    BY <1>3, <1>8 DEF Test!StartKept, Test!Inv, Test!HasSession, Test!None
  <2>4. hist'.lost = hist.lost \cup {c.id} /\ hist' = [lost |-> hist'.lost]
    BY <1>8
  <2>5. Test!Shape'
    BY <1>1, <1>4, <2>2, <2>4 DEF Test!Inv, Test!Shape, Test!Session
  <2>6. Test!HasSession' /\ Test!InspectorShowsState'
    BY <2>2, <2>3 DEF Test!HasSession, Test!InspectorShowsState, Test!None
  <2>7. Test!CallsKept'
    <3>1. \A d \in calls' \ {c} : d.panel # page'.no
      BY <1>6, <1>8, <2>2
    <3>2. \A d \in calls' \ {c} : d.k = "start" /\ d.id # 0 =>
            d.id # page'.id /\ d.id \in DOMAIN srv' /\ srv'[d.id] = srv[d.id]
      BY <1>1, <1>2, <1>3, <2>2, <2>3
    <3>3. c \notin calls' /\ calls' \subseteq calls \cup {c}
      BY <1>1
    <3>4. QED BY <3>1, <3>2, <3>3, CallsOfOthers
  <2>8. Test!OneTestSession'
    <3>1. SUFFICES ASSUME NEW id \in DOMAIN srv, id \notin hist.lost, srv[id].live, id # c.id
                   PROVE  \E d \in calls' : d.k = "start" /\ d.id = id
      BY <1>1, <2>2, <2>4 DEF Test!OneTestSession, Test!Live
    <3>2. id # page.id
      BY <1>2, <2>3
    <3>3. PICK d \in calls : d.k = "start" /\ d.id = id
      BY <3>1, <3>2 DEF Test!Inv, Test!OneTestSession, Test!Live
    <3>4. QED BY <1>1, <3>1, <3>3
  <2>9. QED BY <2>5, <2>6, <2>7, <2>8 DEF Test!Inv
<1>9. QED BY <1>1, <1>5, <1>7, <1>8

LEMMA TurnAnswerStep ==
  ASSUME Test!Inv, Test!TurnAnswered
  PROVE  Test!Inv'
<1>1. PICK c \in calls :
        /\ c.k = "turn" /\ calls' = calls \ {c} /\ srv' = srv
        /\ \/ /\ c.ok /\ hist' = hist
              /\ page' = IF c.panel # page.no THEN page
                         ELSE [page EXCEPT !.value = Test!Inspected(c.delta),
                                 !.status = IF c.ended THEN "ended" ELSE "active",
                                 !.ending = c.ended]
           \/ /\ page' = IF c.panel # page.no THEN page
                         ELSE [page EXCEPT !.turnErr = TRUE, !.status = "active"]
              /\ hist' = [lost |-> IF c.ok THEN hist.lost \cup {c.id} ELSE hist.lost]
  BY DEF Test!TurnAnswered
<1>2. PICK n \in Nat : srv \in [1..n -> Test!Session] /\ Test!Cardinality(DOMAIN srv) = n
  BY SessionsTyped
<1>3. /\ page = [no |-> page.no, status |-> page.status, id |-> page.id, value |-> page.value,
                 ending |-> page.ending, startErr |-> page.startErr, turnErr |-> page.turnErr]
      /\ page.no \in Nat /\ page.value \in Int /\ hist = [lost |-> hist.lost]
      /\ \A d \in calls : d.k \in {"start", "turn"} /\ d.panel \in 0..page.no
  BY DEF Test!Inv, Test!Shape
<1>4. /\ hist' = [lost |-> hist'.lost] /\ hist.lost \subseteq hist'.lost
  BY <1>1, <1>3
<1>5. CASE c.panel # page.no
  <2>1. page' = page
    BY <1>1, <1>5
  <2>2. QED BY <1>1, <1>4, <2>1, AnswerAside
<1>6. CASE c.panel = page.no
  <2>1. /\ page.status = "sending" /\ c.id = page.id
        /\ c.ok => c.delta \in Int
        /\ c.id \notin hist.lost =>
             /\ c.id \in DOMAIN srv /\ srv[c.id].live
             /\ srv[c.id].value = IF c.ok THEN page.value + c.delta ELSE page.value
             /\ srv[c.id].ended <=> c.ok /\ c.ended
        /\ \A d \in calls \ {c} : d.k = "turn" => d.panel # page.no
    BY <1>1, <1>6 DEF Test!Inv, Test!CallsKept, Test!TurnKept, Test!Live
  <2>2. page.id \in 1..n
    BY <1>2, <2>1 DEF Test!Inv, Test!HasSession
  <2>3. \A d \in calls' : d.panel # page.no
    <3>1. SUFFICES ASSUME NEW d \in calls \ {c} PROVE d.panel # page.no
      BY <1>1
    <3>2. CASE d.k = "start"
      BY <2>1, <3>2 DEF Test!Inv, Test!CallsKept, Test!StartKept
    <3>3. QED BY <1>3, <2>1, <3>2
  <2>4. \A d \in calls : d.k = "start" /\ d.id # 0 => d.id \in 1..n /\ d.id # page.id
    BY <1>2 DEF Test!Inv, Test!CallsKept, Test!StartKept, Test!Live, Test!None
  <2>5. ASSUME NEW status \in {"active", "ended"}, NEW value \in Int, NEW ending, NEW turnErr,
               page' = [no |-> page.no, status |-> status, id |-> page.id, value |-> value,
                        ending |-> ending, startErr |-> page.startErr, turnErr |-> turnErr],
               page.id \notin hist'.lost =>
                 /\ srv[page.id].live /\ srv[page.id].value = value
                 /\ status = "ended" <=> srv[page.id].ended
        PROVE  Test!Inv'
    <3>1. page'.no = page.no /\ page'.id = page.id /\ page'.status = status
          /\ page'.value = value
          /\ page' = [no |-> page'.no, status |-> page'.status, id |-> page'.id,
                      value |-> page'.value, ending |-> page'.ending,
                      startErr |-> page'.startErr, turnErr |-> page'.turnErr]
      BY <2>5
    <3>2. Test!Shape'
      BY <1>1, <1>3, <1>4, <3>1 DEF Test!Inv, Test!Shape, Test!Session
    <3>3. Test!HasSession' /\ Test!InspectorShowsState'
      BY <1>1, <1>2, <2>2, <2>5, <3>1 DEF Test!HasSession, Test!InspectorShowsState, Test!Live
    <3>4. Test!CallsKept'
      <4>1. \A d \in calls' \ {c} : d.panel # page'.no
        BY <2>3, <3>1
      <4>2. \A d \in calls' \ {c} : d.k = "start" /\ d.id # 0 =>
              d.id # page'.id /\ d.id \in DOMAIN srv' /\ srv'[d.id] = srv[d.id]
        BY <1>1, <1>2, <2>4, <3>1
      <4>3. c \notin calls' /\ calls' \subseteq calls \cup {c}
        BY <1>1
      <4>4. QED BY <4>1, <4>2, <4>3, CallsOfOthers
    <3>5. Test!OneTestSession'
      BY <1>1, <1>4, <3>1 DEF Test!Inv, Test!OneTestSession, Test!Live
    <3>6. QED BY <3>2, <3>3, <3>4, <3>5 DEF Test!Inv
  <2>6. CASE /\ c.ok /\ hist' = hist
             /\ page' = [page EXCEPT !.value = Test!Inspected(c.delta),
                           !.status = IF c.ended THEN "ended" ELSE "active", !.ending = c.ended]
    <3>1. PICK value \in 0..100, status \in {"active", "ended"} :
            /\ value = Test!Inspected(c.delta) /\ (status = "ended" <=> c.ended)
            /\ status = IF c.ended THEN "ended" ELSE "active"
      BY <1>3, <2>1, <2>6, ClampedShape DEF Test!Inspected
    <3>2. page' = [page EXCEPT !.value = value, !.status = status, !.ending = c.ended]
      BY <2>6, <3>1
    <3>3. page' = [no |-> page.no, status |-> status, id |-> page.id, value |-> value,
                   ending |-> c.ended, startErr |-> page.startErr, turnErr |-> page.turnErr]
      BY <1>3, <3>2
    <3>4. page.id \notin hist.lost =>
            /\ srv[page.id].live /\ srv[page.id].value = value
            /\ status = "ended" <=> srv[page.id].ended
      <4>1. SUFFICES ASSUME page.id \notin hist.lost
                     PROVE  /\ srv[page.id].live /\ srv[page.id].value = value
                            /\ status = "ended" <=> srv[page.id].ended
        OBVIOUS
      <4>2. /\ srv[page.id].live /\ srv[page.id].value = page.value + c.delta
            /\ srv[page.id].ended <=> c.ended
        BY <2>1, <2>6, <4>1
      <4>3. srv[page.id].value \in 0..100
        <5>1. srv[page.id] \in Test!Session
          BY <1>2, <2>2
        <5>2. QED BY <5>1 DEF Test!Session
      <4>4. value = page.value + c.delta
        BY <3>1, <4>2, <4>3, ClampedShape DEF Test!Inspected
      <4>5. QED BY <3>1, <4>2, <4>4
    <3>5. value \in Int
      OBVIOUS
    <3>6. QED BY <2>5, <2>6, <3>3, <3>4, <3>5
  <2>7. CASE /\ page' = [page EXCEPT !.turnErr = TRUE, !.status = "active"]
             /\ hist' = [lost |-> IF c.ok THEN hist.lost \cup {c.id} ELSE hist.lost]
    <3>1. page' = [no |-> page.no, status |-> "active", id |-> page.id, value |-> page.value,
                   ending |-> page.ending, startErr |-> page.startErr, turnErr |-> TRUE]
      BY <1>3, <2>7
    <3>2. page.id \notin hist'.lost => ~c.ok /\ c.id \notin hist.lost
      BY <2>1, <2>7
    <3>3. page.id \notin hist'.lost =>
            /\ srv[page.id].live /\ srv[page.id].value = page.value
            /\ "active" = "ended" <=> srv[page.id].ended
      BY <2>1, <3>2
    <3>4. QED BY <1>3, <2>5, <3>1, <3>3
  <2>8. QED BY <1>1, <1>6, <2>6, <2>7
<1>7. QED BY <1>5, <1>6

LEMMA TestStep ==
  ASSUME Test!Inv, [Test!Next]_(Test!vars)
  PROVE  Test!Inv'
<1>1. CASE Test!HandleStart
  <2>1. /\ page.status = "idle" /\ Test!Started(srv) /\ page' = Test!Starting /\ hist' = hist
    BY <1>1 DEF Test!HandleStart
  <2>2. srv \in [DOMAIN srv -> Test!Session] /\ 0 \notin DOMAIN srv
    BY SessionsTyped
  <2>3. page.id = 0
    BY <2>1 DEF Test!Inv, Test!HasSession, Test!None
  <2>4. QED BY <2>1, <2>2, <2>3, StartStep
<1>2. CASE Test!HandleReset
  <2>1. /\ page.status \in {"active", "ended"} /\ Test!Started(Test!Killed(page.id))
        /\ page' = Test!Starting /\ hist' = hist
    BY <1>2 DEF Test!HandleReset, Test!Idle, Test!ResetFrom
  <2>2. PICK ss : ss = Test!Killed(page.id)
    OBVIOUS
  <2>3. /\ ss \in [DOMAIN srv -> Test!Session]
        /\ \A i \in DOMAIN srv : i # page.id => ss[i] = srv[i]
        /\ page.id \in DOMAIN srv => ~ss[page.id].live
    BY <2>2, KilledShape
  <2>4. Test!Started(ss)
    BY <2>1, <2>2
  <2>5. QED BY <2>1, <2>3, <2>4, StartStep
<1>3. CASE Test!HandleDiscard \/ Test!Unmount
  <2>1. page.no \in Nat
    BY DEF Test!Inv, Test!Shape
  <2>2. PICK no \in Nat :
          /\ page' = Test!Fresh(no) /\ srv' = Test!Killed(page.id) /\ calls' = calls
          /\ hist' = hist
          /\ (no = page.no /\ page.status \in {"active", "ended"}) \/ no = page.no + 1
    BY <1>3, <2>1 DEF Test!HandleDiscard, Test!Idle, Test!Unmount
  <2>3. QED BY <2>2, CloseStep
<1>4. CASE Test!Validated \/ UNCHANGED Test!vars
  <2>1. page' = page /\ srv' = srv /\ calls' = calls /\ hist' = hist
    BY <1>4 DEF Test!Validated, Test!vars
  <2>2. hist' = [lost |-> hist'.lost]
    BY <2>1 DEF Test!Inv, Test!Shape
  <2>3. QED BY <2>1, <2>2, AnswerAside
<1>5. QED
  BY <1>1, <1>2, <1>3, <1>4, StartAnswerStep, SendStep, TurnAnswerStep DEF Test!Next

LEMMA TestHolds ==
  ASSUME Test!Inv
  PROVE  Test!InspectorShowsState /\ Test!OneTestSession
BY DEF Test!Inv

-----------------------------------------------------------------------------
(* The workbench *)

LEMMA BenchInit == Bench!Init => Bench!Inv
<1> SUFFICES ASSUME Bench!Init PROVE Bench!Inv
  OBVIOUS
<1>1. /\ srv = [packs |-> Official \cup Local, text |-> [p \in Bench!AllPacks |-> Bench!Shipped]]
      /\ flow = [packs |-> {}, pack |-> "none", file |-> "none", text |-> Bench!Blank,
                 saved |-> Bench!Blank, editable |-> FALSE, loading |-> FALSE, fileErr |-> FALSE,
                 busy |-> {}, verdict |-> "none", validating |-> FALSE]
      /\ calls = {[k |-> "list", n |-> 0, packs |-> srv.packs]}
      /\ hist = [sent |-> 0, wrote |-> 0, own |-> TRUE, right |-> TRUE, torn |-> FALSE]
  BY DEF Bench!Init, Bench!None
<1>2. srv.packs \subseteq Bench!AllPacks /\ srv.text \in [Bench!AllPacks -> [Files -> Bench!Texts]]
  <2>1. Bench!Shipped \in [Files -> Bench!Texts]
    BY DEF Bench!Shipped, Bench!Texts, Bench!Versions
  <2>2. QED BY <1>1, <2>1 DEF Bench!AllPacks
<1>3. Bench!Blank \in Bench!Texts
  BY DEF Bench!Blank, Bench!Texts
<1>4. Bench!Shape
  BY <1>1, <1>2, <1>3 DEF Bench!Shape, Bench!UiShape, Bench!None
<1>5. PICK c : c = [k |-> "list", n |-> 0, packs |-> srv.packs]
  OBVIOUS
<1>6. c.k = "list" /\ c.packs = srv.packs /\ calls = {c}
  BY <1>1, <1>5
<1>7. Bench!CallsKept /\ Bench!OneSave
  BY <1>6 DEF Bench!CallsKept, Bench!Kept, Bench!OneSave, Bench!Saving
<1>8. Bench!TextKept /\ Bench!VerdictKept
  BY <1>1 DEF Bench!TextKept, Bench!VerdictKept, Bench!None
<1>9. QED BY <1>4, <1>7, <1>8 DEF Bench!Inv

\* The packs the server had keep their texts: what is on its way stays so.
LEMMA CallStays ==
  ASSUME Bench!Inv, srv.packs \subseteq srv'.packs,
         \A p \in srv.packs : srv'.text[p] = srv.text[p],
         hist'.wrote = hist.wrote, hist'.sent \in {hist.sent, hist.sent + 1},
         NEW c \in calls
  PROVE  Bench!Kept(c)'
<1>1. Bench!Kept(c) /\ hist.sent \in Nat
  BY DEF Bench!Inv, Bench!CallsKept, Bench!Shape
<1>2. \A p \in srv.packs : Bench!Verdict(srv', p) = Bench!Verdict(srv, p)
  BY DEF Bench!Verdict
<1>3. \A n \in 0..hist.sent : n \in 0..hist'.sent
  BY <1>1
<1>4. QED BY <1>1, <1>2, <1>3, Zenon DEF Bench!Kept

LEMMA BenchShape ==
  ASSUME Bench!Inv,
         srv' = [packs |-> srv'.packs, text |-> srv'.text], srv.packs \subseteq srv'.packs,
         srv'.packs \subseteq Bench!AllPacks, srv'.text \in [Bench!AllPacks -> [Files -> Bench!Texts]],
         \A p \in srv.packs : srv'.text[p] = srv.text[p],
         hist' = [sent |-> hist'.sent, wrote |-> hist.wrote, own |-> hist'.own,
                  right |-> hist'.right, torn |-> hist'.torn],
         hist'.sent \in {hist.sent, hist.sent + 1},
         Bench!UiShape(flow'), flow'.packs \subseteq srv'.packs,
         flow'.pack \in srv'.packs \cup {"none"}, flow'.file \in Files \cup {"none"},
         flow'.file # "none" => flow'.pack # "none", flow'.text \in Bench!Texts,
         \A c \in calls' : c \in calls \/ Bench!Kept(c)'
  PROVE  Bench!Shape' /\ Bench!CallsKept'
<1>1. hist.sent \in Nat /\ hist.wrote \in 0..hist.sent
  BY DEF Bench!Inv, Bench!Shape
<1>2. hist'.wrote = hist.wrote
  OBVIOUS
<1>3. hist'.sent \in Nat /\ hist'.wrote \in 0..hist'.sent
  BY <1>1, <1>2
<1>4. Bench!Shape'
  BY <1>2, <1>3 DEF Bench!Shape, Bench!None
<1>5. ASSUME NEW c \in calls' PROVE Bench!Kept(c)'
  <2>1. CASE c \in calls
    BY <1>2, <2>1, CallStays
  <2>2. QED BY <1>5, <2>1
<1>6. QED BY <1>4, <1>5 DEF Bench!CallsKept

\* Saves are neither sent nor answered.
LEMMA SaveStays ==
  ASSUME Bench!Inv, \A c \in calls' : c \in calls \/ ~Bench!Saving(c),
         "save" \in flow.busy => "save" \in flow'.busy
  PROVE  Bench!OneSave'
<1>1. ASSUME NEW c \in calls', Bench!Saving(c)
      PROVE  "save" \in flow'.busy /\ \A d \in calls' \ {c} : ~Bench!Saving(d)
  <2>1. c \in calls /\ "save" \in flow.busy /\ \A d \in calls \ {c} : ~Bench!Saving(d)
    BY <1>1 DEF Bench!Inv, Bench!OneSave
  <2>2. QED BY <2>1
<1>2. QED BY <1>1 DEF Bench!OneSave, Bench!Saving

\* A step beside the texts on the page and their verdict.
LEMMA BenchAside ==
  ASSUME Bench!Inv,
         srv' = [packs |-> srv'.packs, text |-> srv'.text], srv.packs \subseteq srv'.packs,
         srv'.packs \subseteq Bench!AllPacks, srv'.text \in [Bench!AllPacks -> [Files -> Bench!Texts]],
         \A p \in srv.packs : srv'.text[p] = srv.text[p],
         hist' = [sent |-> hist'.sent, wrote |-> hist.wrote, own |-> hist.own,
                  right |-> hist.right, torn |-> hist.torn],
         hist'.sent \in {hist.sent, hist.sent + 1},
         Bench!UiShape(flow'), flow'.packs \subseteq srv'.packs,
         flow'.pack = flow.pack, flow'.file = flow.file, flow'.saved = flow.saved,
         flow'.loading = flow.loading, flow'.verdict = flow.verdict, flow'.text \in Bench!Texts,
         "save" \in flow.busy => "save" \in flow'.busy,
         \A c \in calls : Bench!Saving(c) => c \in calls',
         \A c \in calls' : c \in calls \/ (Bench!Kept(c)' /\ ~Bench!Saving(c))
  PROVE  Bench!Inv'
<1>1. /\ hist'.own = hist.own /\ hist'.right = hist.right /\ hist'.torn = hist.torn
      /\ hist' = [sent |-> hist'.sent, wrote |-> hist.wrote, own |-> hist'.own,
                  right |-> hist'.right, torn |-> hist'.torn]
  OBVIOUS
<1>2. /\ flow.pack \in srv.packs \cup {"none"} /\ flow.file \in Files \cup {"none"}
      /\ flow.file # "none" => flow.pack # "none"
  BY DEF Bench!Inv, Bench!Shape, Bench!None
<1>3. Bench!Shape' /\ Bench!CallsKept'
  BY <1>1, <1>2, BenchShape
<1>4. Bench!OneSave'
  BY SaveStays
<1>5. Bench!TextKept'
  <2>1. SUFFICES ASSUME flow.file # "none", ~flow.loading, hist.right, ~hist.torn
                 PROVE  \/ flow.saved = srv'.text[flow.pack][flow.file]
                        \/ \E c \in calls' : c.k = "save" /\ c.ok
    BY <1>1 DEF Bench!TextKept, Bench!None
  <2>2. srv'.text[flow.pack] = srv.text[flow.pack]
    BY <1>2, <2>1
  <2>3. \/ flow.saved = srv.text[flow.pack][flow.file]
        \/ \E c \in calls : c.k = "save" /\ c.ok
    BY <2>1 DEF Bench!Inv, Bench!TextKept, Bench!None
  <2>4. QED BY <2>2, <2>3 DEF Bench!Saving
<1>6. Bench!VerdictKept'
  <2>1. SUFFICES ASSUME hist.own, flow.pack # "none"
                 PROVE  \/ flow.verdict \in {"none", Bench!Verdict(srv', flow.pack)}
                        \/ \E c \in calls' : Bench!Writing(c)
    BY <1>1 DEF Bench!VerdictKept, Bench!None, Bench!Writing, Bench!Saving
  <2>2. srv'.text[flow.pack] = srv.text[flow.pack]
    BY <1>2, <2>1
  <2>3. Bench!Verdict(srv', flow.pack) = Bench!Verdict(srv, flow.pack)
    BY <2>2 DEF Bench!Verdict
  <2>4. \/ flow.verdict \in {"none", Bench!Verdict(srv, flow.pack)}
        \/ \E c \in calls : Bench!Writing(c)
    BY <2>1 DEF Bench!Inv, Bench!VerdictKept, Bench!None
  <2>5. QED BY <2>3, <2>4 DEF Bench!Writing
<1>7. QED BY <1>1, <1>3, <1>4, <1>5, <1>6 DEF Bench!Inv

\* The same where the server's packs stay as they are.
LEMMA BenchStill ==
  ASSUME Bench!Inv, srv' = srv,
         hist' = [sent |-> hist'.sent, wrote |-> hist.wrote, own |-> hist.own,
                  right |-> hist.right, torn |-> hist.torn],
         hist'.sent \in {hist.sent, hist.sent + 1},
         Bench!UiShape(flow'), flow'.packs \subseteq srv.packs,
         flow'.pack = flow.pack, flow'.file = flow.file, flow'.saved = flow.saved,
         flow'.loading = flow.loading, flow'.verdict = flow.verdict, flow'.text \in Bench!Texts,
         "save" \in flow.busy => "save" \in flow'.busy,
         \A c \in calls : Bench!Saving(c) => c \in calls',
         \A c \in calls' : c \in calls \/ (Bench!Kept(c)' /\ ~Bench!Saving(c))
  PROVE  Bench!Inv'
<1>1. /\ srv' = [packs |-> srv'.packs, text |-> srv'.text] /\ srv.packs \subseteq srv'.packs
      /\ srv'.packs \subseteq Bench!AllPacks
      /\ srv'.text \in [Bench!AllPacks -> [Files -> Bench!Texts]]
      /\ \A p \in srv.packs : srv'.text[p] = srv.text[p]
      /\ flow'.packs \subseteq srv'.packs
  BY DEF Bench!Inv, Bench!Shape
<1>2. QED BY <1>1, BenchAside

LEMMA BenchShapeStill ==
  ASSUME Bench!Inv, srv' = srv,
         hist' = [sent |-> hist'.sent, wrote |-> hist.wrote, own |-> hist'.own,
                  right |-> hist'.right, torn |-> hist'.torn],
         hist'.sent \in {hist.sent, hist.sent + 1},
         Bench!UiShape(flow'), flow'.packs \subseteq srv.packs,
         flow'.pack \in srv.packs \cup {"none"}, flow'.file \in Files \cup {"none"},
         flow'.file # "none" => flow'.pack # "none", flow'.text \in Bench!Texts,
         \A c \in calls' : c \in calls \/ Bench!Kept(c)'
  PROVE  Bench!Shape' /\ Bench!CallsKept'
<1>1. /\ srv' = [packs |-> srv'.packs, text |-> srv'.text] /\ srv.packs \subseteq srv'.packs
      /\ srv'.packs \subseteq Bench!AllPacks
      /\ srv'.text \in [Bench!AllPacks -> [Files -> Bench!Texts]]
      /\ \A p \in srv.packs : srv'.text[p] = srv.text[p]
      /\ flow'.packs \subseteq srv'.packs /\ flow'.pack \in srv'.packs \cup {"none"}
  BY DEF Bench!Inv, Bench!Shape
<1>2. QED BY <1>1, BenchShape

LEMMA VerdictStays ==
  ASSUME Bench!Inv, srv' = srv, flow'.pack = flow.pack, flow'.verdict = flow.verdict,
         hist'.own = hist.own, \A c \in calls : Bench!Saving(c) => c \in calls'
  PROVE  Bench!VerdictKept'
BY DEF Bench!Inv, Bench!VerdictKept, Bench!Writing, Bench!Saving

LEMMA ValidateKept ==
  ASSUME Bench!Inv, srv' = srv, hist'.sent = hist.sent + 1, hist'.wrote = hist.wrote,
         NEW p \in srv.packs, NEW ends, NEW c, c = Bench!Validate(p, ends)
  PROVE  Bench!Kept(c)' /\ c.k = "validate" /\ c.ends = ends
<1>1. PICK v : v = Bench!Verdict(srv', p)
  OBVIOUS
<1>2. c = [k |-> "validate", n |-> hist.sent + 1, pack |-> p, ends |-> ends, verdict |-> v]
  BY <1>1 DEF Bench!Validate
<1>3. c.k = "validate" /\ c.pack = p /\ c.n = hist.sent + 1 /\ c.ends = ends /\ c.verdict = v
  BY <1>2
<1>4. hist.sent \in Nat /\ hist.wrote \in 0..hist.sent
  BY DEF Bench!Inv, Bench!Shape
<1>5. QED BY <1>1, <1>3, <1>4 DEF Bench!Kept

\* What is picked, with the packs that are listed then.
LEMMA PickedShape ==
  ASSUME Bench!Inv, NEW p, NEW packs, NEW u, u = [Bench!Picked(p) EXCEPT !.packs = packs]
  PROVE  u = [packs |-> packs, pack |-> p, file |-> "none", text |-> Bench!Blank,
              saved |-> Bench!Blank, editable |-> flow.editable, loading |-> flow.loading,
              fileErr |-> flow.fileErr, busy |-> flow.busy, verdict |-> "none",
              validating |-> TRUE]
<1>1. Bench!UiShape(flow)
  BY DEF Bench!Inv, Bench!Shape
<1>2. QED BY <1>1 DEF Bench!Picked, Bench!UiShape, Bench!None

\* Another pack is picked.
LEMMA PickStep ==
  ASSUME Bench!Inv, srv' = srv, NEW p \in srv.packs, NEW packs \in SUBSET srv.packs,
         flow' = [packs |-> packs, pack |-> p, file |-> "none", text |-> Bench!Blank,
                  saved |-> Bench!Blank, editable |-> flow.editable, loading |-> flow.loading,
                  fileErr |-> flow.fileErr, busy |-> flow.busy, verdict |-> "none",
                  validating |-> TRUE],
         hist' = [sent |-> hist.sent + 1, wrote |-> hist.wrote, own |-> hist.own,
                  right |-> hist.right, torn |-> hist.torn],
         NEW ends, ends # "save", calls' \subseteq calls \cup {Bench!Validate(p, ends)},
         \A c \in calls : Bench!Saving(c) => c \in calls'
  PROVE  Bench!Inv'
<1>1. /\ flow'.packs = packs /\ flow'.pack = p /\ flow'.file = "none"
      /\ flow'.text = Bench!Blank /\ flow'.busy = flow.busy /\ flow'.verdict = "none"
  OBVIOUS
<1>2. Bench!UiShape(flow')
  <2>1. PICK u : u = [packs |-> packs, pack |-> p, file |-> "none", text |-> Bench!Blank,
                      saved |-> Bench!Blank, editable |-> flow.editable,
                      loading |-> flow.loading, fileErr |-> flow.fileErr, busy |-> flow.busy,
                      verdict |-> "none", validating |-> TRUE]
    OBVIOUS
  <2>2. Bench!UiShape(u)
    BY <2>1 DEF Bench!UiShape
  <2>3. flow' = u
    BY <2>1
  <2>4. QED BY <2>2, <2>3, Zenon
<1>3. PICK c0 : c0 = Bench!Validate(p, ends)
  OBVIOUS
<1>4. hist'.sent = hist.sent + 1 /\ hist'.wrote = hist.wrote
      /\ hist' = [sent |-> hist'.sent, wrote |-> hist.wrote, own |-> hist'.own,
                  right |-> hist'.right, torn |-> hist'.torn]
  OBVIOUS
<1>5. Bench!Kept(c0)' /\ ~Bench!Saving(c0)
  BY <1>3, <1>4, ValidateKept DEF Bench!Saving
<1>6. Bench!Blank \in Bench!Texts
  BY DEF Bench!Blank, Bench!Texts
<1>7. \A c \in calls' : c \in calls \/ (Bench!Kept(c)' /\ ~Bench!Saving(c))
  BY <1>3, <1>5
<1>8. Bench!Shape' /\ Bench!CallsKept'
  <2>1. /\ flow'.packs \subseteq srv.packs /\ flow'.pack \in srv.packs \cup {"none"}
        /\ flow'.file \in Files \cup {"none"} /\ flow'.text \in Bench!Texts
        /\ flow'.file = "none"
    BY <1>1, <1>6
  <2>2. QED BY <1>2, <1>4, <1>7, <2>1, BenchShapeStill
<1>9. Bench!OneSave'
  BY <1>1, <1>7, SaveStays
<1>10. Bench!TextKept' /\ Bench!VerdictKept'
  BY <1>1 DEF Bench!TextKept, Bench!VerdictKept, Bench!None
<1>11. QED BY <1>8, <1>9, <1>10 DEF Bench!Inv

LEMMA BenchFacts ==
  ASSUME Bench!Inv
  PROVE  /\ Bench!UiShape(flow) /\ srv = [packs |-> srv.packs, text |-> srv.text]
         /\ hist = [sent |-> hist.sent, wrote |-> hist.wrote, own |-> hist.own,
                    right |-> hist.right, torn |-> hist.torn]
         /\ hist.sent \in Nat /\ hist.wrote \in 0..hist.sent
         /\ srv.packs \subseteq Bench!AllPacks
         /\ srv.text \in [Bench!AllPacks -> [Files -> Bench!Texts]]
         /\ flow.packs \subseteq srv.packs /\ flow.pack \in srv.packs \cup {"none"}
         /\ flow.file \in Files \cup {"none"} /\ flow.text \in Bench!Texts
         /\ flow.file # "none" => flow.pack # "none"
BY DEF Bench!Inv, Bench!Shape, Bench!None

LEMMA ListStep == ASSUME Bench!Inv, Bench!ListAnswered PROVE Bench!Inv'
<1>1. PICK c \in calls :
        /\ c.k = "list" /\ calls' = calls \ {c}
        /\ flow' \in {flow, [flow EXCEPT !.packs = c.packs]} /\ srv' = srv /\ hist' = hist
  BY DEF Bench!ListAnswered
<1>2. c.packs \subseteq srv.packs
  BY <1>1 DEF Bench!Inv, Bench!CallsKept, Bench!Kept
<1>3. ASSUME NEW u, u \in {flow, [flow EXCEPT !.packs = c.packs]}
      PROVE  /\ Bench!UiShape(u) /\ u.packs \subseteq srv.packs
             /\ u.pack = flow.pack /\ u.file = flow.file /\ u.saved = flow.saved
             /\ u.loading = flow.loading /\ u.verdict = flow.verdict /\ u.text \in Bench!Texts
             /\ u.busy = flow.busy
  BY <1>2, <1>3, BenchFacts DEF Bench!UiShape
<1>4. PICK u : u = flow'
  OBVIOUS
<1>5. /\ Bench!UiShape(u) /\ u.packs \subseteq srv.packs
      /\ u.pack = flow.pack /\ u.file = flow.file /\ u.saved = flow.saved
      /\ u.loading = flow.loading /\ u.verdict = flow.verdict /\ u.text \in Bench!Texts
      /\ u.busy = flow.busy
  BY <1>1, <1>3, <1>4
<1>6. Bench!UiShape(flow')
  BY <1>4, <1>5, Zenon
<1>7. /\ \A d \in calls : Bench!Saving(d) => d \in calls'
      /\ \A d \in calls' : d \in calls
  BY <1>1 DEF Bench!Saving
<1>8. QED BY <1>1, <1>4, <1>5, <1>6, <1>7, BenchFacts, BenchStill

LEMMA SelectPackStep == ASSUME Bench!Inv, Bench!HandleSelectPack PROVE Bench!Inv'
<1>1. PICK p \in flow.packs, asked \in BOOLEAN :
        /\ asked \/ Bench!MayOpen
        /\ flow' = Bench!Picked(p) /\ calls' = calls \cup {Bench!Validate(p, Bench!None)}
        /\ hist' = [hist EXCEPT !.sent = @ + 1]
  BY DEF Bench!HandleSelectPack
<1>2. srv' = srv /\ p \in srv.packs
  BY BenchFacts DEF Bench!HandleSelectPack
<1>3. flow' = [packs |-> flow.packs, pack |-> p, file |-> "none", text |-> Bench!Blank,
               saved |-> Bench!Blank, editable |-> flow.editable, loading |-> flow.loading,
               fileErr |-> flow.fileErr, busy |-> flow.busy, verdict |-> "none",
               validating |-> TRUE]
  BY <1>1, BenchFacts DEF Bench!Picked, Bench!UiShape, Bench!None
<1>5. hist' = [sent |-> hist.sent + 1, wrote |-> hist.wrote, own |-> hist.own,
               right |-> hist.right, torn |-> hist.torn]
  BY <1>1, BenchFacts
<1>7. calls' \subseteq calls \cup {Bench!Validate(p, "none")}
      /\ \A c \in calls : Bench!Saving(c) => c \in calls'
  BY <1>1 DEF Bench!None
<1>8. flow.packs \in SUBSET srv.packs
  BY BenchFacts
<1>9. QED BY <1>2, <1>3, <1>5, <1>7, <1>8, PickStep

LEMMA RefreshStep == ASSUME Bench!Inv, Bench!RefreshValidation PROVE Bench!Inv'
<1>1. /\ flow.pack # "none" /\ srv' = srv
      /\ flow' = [flow EXCEPT !.validating = TRUE]
      /\ calls' = calls \cup {Bench!Validate(flow.pack, "none")}
      /\ hist' = [hist EXCEPT !.sent = @ + 1]
  BY DEF Bench!RefreshValidation, Bench!None
<1>2. PICK u : u = [flow EXCEPT !.validating = TRUE]
  OBVIOUS
<1>3. /\ Bench!UiShape(u) /\ u.packs = flow.packs
      /\ u.pack = flow.pack /\ u.file = flow.file /\ u.saved = flow.saved
      /\ u.loading = flow.loading /\ u.verdict = flow.verdict /\ u.text = flow.text
      /\ u.busy = flow.busy
  BY <1>2, BenchFacts DEF Bench!UiShape
<1>4. flow' = u
  BY <1>1, <1>2
<1>5. Bench!UiShape(flow')
  BY <1>3, <1>4, Zenon
<1>6. hist' = [sent |-> hist.sent + 1, wrote |-> hist.wrote, own |-> hist.own,
               right |-> hist.right, torn |-> hist.torn]
  BY <1>1, BenchFacts
<1>7. hist'.sent = hist.sent + 1 /\ hist'.wrote = hist.wrote
  BY <1>6
<1>8. PICK c : c = Bench!Validate(flow.pack, "none")
  OBVIOUS
<1>9. Bench!Kept(c)' /\ ~Bench!Saving(c)
  BY <1>1, <1>7, <1>8, ValidateKept, BenchFacts DEF Bench!Saving
<1>10. /\ \A d \in calls : Bench!Saving(d) => d \in calls'
       /\ \A d \in calls' : d \in calls \/ (Bench!Kept(d)' /\ ~Bench!Saving(d))
  BY <1>1, <1>8, <1>9
<1>11. QED BY <1>1, <1>3, <1>4, <1>5, <1>6, <1>7, <1>10, BenchFacts, BenchStill

LEMMA ValidateAnsweredStep == ASSUME Bench!Inv, Bench!ValidateAnswered PROVE Bench!Inv'
<1>1. PICK c \in calls :
        /\ c.k = "validate" /\ calls' = calls \ {c}
        /\ \E v \in {c.verdict, "none"} :
             flow' = [flow EXCEPT !.verdict = v, !.validating = FALSE, !.busy = @ \ {c.ends}]
        /\ hist' = [hist EXCEPT !.own = Bench!Own(c)] /\ srv' = srv
  BY DEF Bench!ValidateAnswered, Bench!None
<1>2. PICK v \in {c.verdict, "none"} :
        flow' = [flow EXCEPT !.verdict = v, !.validating = FALSE, !.busy = @ \ {c.ends}]
  BY <1>1
<1>3. PICK u : u = [flow EXCEPT !.verdict = v, !.validating = FALSE, !.busy = @ \ {c.ends}]
  OBVIOUS
<1>4. /\ Bench!UiShape(u) /\ u.packs = flow.packs /\ u.pack = flow.pack /\ u.file = flow.file
      /\ u.saved = flow.saved /\ u.loading = flow.loading /\ u.verdict = v
      /\ u.text = flow.text /\ u.busy = flow.busy \ {c.ends}
  BY <1>3, BenchFacts DEF Bench!UiShape
<1>5. flow' = u
  BY <1>2, <1>3
<1>6. Bench!UiShape(flow')
  BY <1>4, <1>5, Zenon
<1>7. PICK own \in BOOLEAN : own = Bench!Own(c)
  BY DEF Bench!Own
<1>8. hist' = [sent |-> hist.sent, wrote |-> hist.wrote, own |-> own,
               right |-> hist.right, torn |-> hist.torn]
  BY <1>1, <1>7, BenchFacts
<1>9. /\ hist'.sent = hist.sent /\ hist'.wrote = hist.wrote /\ hist'.own = own
      /\ hist'.right = hist.right /\ hist'.torn = hist.torn
  BY <1>8
<1>10. Bench!Shape' /\ Bench!CallsKept'
  <2>1. \A d \in calls' : d \in calls
    BY <1>1
  <2>2. hist' = [sent |-> hist'.sent, wrote |-> hist.wrote, own |-> hist'.own,
                 right |-> hist'.right, torn |-> hist'.torn]
    BY <1>8, <1>9
  <2>3. QED BY <1>1, <1>4, <1>5, <1>6, <1>9, <2>1, <2>2, BenchFacts, BenchShapeStill
<1>11. Bench!OneSave'
  <2>1. CASE c.ends = "save"
    <3>1. \A d \in calls' : ~Bench!Saving(d)
      BY <1>1, <2>1 DEF Bench!Inv, Bench!OneSave, Bench!Saving
    <3>2. QED BY <3>1 DEF Bench!OneSave, Bench!Saving
  <2>2. CASE c.ends # "save"
    BY <1>1, <1>4, <1>5, <2>2, SaveStays
  <2>3. QED BY <2>1, <2>2
<1>12. Bench!TextKept'
  BY <1>1, <1>4, <1>5, <1>9 DEF Bench!Inv, Bench!TextKept
<1>13. Bench!VerdictKept'
  <2>1. own /\ flow.pack # "none" => c.verdict = Bench!Verdict(srv, flow.pack)
    BY <1>1, <1>7 DEF Bench!Inv, Bench!CallsKept, Bench!Kept, Bench!Own
  <2>2. QED BY <1>1, <1>4, <1>5, <1>9, <2>1 DEF Bench!VerdictKept, Bench!None
<1>14. QED
  BY <1>9, <1>10, <1>11, <1>12, <1>13, BenchFacts DEF Bench!Inv

LEMMA SelectFileStep == ASSUME Bench!Inv, Bench!HandleSelectFile PROVE Bench!Inv'
<1>1. PICK f \in Files, asked \in BOOLEAN :
        /\ asked \/ Bench!MayOpen
        /\ flow' = [flow EXCEPT !.file = f, !.text = Bench!Blank, !.saved = Bench!Blank,
                                !.fileErr = FALSE, !.loading = TRUE]
        /\ calls' = calls \cup {[k |-> "read", n |-> hist.sent + 1, pack |-> flow.pack,
                                 file |-> f, text |-> srv.text[flow.pack][f]]}
        /\ hist' = [hist EXCEPT !.sent = @ + 1]
  BY DEF Bench!HandleSelectFile
<1>2. flow.pack # "none" /\ srv' = srv
  BY DEF Bench!HandleSelectFile, Bench!None
<1>3. PICK u : u = [flow EXCEPT !.file = f, !.text = Bench!Blank, !.saved = Bench!Blank,
                                !.fileErr = FALSE, !.loading = TRUE]
  OBVIOUS
<1>4. /\ Bench!UiShape(u) /\ u.packs = flow.packs /\ u.pack = flow.pack /\ u.file = f
      /\ u.loading = TRUE /\ u.verdict = flow.verdict
      /\ u.text = Bench!Blank /\ u.busy = flow.busy
  BY <1>3, BenchFacts DEF Bench!UiShape
<1>5. flow' = u
  BY <1>1, <1>3
<1>6. Bench!UiShape(flow')
  BY <1>4, <1>5, Zenon
<1>8. hist' = [sent |-> hist.sent + 1, wrote |-> hist.wrote, own |-> hist.own,
               right |-> hist.right, torn |-> hist.torn]
  BY <1>1, BenchFacts
<1>9. /\ hist'.sent = hist.sent + 1 /\ hist'.wrote = hist.wrote /\ hist'.own = hist.own
  BY <1>8
<1>10. PICK t : t = srv.text[flow.pack][f]
  OBVIOUS
<1>11. PICK c : c = [k |-> "read", n |-> hist.sent + 1, pack |-> flow.pack, file |-> f,
                     text |-> t]
  OBVIOUS
<1>12. c.k = "read" /\ c.n = hist.sent + 1 /\ c.pack = flow.pack /\ c.file = f /\ c.text = t
  BY <1>11
<1>13. calls' = calls \cup {c}
  BY <1>1, <1>10, <1>11
<1>14. Bench!Kept(c)'
  <2>1. flow.pack \in srv.packs /\ t \in Bench!Texts
    BY <1>2, <1>10, BenchFacts
  <2>2. hist.sent + 1 \in 0..hist'.sent
    BY <1>9, BenchFacts
  <2>3. QED BY <1>2, <1>10, <1>12, <2>1, <2>2 DEF Bench!Kept
<1>15. ~Bench!Saving(c)
  BY <1>12 DEF Bench!Saving
<1>16. Bench!Shape' /\ Bench!CallsKept'
  <2>1. \A d \in calls' : d \in calls \/ Bench!Kept(d)'
    BY <1>13, <1>14
  <2>2. Bench!Blank \in Bench!Texts
    BY DEF Bench!Blank, Bench!Texts
  <2>3. hist' = [sent |-> hist'.sent, wrote |-> hist.wrote, own |-> hist'.own,
                 right |-> hist'.right, torn |-> hist'.torn]
    BY <1>8
  <2>4. QED BY <1>2, <1>4, <1>5, <1>6, <1>9, <2>1, <2>2, <2>3, BenchFacts, BenchShapeStill
<1>17. Bench!OneSave'
  BY <1>4, <1>5, <1>13, <1>15, SaveStays
<1>18. Bench!TextKept'
  BY <1>4, <1>5 DEF Bench!TextKept
<1>19. Bench!VerdictKept'
  BY <1>2, <1>4, <1>5, <1>9, <1>13, VerdictStays
<1>20. QED
  BY <1>9, <1>16, <1>17, <1>18, <1>19, BenchFacts DEF Bench!Inv

LEMMA TypeStep == ASSUME Bench!Inv, Bench!Type PROVE Bench!Inv'
<1>1. PICK v \in Bench!Versions : flow' = [flow EXCEPT !.text.v = v]
  BY DEF Bench!Type
<1>2. srv' = srv /\ calls' = calls /\ hist' = hist
  BY DEF Bench!Type
<1>3. PICK t : t = [flow.text EXCEPT !.v = v]
  OBVIOUS
<1>4. t \in Bench!Texts
  BY <1>3, BenchFacts DEF Bench!Texts
<1>5. PICK u : u = [flow EXCEPT !.text = t]
  OBVIOUS
<1>6. /\ Bench!UiShape(u) /\ u.packs = flow.packs
      /\ u.pack = flow.pack /\ u.file = flow.file /\ u.saved = flow.saved
      /\ u.loading = flow.loading /\ u.verdict = flow.verdict /\ u.text = t
      /\ u.busy = flow.busy
  BY <1>5, BenchFacts DEF Bench!UiShape
<1>7. flow' = u
  BY <1>1, <1>3, <1>5
<1>8. Bench!UiShape(flow')
  BY <1>6, <1>7, Zenon
<1>9. QED BY <1>2, <1>4, <1>6, <1>7, <1>8, BenchFacts, BenchStill

LEMMA ReadStep == ASSUME Bench!Inv, Bench!ReadAnswered PROVE Bench!Inv'
<1>1. PICK c \in calls :
        /\ c.k = "read" /\ calls' = calls \ {c} /\ srv' = srv
        /\ \/ /\ flow' = [flow EXCEPT !.text = c.text, !.saved = c.text, !.loading = FALSE,
                                      !.editable = c.pack \notin Official]
              /\ hist' = [hist EXCEPT !.torn = FALSE,
                   !.right = Bench!Here(c) /\ c.n >= hist.wrote]
           \/ /\ flow' = [flow EXCEPT !.fileErr = TRUE, !.loading = FALSE]
              /\ hist' = [hist EXCEPT !.right = FALSE]
  BY DEF Bench!ReadAnswered
<1>2. Bench!Kept(c) /\ c.k = "read"
  BY <1>1 DEF Bench!Inv, Bench!CallsKept
<1>3. /\ \A d \in calls' : d \in calls
      /\ \A d \in calls : Bench!Saving(d) => d \in calls'
  BY <1>1 DEF Bench!Saving
<1>4. CASE /\ flow' = [flow EXCEPT !.text = c.text, !.saved = c.text, !.loading = FALSE,
                                   !.editable = c.pack \notin Official]
           /\ hist' = [hist EXCEPT !.torn = FALSE,
                !.right = Bench!Here(c) /\ c.n >= hist.wrote]
  <2>1. PICK e \in BOOLEAN : e = (c.pack \notin Official)
    OBVIOUS
  <2>2. PICK u : u = [flow EXCEPT !.text = c.text, !.saved = c.text, !.loading = FALSE,
                                  !.editable = e]
    OBVIOUS
  <2>3. /\ Bench!UiShape(u) /\ u.packs = flow.packs /\ u.pack = flow.pack
        /\ u.file = flow.file /\ u.saved = c.text /\ u.verdict = flow.verdict
        /\ u.text = c.text /\ u.busy = flow.busy
    BY <2>2, BenchFacts DEF Bench!UiShape
  <2>4. flow' = u
    BY <1>4, <2>1, <2>2
  <2>5. Bench!UiShape(flow')
    BY <2>3, <2>4, Zenon
  <2>6. PICK r \in BOOLEAN : r = (Bench!Here(c) /\ c.n >= hist.wrote)
    OBVIOUS
  <2>9. hist' = [sent |-> hist.sent, wrote |-> hist.wrote, own |-> hist.own,
                 right |-> r, torn |-> FALSE]
    BY <1>4, <2>6, BenchFacts
  <2>10. /\ hist'.sent = hist.sent /\ hist'.wrote = hist.wrote /\ hist'.own = hist.own
         /\ hist'.right = r
         /\ hist' = [sent |-> hist'.sent, wrote |-> hist.wrote, own |-> hist'.own,
                     right |-> hist'.right, torn |-> hist'.torn]
    BY <2>9
  <2>11. c.text \in Bench!Texts
    BY <1>2 DEF Bench!Kept
  <2>12. Bench!Shape' /\ Bench!CallsKept'
    BY <1>1, <1>3, <2>3, <2>4, <2>5, <2>10, <2>11, BenchFacts, BenchShapeStill
  <2>13. Bench!OneSave'
    BY <1>3, <2>3, <2>4, SaveStays
  <2>14. Bench!TextKept'
    <3>1. r => c.text = srv.text[flow.pack][flow.file]
      <4>1. r => c.pack = flow.pack /\ c.file = flow.file /\ c.n >= hist.wrote
        BY <2>6, Zenon DEF Bench!Here
      <4>2. c.n >= hist.wrote => c.text = srv.text[c.pack][c.file]
        BY <1>2 DEF Bench!Kept
      <4>3. QED BY <4>1, <4>2, Zenon
    <3>2. r => flow'.saved = srv'.text[flow'.pack][flow'.file]
      BY <1>1, <2>3, <2>4, <3>1
    <3>3. QED BY <2>10, <3>2 DEF Bench!TextKept
  <2>15. Bench!VerdictKept'
    BY <1>1, <1>3, <2>3, <2>4, <2>10, VerdictStays
  <2>16. QED
    BY <2>10, <2>12, <2>13, <2>14, <2>15 DEF Bench!Inv
<1>5. CASE /\ flow' = [flow EXCEPT !.fileErr = TRUE, !.loading = FALSE]
           /\ hist' = [hist EXCEPT !.right = FALSE]
  <2>1. PICK u : u = [flow EXCEPT !.fileErr = TRUE, !.loading = FALSE]
    OBVIOUS
  <2>2. /\ Bench!UiShape(u) /\ u.packs = flow.packs /\ u.pack = flow.pack
        /\ u.file = flow.file /\ u.verdict = flow.verdict
        /\ u.text = flow.text /\ u.busy = flow.busy
    BY <2>1, BenchFacts DEF Bench!UiShape
  <2>3. flow' = u
    BY <1>5, <2>1
  <2>4. Bench!UiShape(flow')
    BY <2>2, <2>3, Zenon
  <2>5. hist' = [sent |-> hist.sent, wrote |-> hist.wrote, own |-> hist.own,
                 right |-> FALSE, torn |-> hist.torn]
    BY <1>5, BenchFacts
  <2>6. /\ hist'.sent = hist.sent /\ hist'.wrote = hist.wrote /\ hist'.own = hist.own
        /\ hist'.right = FALSE
        /\ hist' = [sent |-> hist'.sent, wrote |-> hist.wrote, own |-> hist'.own,
                    right |-> hist'.right, torn |-> hist'.torn]
    BY <2>5
  <2>7. Bench!Shape' /\ Bench!CallsKept'
    BY <1>1, <1>3, <2>2, <2>3, <2>4, <2>6, BenchFacts, BenchShapeStill
  <2>8. Bench!OneSave'
    BY <1>3, <2>2, <2>3, SaveStays
  <2>9. Bench!TextKept'
    BY <2>6 DEF Bench!TextKept
  <2>10. Bench!VerdictKept'
    BY <1>1, <1>3, <2>2, <2>3, <2>6, VerdictStays
  <2>11. QED
    BY <2>6, <2>7, <2>8, <2>9, <2>10, BenchFacts DEF Bench!Inv
<1>6. QED BY <1>1, <1>4, <1>5

\* A text is written on the server.
LEMMA Written ==
  ASSUME Bench!Inv, NEW p \in Bench!AllPacks, NEW f \in Files, NEW t \in Bench!Texts,
         srv' = [srv EXCEPT !.text[p][f] = t]
  PROVE  /\ srv' = [packs |-> srv'.packs, text |-> srv'.text] /\ srv'.packs = srv.packs
         /\ srv'.text \in [Bench!AllPacks -> [Files -> Bench!Texts]]
         /\ srv'.text[p][f] = t
<1>1. PICK txt : txt = [srv.text EXCEPT ![p][f] = t]
  OBVIOUS
<1>2. txt \in [Bench!AllPacks -> [Files -> Bench!Texts]] /\ txt[p][f] = t
  BY <1>1, BenchFacts
<1>3. srv' = [srv EXCEPT !.text = txt]
  BY <1>1
<1>4. srv' = [packs |-> srv.packs, text |-> txt]
  BY <1>3, BenchFacts
<1>5. srv'.packs = srv.packs /\ srv'.text = txt
  BY <1>4
<1>6. QED BY <1>2, <1>4, <1>5

LEMMA SaveStep == ASSUME Bench!Inv, Bench!HandleSave PROVE Bench!Inv'
<1>1. /\ flow.file # "none" /\ "save" \notin flow.busy
      /\ flow' = [flow EXCEPT !.busy = @ \cup {"save"}]
  BY DEF Bench!HandleSave, Bench!Open, Bench!None
<1>2. PICK ok \in BOOLEAN :
        /\ srv' = IF ok THEN [srv EXCEPT !.text[flow.pack][flow.file] = flow.text] ELSE srv
        /\ calls' = calls \cup {[k |-> "save", n |-> hist.sent + 1, pack |-> flow.pack,
                                 file |-> flow.file, ok |-> ok, text |-> flow.text,
                                 verdict |-> Bench!Verdict(srv', flow.pack)]}
        /\ hist' = [hist EXCEPT !.sent = @ + 1, !.wrote = IF ok THEN hist.sent + 1 ELSE @]
  <2>1. PICK ok \in BOOLEAN : ok = (flow.pack \notin Official)
    OBVIOUS
  <2>2. QED BY <2>1 DEF Bench!HandleSave
<1>3. flow.pack \in srv.packs /\ flow.file \in Files /\ flow.pack # "none"
      /\ flow.pack \in Bench!AllPacks
  BY <1>1, BenchFacts
<1>4. PICK u : u = [flow EXCEPT !.busy = @ \cup {"save"}]
  OBVIOUS
<1>5. /\ Bench!UiShape(u) /\ u.packs = flow.packs /\ u.pack = flow.pack
      /\ u.file = flow.file /\ u.verdict = flow.verdict /\ u.saved = flow.saved
      /\ u.loading = flow.loading /\ u.text = flow.text /\ "save" \in u.busy
  BY <1>4, BenchFacts DEF Bench!UiShape
<1>6. flow' = u
  BY <1>1, <1>4
<1>7. Bench!UiShape(flow')
  BY <1>5, <1>6, Zenon
<1>8. PICK wr : wr = IF ok THEN hist.sent + 1 ELSE hist.wrote
  OBVIOUS
<1>9. hist' = [sent |-> hist.sent + 1, wrote |-> wr, own |-> hist.own,
               right |-> hist.right, torn |-> hist.torn]
  BY <1>2, <1>8, BenchFacts
<1>10. /\ hist'.sent = hist.sent + 1 /\ hist'.wrote = wr /\ hist'.own = hist.own
       /\ hist'.right = hist.right /\ hist'.torn = hist.torn
       /\ hist' = [sent |-> hist'.sent, wrote |-> hist'.wrote, own |-> hist'.own,
                   right |-> hist'.right, torn |-> hist'.torn]
  BY <1>9
<1>11. /\ srv' = [packs |-> srv'.packs, text |-> srv'.text] /\ srv'.packs = srv.packs
       /\ srv'.text \in [Bench!AllPacks -> [Files -> Bench!Texts]]
       /\ ok => srv'.text[flow.pack][flow.file] = flow.text
       /\ ~ok => srv' = srv
  <2>1. CASE ok
    <3>1. srv' = [srv EXCEPT !.text[flow.pack][flow.file] = flow.text]
      BY <1>2, <2>1
    <3>2. flow.text \in Bench!Texts
      BY BenchFacts
    <3>3. QED BY <1>3, <2>1, <3>1, <3>2, Written
  <2>2. CASE ~ok
    BY <1>2, <2>2, BenchFacts
  <2>3. QED BY <2>1, <2>2
<1>12. PICK v : v = Bench!Verdict(srv', flow.pack)
  OBVIOUS
<1>13. PICK c : c = [k |-> "save", n |-> hist.sent + 1, pack |-> flow.pack,
                     file |-> flow.file, ok |-> ok, text |-> flow.text, verdict |-> v]
  OBVIOUS
<1>14. /\ c.k = "save" /\ c.pack = flow.pack /\ c.file = flow.file /\ c.ok = ok
       /\ c.text = flow.text /\ c.verdict = v
  BY <1>13
<1>15. calls' = calls \cup {c}
  BY <1>2, <1>12, <1>13
<1>16. \A d \in calls : ~Bench!Saving(d)
  BY <1>1 DEF Bench!Inv, Bench!OneSave
<1>17. hist'.wrote \in 0..hist'.sent /\ hist'.sent \in Nat
  BY <1>8, <1>10, BenchFacts
<1>18. Bench!Shape'
  BY <1>3, <1>5, <1>6, <1>7, <1>10, <1>11, <1>17, BenchFacts DEF Bench!Shape, Bench!None
<1>19. Bench!CallsKept'
  <2>1. Bench!Kept(c)'
    BY <1>3, <1>11, <1>12, <1>14 DEF Bench!Kept
  <2>2. ASSUME NEW d \in calls PROVE Bench!Kept(d)'
    <3>1. Bench!Kept(d) /\ d.k # "save" /\ hist.sent \in Nat
      BY <1>16, BenchFacts DEF Bench!Inv, Bench!CallsKept, Bench!Saving
    <3>2. d.n \in 0..hist.sent => d.n \in 0..hist'.sent /\ (ok => ~(d.n >= hist'.wrote))
      BY <1>8, <1>10, <3>1
    <3>3. ~ok => hist'.wrote = hist.wrote /\ srv' = srv
      BY <1>8, <1>10, <1>11
    <3>4. QED BY <1>11, <3>1, <3>2, <3>3, Zenon DEF Bench!Kept
  <2>3. QED BY <1>15, <2>1, <2>2 DEF Bench!CallsKept
<1>20. Bench!OneSave'
  <2>1. \A d \in calls' : Bench!Saving(d) => d = c
    BY <1>15, <1>16
  <2>2. QED BY <1>5, <1>6, <2>1 DEF Bench!OneSave, Bench!Saving
<1>21. Bench!TextKept'
  <2>1. CASE ok
    BY <1>14, <1>15, <2>1 DEF Bench!TextKept
  <2>2. CASE ~ok
    <3>1. calls \subseteq calls' /\ srv' = srv
      BY <1>11, <1>15, <2>2
    <3>2. QED BY <1>5, <1>6, <1>10, <3>1 DEF Bench!Inv, Bench!TextKept
  <2>3. QED BY <2>1, <2>2
<1>22. Bench!VerdictKept'
  <2>1. CASE ok
    BY <1>14, <1>15, <2>1 DEF Bench!VerdictKept, Bench!Writing, Bench!Saving
  <2>2. CASE ~ok
    BY <1>5, <1>6, <1>10, <1>11, <1>15, <2>2, VerdictStays
  <2>3. QED BY <2>1, <2>2
<1>23. QED
  BY <1>10, <1>18, <1>19, <1>20, <1>21, <1>22, BenchFacts DEF Bench!Inv

LEMMA SaveAnsweredStep == ASSUME Bench!Inv, Bench!SaveAnswered PROVE Bench!Inv'
<1>1. PICK c \in calls :
        /\ c.k = "save" /\ srv' = srv
        /\ \/ /\ c.ok /\ calls' = calls \ {c}
              /\ flow' = [flow EXCEPT !.saved = c.text, !.verdict = c.verdict,
                                      !.busy = @ \ {"save"}]
              /\ hist' = [hist EXCEPT !.own = Bench!Own(c), !.right = @ /\ Bench!Here(c)]
           \/ /\ c.ok
              /\ flow' = [flow EXCEPT !.saved = c.text, !.validating = TRUE]
              /\ hist' = [hist EXCEPT !.sent = @ + 1, !.right = @ /\ Bench!Here(c)]
              /\ calls' = (calls \ {c}) \cup
                   {[k |-> "validate", n |-> hist.sent + 1, pack |-> c.pack, ends |-> "save",
                     verdict |-> Bench!Verdict(srv, c.pack)]}
           \/ /\ calls' = calls \ {c} /\ flow' = [flow EXCEPT !.busy = @ \ {"save"}]
              /\ hist' = [hist EXCEPT !.torn = @ \/ c.ok, !.own = @ /\ ~c.ok]
  BY DEF Bench!SaveAnswered, Bench!Saved, Bench!Judged
<1>2. /\ c.pack \in srv.packs
      /\ c.ok => c.text = srv.text[c.pack][c.file] /\ c.verdict = Bench!Verdict(srv, c.pack)
  BY <1>1 DEF Bench!Inv, Bench!CallsKept, Bench!Kept
<1>3. "save" \in flow.busy /\ \A d \in calls \ {c} : ~Bench!Saving(d)
  BY <1>1 DEF Bench!Inv, Bench!OneSave, Bench!Saving
<1>4. CASE /\ c.ok /\ calls' = calls \ {c}
           /\ flow' = [flow EXCEPT !.saved = c.text, !.verdict = c.verdict,
                                   !.busy = @ \ {"save"}]
           /\ hist' = [hist EXCEPT !.own = Bench!Own(c), !.right = @ /\ Bench!Here(c)]
  <2>1. PICK u : u = [flow EXCEPT !.saved = c.text, !.verdict = c.verdict,
                                  !.busy = @ \ {"save"}]
    OBVIOUS
  <2>2. /\ Bench!UiShape(u) /\ u.packs = flow.packs /\ u.pack = flow.pack
        /\ u.file = flow.file /\ u.saved = c.text /\ u.verdict = c.verdict
        /\ u.text = flow.text
    BY <2>1, BenchFacts DEF Bench!UiShape
  <2>3. flow' = u
    BY <1>4, <2>1
  <2>4. Bench!UiShape(flow')
    BY <2>2, <2>3, Zenon
  <2>5. PICK own \in BOOLEAN, r \in BOOLEAN :
          own = Bench!Own(c) /\ r = (hist.right /\ Bench!Here(c))
    BY DEF Bench!Own
  <2>6. hist' = [sent |-> hist.sent, wrote |-> hist.wrote, own |-> own,
                 right |-> r, torn |-> hist.torn]
    BY <1>4, <2>5, BenchFacts
  <2>7. /\ hist'.sent = hist.sent /\ hist'.own = own
        /\ hist'.right = r
        /\ hist' = [sent |-> hist'.sent, wrote |-> hist.wrote, own |-> hist'.own,
                    right |-> hist'.right, torn |-> hist'.torn]
    BY <2>6
  <2>8. \A d \in calls' : d \in calls /\ ~Bench!Saving(d)
    BY <1>3, <1>4
  <2>9. Bench!Shape' /\ Bench!CallsKept'
    BY <1>1, <2>2, <2>3, <2>4, <2>7, <2>8, BenchFacts, BenchShapeStill
  <2>10. Bench!OneSave'
    BY <2>8 DEF Bench!OneSave, Bench!Saving
  <2>11. Bench!TextKept'
    <3>1. r => c.pack = flow.pack /\ c.file = flow.file
      BY <2>5, Zenon DEF Bench!Here
    <3>2. c.text = srv.text[c.pack][c.file]
      BY <1>2, <1>4
    <3>3. r => flow'.saved = srv'.text[flow'.pack][flow'.file]
      BY <1>1, <2>2, <2>3, <3>1, <3>2
    <3>4. QED BY <2>7, <3>3 DEF Bench!TextKept
  <2>12. Bench!VerdictKept'
    <3>1. own => c.pack = flow.pack
      BY <2>5, Zenon DEF Bench!Own
    <3>2. c.verdict = Bench!Verdict(srv, c.pack)
      BY <1>2, <1>4
    <3>3. own => flow'.verdict = Bench!Verdict(srv', flow'.pack)
      BY <1>1, <2>2, <2>3, <3>1, <3>2
    <3>4. QED BY <2>7, <3>3 DEF Bench!VerdictKept
  <2>13. QED
    BY <2>7, <2>9, <2>10, <2>11, <2>12, BenchFacts DEF Bench!Inv
<1>5. CASE /\ c.ok
           /\ flow' = [flow EXCEPT !.saved = c.text, !.validating = TRUE]
           /\ hist' = [hist EXCEPT !.sent = @ + 1, !.right = @ /\ Bench!Here(c)]
           /\ calls' = (calls \ {c}) \cup
                {[k |-> "validate", n |-> hist.sent + 1, pack |-> c.pack, ends |-> "save",
                  verdict |-> Bench!Verdict(srv, c.pack)]}
  <2>1. PICK u : u = [flow EXCEPT !.saved = c.text, !.validating = TRUE]
    OBVIOUS
  <2>2. /\ Bench!UiShape(u) /\ u.packs = flow.packs /\ u.pack = flow.pack
        /\ u.file = flow.file /\ u.saved = c.text /\ u.verdict = flow.verdict
        /\ u.text = flow.text /\ u.busy = flow.busy
    BY <2>1, BenchFacts DEF Bench!UiShape
  <2>3. flow' = u
    BY <1>5, <2>1
  <2>4. Bench!UiShape(flow')
    BY <2>2, <2>3, Zenon
  <2>5. PICK r \in BOOLEAN : r = (hist.right /\ Bench!Here(c))
    OBVIOUS
  <2>6. hist' = [sent |-> hist.sent + 1, wrote |-> hist.wrote, own |-> hist.own,
                 right |-> r, torn |-> hist.torn]
    BY <1>5, <2>5, BenchFacts
  <2>7. /\ hist'.sent = hist.sent + 1 /\ hist'.wrote = hist.wrote
        /\ hist'.right = r
        /\ hist' = [sent |-> hist'.sent, wrote |-> hist.wrote, own |-> hist'.own,
                    right |-> hist'.right, torn |-> hist'.torn]
    BY <2>6
  <2>8. PICK v : v = Bench!Verdict(srv, c.pack)
    OBVIOUS
  <2>9. PICK e : e = [k |-> "validate", n |-> hist.sent + 1, pack |-> c.pack, ends |-> "save",
                      verdict |-> v]
    OBVIOUS
  <2>10. /\ e.k = "validate" /\ e.n = hist.sent + 1 /\ e.pack = c.pack /\ e.ends = "save"
         /\ e.verdict = v
    BY <2>9
  <2>11. calls' = (calls \ {c}) \cup {e}
    BY <1>5, <2>8, <2>9
  <2>12. Bench!Kept(e)'
    <3>1. hist.sent + 1 \in 0..hist'.sent
      BY <2>7, BenchFacts
    <3>2. QED BY <1>1, <1>2, <2>8, <2>10, <3>1 DEF Bench!Kept
  <2>13. Bench!Shape' /\ Bench!CallsKept'
    <3>1. \A d \in calls' : d \in calls \/ Bench!Kept(d)'
      BY <2>11, <2>12
    <3>2. QED BY <1>1, <2>2, <2>3, <2>4, <2>7, <3>1, BenchFacts, BenchShapeStill
  <2>14. Bench!OneSave'
    <3>1. \A d \in calls' : Bench!Saving(d) => d = e
      BY <1>3, <2>11
    <3>2. QED BY <1>3, <2>2, <2>3, <3>1 DEF Bench!OneSave, Bench!Saving
  <2>15. Bench!TextKept'
    <3>1. r => c.pack = flow.pack /\ c.file = flow.file
      BY <2>5, Zenon DEF Bench!Here
    <3>2. c.text = srv.text[c.pack][c.file]
      BY <1>2, <1>5
    <3>3. r => flow'.saved = srv'.text[flow'.pack][flow'.file]
      BY <1>1, <2>2, <2>3, <3>1, <3>2
    <3>4. QED BY <2>7, <3>3 DEF Bench!TextKept
  <2>16. Bench!VerdictKept'
    <3>1. e \in calls' /\ Bench!Writing(e)
      BY <2>10, <2>11 DEF Bench!Writing, Bench!Saving
    <3>2. QED BY <3>1 DEF Bench!VerdictKept, Bench!Writing, Bench!Saving
  <2>17. QED
    BY <2>7, <2>13, <2>14, <2>15, <2>16, BenchFacts DEF Bench!Inv
<1>6. CASE /\ calls' = calls \ {c} /\ flow' = [flow EXCEPT !.busy = @ \ {"save"}]
           /\ hist' = [hist EXCEPT !.torn = @ \/ c.ok, !.own = @ /\ ~c.ok]
  <2>1. PICK u : u = [flow EXCEPT !.busy = @ \ {"save"}]
    OBVIOUS
  <2>2. /\ Bench!UiShape(u) /\ u.packs = flow.packs /\ u.pack = flow.pack
        /\ u.file = flow.file /\ u.saved = flow.saved /\ u.verdict = flow.verdict
        /\ u.text = flow.text /\ u.loading = flow.loading
    BY <2>1, BenchFacts DEF Bench!UiShape
  <2>3. flow' = u
    BY <1>6, <2>1
  <2>4. Bench!UiShape(flow')
    BY <2>2, <2>3, Zenon
  <2>5. PICK own \in BOOLEAN, t \in BOOLEAN :
          own = (hist.own /\ ~c.ok) /\ t = (hist.torn \/ c.ok)
    OBVIOUS
  <2>6. hist' = [sent |-> hist.sent, wrote |-> hist.wrote, own |-> own,
                 right |-> hist.right, torn |-> t]
    BY <1>6, <2>5, BenchFacts
  <2>7. /\ hist'.sent = hist.sent /\ hist'.own = own /\ hist'.right = hist.right
        /\ hist'.torn = t
        /\ hist' = [sent |-> hist'.sent, wrote |-> hist.wrote, own |-> hist'.own,
                    right |-> hist'.right, torn |-> hist'.torn]
    BY <2>6
  <2>8. \A d \in calls' : d \in calls /\ ~Bench!Saving(d)
    BY <1>3, <1>6
  <2>9. Bench!Shape' /\ Bench!CallsKept'
    BY <1>1, <2>2, <2>3, <2>4, <2>7, <2>8, BenchFacts, BenchShapeStill
  <2>10. Bench!OneSave'
    BY <2>8 DEF Bench!OneSave, Bench!Saving
  <2>11. ~c.ok => \A d \in calls : ~Bench!Writing(d)
    BY <1>1, <1>3 DEF Bench!Writing
  <2>12. Bench!TextKept'
    <3>1. ~t => ~hist.torn /\ ~c.ok
      BY <2>5, Zenon
    <3>2. ASSUME flow.file # "none", ~flow.loading, hist.right, ~t
          PROVE  flow.saved = srv.text[flow.pack][flow.file]
      <4>1. \A d \in calls : ~(d.k = "save" /\ d.ok)
        BY <2>11, <3>1, <3>2 DEF Bench!Writing, Bench!Saving
      <4>2. QED BY <3>1, <3>2, <4>1 DEF Bench!Inv, Bench!TextKept, Bench!None
    <3>3. QED BY <1>1, <2>2, <2>3, <2>7, <3>2 DEF Bench!TextKept, Bench!None
  <2>13. Bench!VerdictKept'
    <3>1. own => hist.own /\ ~c.ok
      BY <2>5, Zenon
    <3>2. ASSUME own, flow.pack # "none"
          PROVE  flow.verdict \in {"none", Bench!Verdict(srv, flow.pack)}
      BY <2>11, <3>1, <3>2 DEF Bench!Inv, Bench!VerdictKept, Bench!None
    <3>3. QED BY <1>1, <2>2, <2>3, <2>7, <3>2 DEF Bench!VerdictKept, Bench!None
  <2>14. QED
    BY <2>7, <2>9, <2>10, <2>12, <2>13, BenchFacts DEF Bench!Inv
<1>7. QED BY <1>1, <1>4, <1>5, <1>6

\* A step that starts or ends a job other than a save, or lists one more pack.
LEMMA BusyStep ==
  ASSUME Bench!Inv, NEW packs, NEW busy,
         flow' = [flow EXCEPT !.packs = packs, !.busy = busy],
         srv' = [packs |-> srv'.packs, text |-> srv'.text], srv.packs \subseteq srv'.packs,
         srv'.packs \subseteq Bench!AllPacks, srv'.text \in [Bench!AllPacks -> [Files -> Bench!Texts]],
         \A p \in srv.packs : srv'.text[p] = srv.text[p], packs \subseteq srv'.packs,
         hist' = [hist EXCEPT !.sent = @ + 1] \/ hist' = hist,
         "save" \in flow.busy => "save" \in busy,
         \A c \in calls : Bench!Saving(c) => c \in calls',
         \A c \in calls' : c \in calls \/ (Bench!Kept(c)' /\ ~Bench!Saving(c))
  PROVE  Bench!Inv'
<1>1. PICK u : u = [flow EXCEPT !.packs = packs, !.busy = busy]
  OBVIOUS
<1>2. /\ Bench!UiShape(u) /\ u.packs = packs
      /\ u.pack = flow.pack /\ u.file = flow.file /\ u.saved = flow.saved
      /\ u.loading = flow.loading /\ u.verdict = flow.verdict /\ u.text = flow.text
      /\ u.busy = busy
  BY <1>1, BenchFacts DEF Bench!UiShape
<1>3. flow' = u
  BY <1>1
<1>4. Bench!UiShape(flow')
  BY <1>2, <1>3, Zenon
<1>5. /\ hist' = [sent |-> hist'.sent, wrote |-> hist.wrote, own |-> hist.own,
                  right |-> hist.right, torn |-> hist.torn]
      /\ hist'.sent \in {hist.sent, hist.sent + 1}
  <2>1. CASE hist' = hist
    BY <2>1, BenchFacts
  <2>2. CASE hist' = [hist EXCEPT !.sent = @ + 1]
    <3>1. hist' = [sent |-> hist.sent + 1, wrote |-> hist.wrote, own |-> hist.own,
                   right |-> hist.right, torn |-> hist.torn]
      BY <2>2, BenchFacts
    <3>2. hist'.sent = hist.sent + 1
      BY <3>1
    <3>3. QED BY <3>1, <3>2
  <2>3. QED BY <2>1, <2>2
<1>6. flow.text \in Bench!Texts
  BY BenchFacts
<1>7. QED BY <1>2, <1>3, <1>4, <1>5, <1>6, BenchAside

LEMMA FlowAgain ==
  ASSUME Bench!Inv, NEW busy
  PROVE  /\ [flow EXCEPT !.busy = busy] = [flow EXCEPT !.packs = flow.packs, !.busy = busy]
         /\ flow.packs \subseteq srv.packs
BY BenchFacts DEF Bench!UiShape

LEMMA SrvStill ==
  ASSUME Bench!Inv, srv' = srv
  PROVE  /\ srv' = [packs |-> srv'.packs, text |-> srv'.text] /\ srv.packs \subseteq srv'.packs
         /\ srv'.packs \subseteq Bench!AllPacks
         /\ srv'.text \in [Bench!AllPacks -> [Files -> Bench!Texts]]
         /\ \A p \in srv.packs : srv'.text[p] = srv.text[p]
BY BenchFacts

LEMMA CopyStep == ASSUME Bench!Inv, Bench!HandleCopyToLocal PROVE Bench!Inv'
<1>1. /\ flow.file # "none" /\ Copy \notin srv.packs
      /\ flow' = [flow EXCEPT !.busy = @ \cup {"copy"}]
      /\ srv' = [srv EXCEPT !.packs = @ \cup {Copy}, !.text[Copy] = srv.text[flow.pack]]
      /\ calls' = calls \cup {[k |-> "copy", n |-> hist.sent + 1]}
      /\ hist' = [hist EXCEPT !.sent = @ + 1]
  BY DEF Bench!HandleCopyToLocal, Bench!Open, Bench!None
<1>2. flow.pack \in srv.packs /\ flow.pack \in Bench!AllPacks /\ Copy \in Bench!AllPacks
  BY <1>1, BenchFacts DEF Bench!AllPacks
<1>3. PICK txt : txt = [srv.text EXCEPT ![Copy] = srv.text[flow.pack]]
  OBVIOUS
<1>4. srv' = [packs |-> srv.packs \cup {Copy}, text |-> txt]
  <2>1. srv' = [srv EXCEPT !.packs = srv.packs \cup {Copy}, !.text = txt]
    BY <1>1, <1>3
  <2>2. QED BY <2>1, BenchFacts
<1>5. /\ txt \in [Bench!AllPacks -> [Files -> Bench!Texts]]
      /\ \A p \in srv.packs : txt[p] = srv.text[p]
  BY <1>1, <1>2, <1>3, BenchFacts
<1>6. srv'.packs = srv.packs \cup {Copy} /\ srv'.text = txt
  BY <1>4
<1>7. PICK c : c = [k |-> "copy", n |-> hist.sent + 1]
  OBVIOUS
<1>8. c.k = "copy"
  BY <1>7
<1>9. Bench!Kept(c)' /\ ~Bench!Saving(c)
  BY <1>6, <1>8 DEF Bench!Kept, Bench!Saving
<1>10. /\ \A d \in calls : Bench!Saving(d) => d \in calls'
       /\ \A d \in calls' : d \in calls \/ (Bench!Kept(d)' /\ ~Bench!Saving(d))
  BY <1>1, <1>7, <1>9
<1>11. flow' = [flow EXCEPT !.packs = flow.packs, !.busy = flow.busy \cup {"copy"}]
  BY <1>1, FlowAgain
<1>12. /\ srv' = [packs |-> srv'.packs, text |-> srv'.text] /\ srv.packs \subseteq srv'.packs
       /\ srv'.packs \subseteq Bench!AllPacks
       /\ srv'.text \in [Bench!AllPacks -> [Files -> Bench!Texts]]
       /\ \A p \in srv.packs : srv'.text[p] = srv.text[p] /\ flow.packs \subseteq srv'.packs
  BY <1>2, <1>4, <1>5, <1>6, BenchFacts
<1>13. flow.packs \subseteq srv'.packs
  BY <1>6, BenchFacts
<1>14. QED BY <1>1, <1>10, <1>11, <1>12, <1>13, BusyStep

LEMMA CopyAnsweredStep == ASSUME Bench!Inv, Bench!CopyAnswered PROVE Bench!Inv'
<1>1. PICK c \in calls :
        /\ c.k = "copy" /\ srv' = srv
        /\ \/ /\ flow' = [Bench!Picked(Copy) EXCEPT !.packs = @ \cup {Copy}]
              /\ calls' = (calls \ {c}) \cup {Bench!Validate(Copy, "copy")}
              /\ hist' = [hist EXCEPT !.sent = @ + 1]
           \/ /\ calls' = calls \ {c} /\ flow' = [flow EXCEPT !.busy = @ \ {"copy"}]
              /\ hist' = hist
  BY DEF Bench!CopyAnswered
<1>2. Copy \in srv.packs /\ ~Bench!Saving(c)
  BY <1>1 DEF Bench!Inv, Bench!CallsKept, Bench!Kept, Bench!Saving
<1>3. CASE /\ flow' = [Bench!Picked(Copy) EXCEPT !.packs = @ \cup {Copy}]
           /\ calls' = (calls \ {c}) \cup {Bench!Validate(Copy, "copy")}
           /\ hist' = [hist EXCEPT !.sent = @ + 1]
  <2>1. PICK packs : packs = Bench!Picked(Copy).packs \cup {Copy}
    OBVIOUS
  <2>2. packs \in SUBSET srv.packs
    BY <1>2, <2>1, BenchFacts DEF Bench!Picked, Bench!UiShape
  <2>3. flow' = [Bench!Picked(Copy) EXCEPT !.packs = packs]
    BY <1>3, <2>1
  <2>4. flow' = [packs |-> packs, pack |-> Copy, file |-> "none", text |-> Bench!Blank,
                 saved |-> Bench!Blank, editable |-> flow.editable, loading |-> flow.loading,
                 fileErr |-> flow.fileErr, busy |-> flow.busy, verdict |-> "none",
                 validating |-> TRUE]
    BY <2>3, PickedShape
  <2>7. hist' = [sent |-> hist.sent + 1, wrote |-> hist.wrote, own |-> hist.own,
                 right |-> hist.right, torn |-> hist.torn]
    BY <1>3, BenchFacts
  <2>9. /\ calls' \subseteq calls \cup {Bench!Validate(Copy, "copy")}
        /\ \A d \in calls : Bench!Saving(d) => d \in calls'
    BY <1>2, <1>3
  <2>10. QED BY <1>1, <1>2, <2>2, <2>4, <2>7, <2>9, PickStep
<1>4. CASE /\ calls' = calls \ {c} /\ flow' = [flow EXCEPT !.busy = @ \ {"copy"}]
           /\ hist' = hist
  <2>1. flow' = [flow EXCEPT !.packs = flow.packs, !.busy = flow.busy \ {"copy"}]
        /\ flow.packs \subseteq srv'.packs
    BY <1>1, <1>4, FlowAgain
  <2>2. /\ \A d \in calls : Bench!Saving(d) => d \in calls'
        /\ \A d \in calls' : d \in calls
    BY <1>2, <1>4
  <2>3. /\ srv' = [packs |-> srv'.packs, text |-> srv'.text] /\ srv.packs \subseteq srv'.packs
        /\ srv'.packs \subseteq Bench!AllPacks
        /\ srv'.text \in [Bench!AllPacks -> [Files -> Bench!Texts]]
        /\ \A p \in srv.packs : srv'.text[p] = srv.text[p]
    BY <1>1, SrvStill
  <2>4. PICK busy : busy = flow.busy \ {"copy"}
    OBVIOUS
  <2>5. "save" \in flow.busy => "save" \in busy
    BY <2>4
  <2>6. QED BY <1>4, <2>1, <2>2, <2>3, <2>4, <2>5, BusyStep
<1>5. QED BY <1>1, <1>3, <1>4

LEMMA ImportStep == ASSUME Bench!Inv, Bench!HandleImport PROVE Bench!Inv'
<1>1. /\ flow' = [flow EXCEPT !.busy = @ \cup {"import"}]
      /\ hist' = [hist EXCEPT !.sent = @ + 1]
  BY DEF Bench!HandleImport
<1>2. PICK ok \in BOOLEAN :
        /\ srv' = IF ok THEN [srv EXCEPT !.packs = @ \cup {Imported}] ELSE srv
        /\ calls' = calls \cup {[k |-> "import", n |-> hist.sent + 1, ok |-> ok,
                                 dirty |-> Bench!Dirty]}
  BY DEF Bench!HandleImport
<1>3. /\ srv' = [packs |-> srv'.packs, text |-> srv'.text]
      /\ srv'.packs = srv.packs \cup (IF ok THEN {Imported} ELSE {}) /\ srv'.text = srv.text
  <2>1. CASE ok
    <3>1. srv' = [packs |-> srv.packs \cup {Imported}, text |-> srv.text]
      BY <1>2, <2>1, BenchFacts
    <3>2. QED BY <2>1, <3>1
  <2>2. CASE ~ok
    BY <1>2, <2>2, BenchFacts
  <2>3. QED BY <2>1, <2>2
<1>4. PICK dirty \in BOOLEAN : dirty = Bench!Dirty
  BY DEF Bench!Dirty
<1>5. PICK c : c = [k |-> "import", n |-> hist.sent + 1, ok |-> ok, dirty |-> dirty]
  OBVIOUS
<1>6. c.k = "import" /\ c.ok = ok
  BY <1>5
<1>7. Bench!Kept(c)' /\ ~Bench!Saving(c)
  BY <1>3, <1>6 DEF Bench!Kept, Bench!Saving
<1>8. calls' = calls \cup {c}
  BY <1>2, <1>4, <1>5
<1>9. /\ \A d \in calls : Bench!Saving(d) => d \in calls'
      /\ \A d \in calls' : d \in calls \/ (Bench!Kept(d)' /\ ~Bench!Saving(d))
  BY <1>7, <1>8
<1>10. flow' = [flow EXCEPT !.packs = flow.packs, !.busy = flow.busy \cup {"import"}]
  BY <1>1, FlowAgain
<1>11. /\ srv.packs \subseteq srv'.packs /\ srv'.packs \subseteq Bench!AllPacks
       /\ srv'.text \in [Bench!AllPacks -> [Files -> Bench!Texts]]
       /\ \A p \in srv.packs : srv'.text[p] = srv.text[p]
       /\ flow.packs \subseteq srv'.packs
  BY <1>3, BenchFacts DEF Bench!AllPacks
<1>12. QED BY <1>1, <1>3, <1>9, <1>10, <1>11, BusyStep

LEMMA ImportAnsweredStep == ASSUME Bench!Inv, Bench!ImportAnswered PROVE Bench!Inv'
<1>1. PICK c \in calls :
        /\ c.k = "import" /\ srv' = srv
        /\ \/ /\ c.ok
              /\ flow' = [Bench!Picked(Imported) EXCEPT !.packs = @ \cup {Imported}]
              /\ calls' = (calls \ {c}) \cup {Bench!Validate(Imported, "import")}
              /\ hist' = [hist EXCEPT !.sent = @ + 1]
           \/ /\ c.ok /\ calls' = calls \ {c} /\ hist' = hist
              /\ flow' = [flow EXCEPT !.packs = @ \cup {Imported}, !.busy = @ \ {"import"}]
           \/ /\ calls' = calls \ {c} /\ flow' = [flow EXCEPT !.busy = @ \ {"import"}]
              /\ hist' = hist
  BY DEF Bench!ImportAnswered
<1>2. (c.ok => Imported \in srv.packs) /\ ~Bench!Saving(c)
  BY <1>1 DEF Bench!Inv, Bench!CallsKept, Bench!Kept, Bench!Saving
<1>3. CASE /\ c.ok
           /\ flow' = [Bench!Picked(Imported) EXCEPT !.packs = @ \cup {Imported}]
           /\ calls' = (calls \ {c}) \cup {Bench!Validate(Imported, "import")}
           /\ hist' = [hist EXCEPT !.sent = @ + 1]
  <2>1. PICK packs : packs = Bench!Picked(Imported).packs \cup {Imported}
    OBVIOUS
  <2>2. packs \in SUBSET srv.packs
    BY <1>2, <1>3, <2>1, BenchFacts DEF Bench!Picked, Bench!UiShape
  <2>3. flow' = [Bench!Picked(Imported) EXCEPT !.packs = packs]
    BY <1>3, <2>1
  <2>4. flow' = [packs |-> packs, pack |-> Imported, file |-> "none", text |-> Bench!Blank,
                 saved |-> Bench!Blank, editable |-> flow.editable, loading |-> flow.loading,
                 fileErr |-> flow.fileErr, busy |-> flow.busy, verdict |-> "none",
                 validating |-> TRUE]
    BY <2>3, PickedShape
  <2>7. hist' = [sent |-> hist.sent + 1, wrote |-> hist.wrote, own |-> hist.own,
                 right |-> hist.right, torn |-> hist.torn]
    BY <1>3, BenchFacts
  <2>9. /\ calls' \subseteq calls \cup {Bench!Validate(Imported, "import")}
        /\ \A d \in calls : Bench!Saving(d) => d \in calls'
    BY <1>2, <1>3
  <2>10. Imported \in srv.packs
    BY <1>2, <1>3
  <2>11. QED BY <1>1, <2>2, <2>4, <2>7, <2>9, <2>10, PickStep
<1>4. CASE /\ c.ok /\ calls' = calls \ {c} /\ hist' = hist
           /\ flow' = [flow EXCEPT !.packs = @ \cup {Imported}, !.busy = @ \ {"import"}]
  <2>1. /\ flow' = [flow EXCEPT !.packs = flow.packs \cup {Imported},
                                !.busy = flow.busy \ {"import"}]
        /\ flow.packs \cup {Imported} \subseteq srv'.packs
    BY <1>1, <1>2, <1>4, BenchFacts
  <2>2. /\ \A d \in calls : Bench!Saving(d) => d \in calls'
        /\ \A d \in calls' : d \in calls
    BY <1>2, <1>4
  <2>3. /\ srv' = [packs |-> srv'.packs, text |-> srv'.text] /\ srv.packs \subseteq srv'.packs
        /\ srv'.packs \subseteq Bench!AllPacks
        /\ srv'.text \in [Bench!AllPacks -> [Files -> Bench!Texts]]
        /\ \A p \in srv.packs : srv'.text[p] = srv.text[p]
    BY <1>1, SrvStill
  <2>4. PICK busy : busy = flow.busy \ {"import"}
    OBVIOUS
  <2>5. "save" \in flow.busy => "save" \in busy
    BY <2>4
  <2>6. QED BY <1>4, <2>1, <2>2, <2>3, <2>4, <2>5, BusyStep
<1>5. CASE /\ calls' = calls \ {c} /\ flow' = [flow EXCEPT !.busy = @ \ {"import"}]
           /\ hist' = hist
  <2>1. flow' = [flow EXCEPT !.packs = flow.packs, !.busy = flow.busy \ {"import"}]
        /\ flow.packs \subseteq srv'.packs
    BY <1>1, <1>5, FlowAgain
  <2>2. /\ \A d \in calls : Bench!Saving(d) => d \in calls'
        /\ \A d \in calls' : d \in calls
    BY <1>2, <1>5
  <2>3. /\ srv' = [packs |-> srv'.packs, text |-> srv'.text] /\ srv.packs \subseteq srv'.packs
        /\ srv'.packs \subseteq Bench!AllPacks
        /\ srv'.text \in [Bench!AllPacks -> [Files -> Bench!Texts]]
        /\ \A p \in srv.packs : srv'.text[p] = srv.text[p]
    BY <1>1, SrvStill
  <2>4. PICK busy : busy = flow.busy \ {"import"}
    OBVIOUS
  <2>5. "save" \in flow.busy => "save" \in busy
    BY <2>4
  <2>6. QED BY <1>5, <2>1, <2>2, <2>3, <2>4, <2>5, BusyStep
<1>6. QED BY <1>1, <1>3, <1>4, <1>5

LEMMA PublishStep ==
  ASSUME Bench!Inv, Bench!HandlePublishToWorkshop \/ Bench!Published
  PROVE  Bench!Inv'
<1>1. PICK busy \in {flow.busy \cup {"publish"}, flow.busy \ {"publish"}} :
        /\ flow' = [flow EXCEPT !.busy = busy]
        /\ srv' = srv /\ calls' = calls /\ hist' = hist
  BY DEF Bench!HandlePublishToWorkshop, Bench!Published
<1>2. flow' = [flow EXCEPT !.packs = flow.packs, !.busy = busy] /\ flow.packs \subseteq srv'.packs
  BY <1>1, FlowAgain
<1>3. "save" \in flow.busy => "save" \in busy
  BY <1>1
<1>4. QED BY <1>1, <1>2, <1>3, SrvStill, BusyStep

LEMMA BenchStep == ASSUME Bench!Inv, [Bench!Next]_(Bench!vars) PROVE Bench!Inv'
<1>1. CASE UNCHANGED Bench!vars
  <2>1. flow' = flow /\ srv' = srv /\ calls' = calls /\ hist' = hist
    BY <1>1 DEF Bench!vars
  <2>2. QED
    BY <2>1 DEF Bench!Inv, Bench!Shape, Bench!UiShape, Bench!CallsKept, Bench!Kept,
         Bench!OneSave, Bench!Saving, Bench!TextKept, Bench!VerdictKept, Bench!Writing,
         Bench!Verdict
<1>2. CASE Bench!Next
  BY <1>2, ListStep, SelectPackStep, RefreshStep, ValidateAnsweredStep, SelectFileStep,
     ReadStep, TypeStep, SaveStep, SaveAnsweredStep, CopyStep, CopyAnsweredStep, ImportStep,
     ImportAnsweredStep, PublishStep DEF Bench!Next
<1>3. QED BY <1>1, <1>2

LEMMA BenchHolds ==
  Bench!Inv => Bench!CleanMeansSaved /\ Bench!VerdictIsOwn
<1> SUFFICES ASSUME Bench!Inv
             PROVE  Bench!CleanMeansSaved /\ Bench!VerdictIsOwn
  OBVIOUS
<1>1. Bench!CleanMeansSaved
  <2>1. SUFFICES ASSUME calls = {}, Bench!Open, hist.right, ~hist.torn, ~Bench!Dirty
                 PROVE  srv.text[flow.pack][flow.file] = flow.text
    BY DEF Bench!CleanMeansSaved
  <2>2. flow.file # "none" /\ ~flow.loading /\ flow.text = flow.saved
    BY <2>1 DEF Bench!Open, Bench!Dirty, Bench!None
  <2>3. QED BY <2>1, <2>2 DEF Bench!Inv, Bench!TextKept, Bench!None
<1>2. Bench!VerdictIsOwn
  BY DEF Bench!Inv, Bench!VerdictKept, Bench!VerdictIsOwn
<1>3. QED BY <1>1, <1>2 DEF Bench!Inv

-----------------------------------------------------------------------------
(* The edits of the workbench *)

\* A step after which the page shows no edits, and that drops none unasked.
LEMMA EditsGone ==
  ASSUME Bench!Inv, Bench!EditsInv,
         flow'.file = "none" \/ flow'.text = flow'.saved,
         mirror'.begun = mirror.begun, mirror'.dropped = mirror.dropped,
         mirror' \in [begun : Nat, dropped : BOOLEAN],
         hist'.sent \in {hist.sent, hist.sent + 1},
         \A c \in calls' : c \in calls \/ (Bench!WillNotAsk(c) => c.n \in 0..hist'.sent)
  PROVE  Bench!EditsInv'
<1>1. ASSUME NEW c \in calls', Bench!WillNotAsk(c) PROVE c.n \in 0..hist'.sent
  <2>1. c \in calls => c.n \in 0..hist.sent
    BY <1>1 DEF Bench!EditsInv, Bench!EditsKept
  <2>2. QED BY <1>1, <2>1, BenchFacts
<1>2. \A c \in calls' : ~Bench!Standing(c)'
  BY DEF Bench!Standing, Bench!Dirty, Bench!None
<1>3. ~mirror'.dropped
  BY DEF Bench!EditsInv, Bench!StandingEditsAreAsked
<1>4. QED
  BY <1>1, <1>2, <1>3
     DEF Bench!EditsInv, Bench!EditsKept, Bench!StandingEditsAreAsked, Bench!WillNotAsk

\* A step beside the edits; of a request that will not ask it sends none over edits.
LEMMA EditsStay ==
  ASSUME Bench!Inv, Bench!EditsInv,
         flow'.file = flow.file, flow'.text = flow.text, flow'.saved = flow.saved,
         flow'.editable = flow.editable, mirror' = mirror,
         hist'.sent \in {hist.sent, hist.sent + 1},
         \A c \in calls' :
           \/ c \in calls
           \/ Bench!WillNotAsk(c) => /\ c.n \in 0..hist'.sent
                                     /\ ~(Bench!Dirty /\ flow.editable)
  PROVE  Bench!EditsInv'
<1>1. ASSUME NEW c \in calls', Bench!WillNotAsk(c)
      PROVE  c.n \in 0..hist'.sent /\ ~Bench!Standing(c)'
  <2>1. CASE c \in calls
    <3>1. c.n \in 0..hist.sent /\ ~Bench!Standing(c)
      BY <1>1, <2>1 DEF Bench!EditsInv, Bench!EditsKept
    <3>2. c.n \in 0..hist'.sent
      BY <3>1, BenchFacts
    <3>3. QED BY <3>1, <3>2 DEF Bench!Standing, Bench!Dirty
  <2>2. CASE c \notin calls
    BY <1>1, <2>2 DEF Bench!Standing, Bench!Dirty
  <2>3. QED BY <2>1, <2>2
<1>2. QED
  BY <1>1 DEF Bench!EditsInv, Bench!EditsKept, Bench!StandingEditsAreAsked, Bench!WillNotAsk

\* A step after which the page may show edits; new ones are younger than all requests.
LEMMA EditsBegun ==
  ASSUME Bench!Inv, Bench!EditsInv, Bench!Begin, flow'.editable = flow.editable,
         hist'.sent \in {hist.sent, hist.sent + 1},
         \A c \in calls' : c \in calls \/ ~Bench!WillNotAsk(c)
  PROVE  Bench!EditsInv'
<1>1. mirror \in [begun : Nat, dropped : BOOLEAN] /\ hist.sent \in Nat
  BY BenchFacts DEF Bench!EditsInv, Bench!EditsKept
<1>2. /\ mirror' \in [begun : Nat, dropped : BOOLEAN] /\ mirror'.dropped = mirror.dropped
      /\ Bench!Dirty => mirror'.begun = mirror.begun
      /\ ~Bench!Dirty => mirror'.begun = hist.sent + 1
  <2>1. CASE Bench!Dirty
    <3>1. mirror' = [mirror EXCEPT !.begun = mirror.begun]
      BY <2>1 DEF Bench!Begin
    <3>2. QED BY <1>1, <2>1, <3>1
  <2>2. CASE ~Bench!Dirty
    <3>1. mirror' = [mirror EXCEPT !.begun = hist.sent + 1]
      BY <2>2 DEF Bench!Begin
    <3>2. QED BY <1>1, <2>2, <3>1
  <2>3. QED BY <2>1, <2>2
<1>3. ASSUME NEW c \in calls', Bench!WillNotAsk(c)
      PROVE  c.n \in 0..hist'.sent /\ ~Bench!Standing(c)'
  <2>1. c.n \in 0..hist.sent /\ ~Bench!Standing(c)
    BY <1>3 DEF Bench!EditsInv, Bench!EditsKept
  <2>2. c.n \in 0..hist'.sent
    BY <2>1, <1>1
  <2>3. CASE Bench!Dirty
    <3>1. mirror'.begun = mirror.begun
      BY <1>2, <2>3
    <3>2. ~(flow.editable /\ mirror.begun <= c.n)
      BY <2>1, <2>3, Zenon DEF Bench!Standing
    <3>3. ~(flow'.editable /\ mirror'.begun <= c.n)
      BY <3>1, <3>2
    <3>4. QED BY <2>2, <3>3, Zenon DEF Bench!Standing
  <2>4. CASE ~Bench!Dirty
    <3>1. mirror'.begun = hist.sent + 1 /\ c.n \in 0..hist.sent /\ hist.sent \in Nat
      BY <1>1, <1>2, <2>1, <2>4
    <3>2. ~(mirror'.begun <= c.n)
      <4>1. PICK n : n = c.n
        OBVIOUS
      <4>2. PICK b : b = mirror'.begun
        OBVIOUS
      <4>3. ~(b <= n)
        BY <3>1, <4>1, <4>2
      <4>4. QED BY <4>1, <4>2, <4>3, Zenon
    <3>3. QED BY <2>2, <3>2, Zenon DEF Bench!Standing
  <2>5. QED BY <2>2, <2>3, <2>4
<1>4. ~mirror'.dropped
  BY <1>2 DEF Bench!EditsInv, Bench!StandingEditsAreAsked
<1>5. QED
  BY <1>2, <1>3, <1>4
     DEF Bench!EditsInv, Bench!EditsKept, Bench!StandingEditsAreAsked, Bench!WillNotAsk

\* What is left behind was asked about, or is younger than what drops it.
LEMMA LeftAsked ==
  ASSUME Bench!EditsInv, NEW standing \in BOOLEAN, NEW asked \in BOOLEAN,
         standing => asked, Bench!LeaveBehind(standing, asked)
  PROVE  /\ mirror'.begun = mirror.begun /\ mirror'.dropped = mirror.dropped
         /\ mirror' \in [begun : Nat, dropped : BOOLEAN]
<1>1. mirror \in [begun : Nat, dropped : BOOLEAN]
  BY DEF Bench!EditsInv, Bench!EditsKept
<1>2. PICK d \in BOOLEAN : d = (mirror.dropped \/ (standing /\ ~asked))
  BY <1>1
<1>3. mirror' = [mirror EXCEPT !.dropped = d]
  BY <1>2 DEF Bench!LeaveBehind
<1>4. d = mirror.dropped
  BY <1>1, <1>2
<1>5. QED BY <1>1, <1>3, <1>4


LEMMA ValidateNumber ==
  ASSUME NEW p, NEW ends
  PROVE  ~Bench!WillNotAsk(Bench!Validate(p, ends))
<1>1. PICK v : v = Bench!Verdict(srv', p)
  OBVIOUS
<1>2. PICK c : c = [k |-> "validate", n |-> hist.sent + 1, pack |-> p, ends |-> ends, verdict |-> v]
  OBVIOUS
<1>3. ~Bench!WillNotAsk(c)
  BY <1>2 DEF Bench!WillNotAsk
<1>4. c = Bench!Validate(p, ends)
  BY <1>1, <1>2 DEF Bench!Validate
<1>5. QED BY <1>3, <1>4, Zenon

LEMMA SentOnce ==
  ASSUME Bench!Inv, hist' = [hist EXCEPT !.sent = @ + 1]
  PROVE  hist'.sent = hist.sent + 1 /\ hist.sent + 1 \in 0..hist'.sent
<1>1. hist' = [sent |-> hist.sent + 1, wrote |-> hist.wrote, own |-> hist.own,
               right |-> hist.right, torn |-> hist.torn]
  BY BenchFacts
<1>2. hist'.sent = hist.sent + 1
  BY <1>1
<1>3. QED BY <1>2, BenchFacts

\* Whether there are edits is so or not; it is one of both.
LEMMA DirtyOrNot ==
  /\ Bench!Dirty \in BOOLEAN
  /\ \A c : Bench!Standing(c) \in BOOLEAN
BY DEF Bench!Dirty, Bench!Standing

LEMMA OpenEdits ==
  ASSUME Bench!Inv, Bench!EditsInv, Bench!HandleSelectPack \/ Bench!HandleSelectFile
  PROVE  Bench!EditsInv'
<1>1. hist' = [hist EXCEPT !.sent = @ + 1]
  BY DEF Bench!HandleSelectPack, Bench!HandleSelectFile
<1>2. CASE Bench!HandleSelectPack
  <2>1. PICK p \in flow.packs, asked \in BOOLEAN :
          /\ asked \/ Bench!MayOpen
          /\ flow' = Bench!Picked(p) /\ calls' = calls \cup {Bench!Validate(p, Bench!None)}
          /\ Bench!LeaveBehind(Bench!Dirty, asked)
    BY <1>2 DEF Bench!HandleSelectPack
  <2>2. flow'.file = "none"
    BY <2>1, BenchFacts DEF Bench!Picked, Bench!UiShape, Bench!None
  <2>3. Bench!Dirty => asked
    BY <2>1 DEF Bench!MayOpen
  <2>4. \A c \in calls' : c \in calls \/ ~Bench!WillNotAsk(c)
    BY <2>1, ValidateNumber
  <2>5. QED BY <1>1, <2>1, <2>2, <2>3, <2>4, SentOnce, DirtyOrNot, LeftAsked, EditsGone
<1>3. CASE Bench!HandleSelectFile
  <2>1. PICK f \in Files, asked \in BOOLEAN :
          /\ asked \/ Bench!MayOpen
          /\ flow' = [flow EXCEPT !.file = f, !.text = Bench!Blank, !.saved = Bench!Blank,
                                  !.fileErr = FALSE, !.loading = TRUE]
          /\ calls' = calls \cup {[k |-> "read", n |-> hist.sent + 1, pack |-> flow.pack,
                                   file |-> f, text |-> srv.text[flow.pack][f]]}
          /\ Bench!LeaveBehind(Bench!Dirty, asked)
    BY <1>3 DEF Bench!HandleSelectFile
  <2>2. flow'.text = flow'.saved
    BY <2>1, BenchFacts DEF Bench!UiShape
  <2>3. Bench!Dirty => asked
    BY <2>1 DEF Bench!MayOpen
  <2>4. PICK t : t = srv.text[flow.pack][f]
    OBVIOUS
  <2>5. \A c \in calls' : c \in calls \/ c.n = hist.sent + 1
    <3>1. calls' = calls \cup {[k |-> "read", n |-> hist.sent + 1, pack |-> flow.pack,
                                file |-> f, text |-> t]}
      BY <2>1, <2>4
    <3>2. QED BY <3>1
  <2>6. QED BY <1>1, <2>1, <2>2, <2>3, <2>5, SentOnce, DirtyOrNot, LeftAsked, EditsGone
<1>4. QED BY <1>2, <1>3

LEMMA ReadEdits ==
  ASSUME Bench!Inv, Bench!EditsInv, Bench!ReadAnswered PROVE Bench!EditsInv'
<1>1. PICK c \in calls :
        /\ c.k = "read" /\ calls' = calls \ {c}
        /\ \/ /\ flow' = [flow EXCEPT !.text = c.text, !.saved = c.text, !.loading = FALSE,
                                      !.editable = c.pack \notin Official]
              /\ hist'.sent = hist.sent /\ Bench!LeaveBehind(Bench!Standing(c), FALSE)
           \/ /\ flow' = [flow EXCEPT !.fileErr = TRUE, !.loading = FALSE]
              /\ hist'.sent = hist.sent /\ mirror' = mirror
  <2>1. PICK c \in calls :
          /\ c.k = "read" /\ calls' = calls \ {c}
          /\ \/ /\ flow' = [flow EXCEPT !.text = c.text, !.saved = c.text, !.loading = FALSE,
                                        !.editable = c.pack \notin Official]
                /\ hist' = [hist EXCEPT !.torn = FALSE,
                                        !.right = Bench!Here(c) /\ c.n >= hist.wrote]
                /\ Bench!LeaveBehind(Bench!Standing(c), FALSE)
             \/ /\ flow' = [flow EXCEPT !.fileErr = TRUE, !.loading = FALSE]
                /\ hist' = [hist EXCEPT !.right = FALSE] /\ mirror' = mirror
    BY DEF Bench!ReadAnswered
  <2>2. \A r : [hist EXCEPT !.torn = FALSE, !.right = r].sent = hist.sent
    BY BenchFacts
  <2>3. [hist EXCEPT !.right = FALSE].sent = hist.sent
    BY BenchFacts
  <2>4. PICK r : r = (Bench!Here(c) /\ c.n >= hist.wrote)
    OBVIOUS
  <2>5. QED BY <2>1, <2>2, <2>3, <2>4
<1>2. CASE flow' = [flow EXCEPT !.fileErr = TRUE, !.loading = FALSE] /\ mirror' = mirror
           /\ hist'.sent = hist.sent
  <2>1. /\ flow'.file = flow.file /\ flow'.text = flow.text /\ flow'.saved = flow.saved
        /\ flow'.editable = flow.editable
    BY <1>2, BenchFacts DEF Bench!UiShape
  <2>2. QED BY <1>1, <1>2, <2>1, EditsStay
<1>3. CASE /\ flow' = [flow EXCEPT !.text = c.text, !.saved = c.text, !.loading = FALSE,
                                   !.editable = c.pack \notin Official]
           /\ Bench!LeaveBehind(Bench!Standing(c), FALSE) /\ hist'.sent = hist.sent
  <2>1. flow'.text = flow'.saved
    BY <1>3, BenchFacts DEF Bench!UiShape
  <2>2. ~Bench!Standing(c)
    BY <1>1 DEF Bench!EditsInv, Bench!EditsKept, Bench!WillNotAsk
  <2>3. QED BY <1>1, <1>3, <2>1, <2>2, DirtyOrNot, LeftAsked, EditsGone
<1>4. QED BY <1>1, <1>2, <1>3

LEMMA TypeEdits ==
  ASSUME Bench!Inv, Bench!EditsInv, Bench!Type PROVE Bench!EditsInv'
<1>1. PICK v \in Bench!Versions : flow' = [flow EXCEPT !.text.v = v]
  BY DEF Bench!Type
<1>2. Bench!Begin /\ calls' = calls /\ hist' = hist
  BY DEF Bench!Type
<1>3. flow'.editable = flow.editable
  BY <1>1, BenchFacts DEF Bench!UiShape
<1>4. QED BY <1>2, <1>3, EditsBegun

LEMMA SaveEdits ==
  ASSUME Bench!Inv, Bench!EditsInv, Bench!HandleSave PROVE Bench!EditsInv'
<1>1. /\ flow' = [flow EXCEPT !.busy = @ \cup {"save"}] /\ mirror' = mirror
      /\ \E ok, v : calls' = calls \cup {[k |-> "save", n |-> hist.sent + 1, pack |-> flow.pack,
                                         file |-> flow.file, ok |-> ok, text |-> flow.text,
                                         verdict |-> v]}
      /\ \E w : hist' = [hist EXCEPT !.sent = @ + 1, !.wrote = w]
  BY DEF Bench!HandleSave
<1>2. /\ flow'.file = flow.file /\ flow'.text = flow.text /\ flow'.saved = flow.saved
      /\ flow'.editable = flow.editable
  BY <1>1, BenchFacts DEF Bench!UiShape
<1>3. hist'.sent = hist.sent + 1
  BY <1>1, BenchFacts
<1>4. \A c \in calls' : c \in calls \/ ~Bench!WillNotAsk(c)
  <2>1. PICK c : ~Bench!WillNotAsk(c) /\ calls' = calls \cup {c}
    BY <1>1 DEF Bench!WillNotAsk
  <2>2. QED BY <2>1
<1>5. QED BY <1>1, <1>2, <1>3, <1>4, EditsStay

LEMMA SaveAnsweredEdits ==
  ASSUME Bench!Inv, Bench!EditsInv, Bench!SaveAnswered PROVE Bench!EditsInv'
<1>1. PICK c \in calls :
        \/ /\ calls' = calls \ {c}
           /\ \E v : flow' = [flow EXCEPT !.saved = c.text, !.verdict = v, !.busy = @ \ {"save"}]
           /\ \E o, r : hist' = [hist EXCEPT !.own = o, !.right = r]
           /\ Bench!Begin
        \/ /\ flow' = [flow EXCEPT !.saved = c.text, !.validating = TRUE]
           /\ \E r : hist' = [hist EXCEPT !.sent = @ + 1, !.right = r]
           /\ Bench!Begin
           /\ \E v : calls' = (calls \ {c}) \cup
                {[k |-> "validate", n |-> hist.sent + 1, pack |-> c.pack, ends |-> "save",
                  verdict |-> v]}
        \/ /\ calls' = calls \ {c} /\ flow' = [flow EXCEPT !.busy = @ \ {"save"}]
           /\ \E t, o : hist' = [hist EXCEPT !.torn = t, !.own = o]
           /\ mirror' = mirror
  BY DEF Bench!SaveAnswered, Bench!Saved, Bench!Judged
<1>2. CASE /\ calls' = calls \ {c} /\ Bench!Begin
           /\ \E v : flow' = [flow EXCEPT !.saved = c.text, !.verdict = v, !.busy = @ \ {"save"}]
           /\ \E o, r : hist' = [hist EXCEPT !.own = o, !.right = r]
  <2>1. flow'.editable = flow.editable /\ hist'.sent = hist.sent
    BY <1>2, BenchFacts DEF Bench!UiShape
  <2>2. QED BY <1>2, <2>1, EditsBegun
<1>3. CASE /\ flow' = [flow EXCEPT !.saved = c.text, !.validating = TRUE] /\ Bench!Begin
           /\ \E r : hist' = [hist EXCEPT !.sent = @ + 1, !.right = r]
           /\ \E v : calls' = (calls \ {c}) \cup
                {[k |-> "validate", n |-> hist.sent + 1, pack |-> c.pack, ends |-> "save",
                  verdict |-> v]}
  <2>1. flow'.editable = flow.editable /\ hist'.sent = hist.sent + 1
    BY <1>3, BenchFacts DEF Bench!UiShape
  <2>2. \A d \in calls' : d \in calls \/ ~Bench!WillNotAsk(d)
    <3>1. PICK d : ~Bench!WillNotAsk(d) /\ calls' = (calls \ {c}) \cup {d}
      BY <1>3 DEF Bench!WillNotAsk
    <3>2. QED BY <3>1
  <2>3. QED BY <1>3, <2>1, <2>2, EditsBegun
<1>4. CASE /\ calls' = calls \ {c} /\ flow' = [flow EXCEPT !.busy = @ \ {"save"}]
           /\ \E t, o : hist' = [hist EXCEPT !.torn = t, !.own = o] /\ mirror' = mirror
  <2>1. /\ flow'.file = flow.file /\ flow'.text = flow.text /\ flow'.saved = flow.saved
        /\ flow'.editable = flow.editable /\ hist'.sent = hist.sent /\ mirror' = mirror
    BY <1>4, BenchFacts DEF Bench!UiShape
  <2>2. QED BY <1>4, <2>1, EditsStay
<1>5. QED BY <1>1, <1>2, <1>3, <1>4

LEMMA CopyEdits ==
  ASSUME Bench!Inv, Bench!EditsInv, Bench!HandleCopyToLocal PROVE Bench!EditsInv'
<1>1. /\ ~flow.editable /\ flow' = [flow EXCEPT !.busy = @ \cup {"copy"}] /\ mirror' = mirror
      /\ calls' = calls \cup {[k |-> "copy", n |-> hist.sent + 1]}
      /\ hist' = [hist EXCEPT !.sent = @ + 1]
  BY DEF Bench!HandleCopyToLocal, Bench!MayCopy
<1>2. /\ flow'.file = flow.file /\ flow'.text = flow.text /\ flow'.saved = flow.saved
      /\ flow'.editable = flow.editable
  BY <1>1, BenchFacts DEF Bench!UiShape
<1>3. \A c \in calls' : c \in calls \/ c.n = hist.sent + 1
  BY <1>1
<1>4. QED BY <1>1, <1>2, <1>3, SentOnce, EditsStay

LEMMA CopyAnsweredEdits ==
  ASSUME Bench!Inv, Bench!EditsInv, Bench!CopyAnswered PROVE Bench!EditsInv'
<1>1. PICK c \in calls :
        /\ c.k = "copy"
        /\ \/ /\ flow' = [Bench!Picked(Copy) EXCEPT !.packs = @ \cup {Copy}]
              /\ calls' = (calls \ {c}) \cup {Bench!Validate(Copy, "copy")}
              /\ hist' = [hist EXCEPT !.sent = @ + 1]
              /\ Bench!LeaveBehind(Bench!Standing(c), FALSE)
           \/ /\ calls' = calls \ {c} /\ flow' = [flow EXCEPT !.busy = @ \ {"copy"}]
              /\ mirror' = mirror /\ hist' = hist
  BY DEF Bench!CopyAnswered
<1>2. ~Bench!Standing(c)
  BY <1>1 DEF Bench!EditsInv, Bench!EditsKept, Bench!WillNotAsk
<1>3. CASE /\ flow' = [Bench!Picked(Copy) EXCEPT !.packs = @ \cup {Copy}]
           /\ calls' = (calls \ {c}) \cup {Bench!Validate(Copy, "copy")}
           /\ hist' = [hist EXCEPT !.sent = @ + 1]
           /\ Bench!LeaveBehind(Bench!Standing(c), FALSE)
  <2>1. flow'.file = "none"
    BY <1>3, BenchFacts DEF Bench!Picked, Bench!UiShape, Bench!None
  <2>2. \A d \in calls' : d \in calls \/ ~Bench!WillNotAsk(d)
    BY <1>3, ValidateNumber
  <2>3. QED BY <1>2, <1>3, <2>1, <2>2, SentOnce, DirtyOrNot, LeftAsked, EditsGone
<1>4. CASE /\ calls' = calls \ {c} /\ flow' = [flow EXCEPT !.busy = @ \ {"copy"}]
           /\ mirror' = mirror /\ hist' = hist
  <2>1. /\ flow'.file = flow.file /\ flow'.text = flow.text /\ flow'.saved = flow.saved
        /\ flow'.editable = flow.editable
    BY <1>4, BenchFacts DEF Bench!UiShape
  <2>2. QED BY <1>4, <2>1, EditsStay
<1>5. QED BY <1>1, <1>3, <1>4

LEMMA ImportEdits ==
  ASSUME Bench!Inv, Bench!EditsInv, Bench!HandleImport PROVE Bench!EditsInv'
<1>1. /\ flow' = [flow EXCEPT !.busy = @ \cup {"import"}] /\ mirror' = mirror
      /\ \E ok : calls' = calls \cup {[k |-> "import", n |-> hist.sent + 1, ok |-> ok,
                                       dirty |-> Bench!Dirty]}
      /\ hist' = [hist EXCEPT !.sent = @ + 1]
  BY DEF Bench!HandleImport
<1>2. /\ flow'.file = flow.file /\ flow'.text = flow.text /\ flow'.saved = flow.saved
      /\ flow'.editable = flow.editable
  BY <1>1, BenchFacts DEF Bench!UiShape
<1>3. PICK dirty \in BOOLEAN : dirty = Bench!Dirty
  BY DirtyOrNot
<1>4. PICK ok, c : c = [k |-> "import", n |-> hist.sent + 1, ok |-> ok, dirty |-> dirty]
                   /\ calls' = calls \cup {c}
  BY <1>1, <1>3
<1>5. c.n = hist.sent + 1 /\ (Bench!WillNotAsk(c) => ~dirty)
  BY <1>4 DEF Bench!WillNotAsk
<1>6. \A d \in calls' :
        d \in calls \/ (d.n = hist.sent + 1 /\ (Bench!WillNotAsk(d) => ~Bench!Dirty))
  BY <1>3, <1>4, <1>5, Zenon
<1>7. QED BY <1>1, <1>2, <1>6, SentOnce, EditsStay

LEMMA ImportAnsweredEdits ==
  ASSUME Bench!Inv, Bench!EditsInv, Bench!ImportAnswered PROVE Bench!EditsInv'
<1>1. PICK c \in calls :
        /\ c.k = "import"
        /\ \/ /\ flow' = [Bench!Picked(Imported) EXCEPT !.packs = @ \cup {Imported}]
              /\ calls' = (calls \ {c}) \cup {Bench!Validate(Imported, "import")}
              /\ hist' = [hist EXCEPT !.sent = @ + 1]
              /\ Bench!LeaveBehind(Bench!Standing(c), Bench!Asked(c))
           \/ /\ calls' = calls \ {c} /\ mirror' = mirror /\ hist' = hist
              /\ \E packs : flow' = [flow EXCEPT !.packs = packs, !.busy = @ \ {"import"}]
           \/ /\ calls' = calls \ {c} /\ mirror' = mirror /\ hist' = hist
              /\ flow' = [flow EXCEPT !.busy = @ \ {"import"}]
  BY DEF Bench!ImportAnswered
<1>2. Bench!Standing(c) => c.dirty
  BY <1>1 DEF Bench!EditsInv, Bench!EditsKept, Bench!WillNotAsk
<1>3. CASE /\ flow' = [Bench!Picked(Imported) EXCEPT !.packs = @ \cup {Imported}]
           /\ calls' = (calls \ {c}) \cup {Bench!Validate(Imported, "import")}
           /\ hist' = [hist EXCEPT !.sent = @ + 1]
           /\ Bench!LeaveBehind(Bench!Standing(c), Bench!Asked(c))
  <2>1. flow'.file = "none"
    BY <1>3, BenchFacts DEF Bench!Picked, Bench!UiShape, Bench!None
  <2>2. \A d \in calls' : d \in calls \/ ~Bench!WillNotAsk(d)
    BY <1>3, ValidateNumber
  <2>3. PICK standing \in BOOLEAN, asked \in BOOLEAN :
          /\ standing => asked
          /\ Bench!LeaveBehind(standing, asked)
    <3>1. PICK standing \in BOOLEAN : standing = Bench!Standing(c)
      BY DirtyOrNot
    <3>2. CASE c.dirty
      <4>1. mirror' = [mirror EXCEPT !.dropped = @ \/ (standing /\ ~TRUE)]
        BY <1>3, <3>1, <3>2 DEF Bench!LeaveBehind, Bench!Asked
      <4>2. Bench!LeaveBehind(standing, TRUE)
        BY <4>1 DEF Bench!LeaveBehind
      <4>3. QED BY <4>2
    <3>3. CASE ~c.dirty
      <4>1. ~standing
        BY <1>2, <3>1, <3>3
      <4>2. mirror' = [mirror EXCEPT !.dropped = @ \/ (FALSE /\ ~FALSE)]
        BY <1>3, <3>1, <4>1 DEF Bench!LeaveBehind, Bench!Asked
      <4>3. Bench!LeaveBehind(FALSE, FALSE)
        BY <4>2 DEF Bench!LeaveBehind
      <4>4. QED BY <4>3
    <3>4. QED BY <3>2, <3>3
  <2>4. QED BY <1>3, <2>1, <2>2, <2>3, SentOnce, LeftAsked, EditsGone
<1>4. CASE /\ calls' = calls \ {c} /\ mirror' = mirror /\ hist' = hist
           /\ \/ \E packs : flow' = [flow EXCEPT !.packs = packs, !.busy = @ \ {"import"}]
              \/ flow' = [flow EXCEPT !.busy = @ \ {"import"}]
  <2>1. /\ flow'.file = flow.file /\ flow'.text = flow.text /\ flow'.saved = flow.saved
        /\ flow'.editable = flow.editable
    BY <1>4, BenchFacts DEF Bench!UiShape
  <2>2. QED BY <1>4, <2>1, EditsStay
<1>5. QED BY <1>1, <1>3, <1>4

\* The steps that neither show nor drop edits, nor ask for what may drop them.
LEMMA OtherEdits ==
  ASSUME Bench!Inv, Bench!EditsInv,
         \/ Bench!ListAnswered \/ Bench!RefreshValidation \/ Bench!ValidateAnswered
         \/ Bench!HandlePublishToWorkshop \/ Bench!Published
  PROVE  Bench!EditsInv'
<1>1. mirror' = mirror
  BY DEF Bench!ListAnswered, Bench!RefreshValidation, Bench!ValidateAnswered,
         Bench!HandlePublishToWorkshop, Bench!Published
<1>7. \A c \in calls' : c \in calls \/ ~Bench!WillNotAsk(c)
  <2>1. \/ calls' \subseteq calls
        \/ calls' = calls \cup {Bench!Validate(flow.pack, Bench!None)}
    BY DEF Bench!ListAnswered, Bench!RefreshValidation, Bench!ValidateAnswered,
           Bench!HandlePublishToWorkshop, Bench!Published
  <2>2. ~Bench!WillNotAsk(Bench!Validate(flow.pack, Bench!None))
    BY ValidateNumber, Zenon
  <2>3. PICK v : v = Bench!Validate(flow.pack, Bench!None)
    OBVIOUS
  <2>4. ~Bench!WillNotAsk(v)
    BY <2>2, <2>3, Zenon
  <2>5. calls' \subseteq calls \/ calls' = calls \cup {v}
    BY <2>1, <2>3, Zenon
  <2>6. QED BY <2>4, <2>5
<1>2. \/ \E packs : flow' = [flow EXCEPT !.packs = packs]
      \/ flow' = [flow EXCEPT !.validating = TRUE]
      \/ \E v, b : flow' = [flow EXCEPT !.verdict = v, !.validating = FALSE, !.busy = b]
      \/ \E b : flow' = [flow EXCEPT !.busy = b]
      \/ flow' = flow
  BY DEF Bench!ListAnswered, Bench!RefreshValidation, Bench!ValidateAnswered,
         Bench!HandlePublishToWorkshop, Bench!Published
<1>3. /\ flow'.file = flow.file /\ flow'.text = flow.text /\ flow'.saved = flow.saved
      /\ flow'.editable = flow.editable
  BY <1>2, BenchFacts DEF Bench!UiShape
<1>4. \/ hist' = hist \/ hist' = [hist EXCEPT !.sent = @ + 1]
      \/ \E own : hist' = [hist EXCEPT !.own = own]
  BY DEF Bench!ListAnswered, Bench!RefreshValidation, Bench!ValidateAnswered,
         Bench!HandlePublishToWorkshop, Bench!Published
<1>5. hist'.sent \in {hist.sent, hist.sent + 1}
  BY <1>4, BenchFacts
<1>6. QED BY <1>1, <1>3, <1>5, <1>7, EditsStay

LEMMA EditsInit == Bench!Init => Bench!EditsInv
<1> SUFFICES ASSUME Bench!Init PROVE Bench!EditsInv
  OBVIOUS
<1>1. mirror = [begun |-> 0, dropped |-> FALSE]
  BY DEF Bench!Init
<1>2. \A c \in calls : ~Bench!WillNotAsk(c)
  <2>1. calls = {[k |-> "list", n |-> 0, packs |-> srv.packs]}
    BY DEF Bench!Init
  <2>2. PICK p : p = srv.packs
    OBVIOUS
  <2>3. calls = {[k |-> "list", n |-> 0, packs |-> p]}
    BY <2>1, <2>2, Zenon
  <2>4. PICK c : c = [k |-> "list", n |-> 0, packs |-> p] /\ calls = {c}
    BY <2>3, Zenon
  <2>5. c.k = "list"
    BY <2>4
  <2>6. QED BY <2>4, <2>5 DEF Bench!WillNotAsk
<1>3. QED BY <1>1, <1>2 DEF Bench!EditsInv, Bench!EditsKept, Bench!StandingEditsAreAsked

LEMMA EditsStep ==
  ASSUME Bench!Inv, Bench!EditsInv, [Bench!Next]_(Bench!vars) PROVE Bench!EditsInv'
<1>1. CASE UNCHANGED Bench!vars
  <2>1. flow' = flow /\ calls' = calls /\ mirror' = mirror /\ hist' = hist
    BY <1>1 DEF Bench!vars
  <2>2. QED BY <2>1, EditsStay
<1>2. CASE Bench!Next
  BY <1>2, OpenEdits, ReadEdits, TypeEdits, SaveEdits, SaveAnsweredEdits, CopyEdits,
     CopyAnsweredEdits, ImportEdits, ImportAnsweredEdits, OtherEdits DEF Bench!Next
<1>3. QED BY <1>1, <1>2

-----------------------------------------------------------------------------
(* The pages together *)

\* A step that leaves a page alone keeps its invariant.
LEMMA BriefRests ==
  ASSUME Brief!Inv, UNCHANGED <<part, vars>>
  PROVE  Brief!Inv'
<1>1. /\ page' = page /\ flow' = flow /\ shot' = shot /\ mirror' = mirror
      /\ guard' = guard /\ calls' = calls /\ hist' = hist
  BY DEF vars
<1>2. Brief!Typed'
  BY <1>1 DEF Brief!Inv, Brief!Typed
<1>3. Brief!FormFits' /\ Brief!Unloaded' /\ Brief!OneMade'
  BY <1>1 DEF Brief!Inv, Brief!FormFits, Brief!OnForm, Brief!Unloaded, Brief!OneMade
<1>4. Brief!OfferedVoice'
  BY <1>1 DEF Brief!Inv, Brief!OfferedVoice
<1>5. Brief!PreferredIsUsed'
  BY <1>1 DEF Brief!Inv, Brief!PreferredIsUsed, Brief!OnForm, Brief!Preferred
<1>6. QED BY <1>2, <1>3, <1>4, <1>5 DEF Brief!Inv

LEMMA LibraryRests ==
  ASSUME Library!Inv, UNCHANGED <<part, vars>>
  PROVE  Library!Inv'
<1>1. page' = page /\ flow' = flow /\ calls' = calls /\ srv' = srv /\ hist' = hist
  BY DEF vars
<1>2. Library!Numbered' /\ Library!OneCheck' /\ Library!WaitingIsAsked'
  BY <1>1, Zenon DEF Library!Inv, Library!Numbered, Library!OneCheck, Library!WaitingIsAsked
<1>3. Library!Typed'
  BY <1>1, Zenon DEF Library!Inv, Library!Typed
<1>4. Library!CatchesUp'
  BY <1>1, Zenon DEF Library!Inv, Library!CatchesUp, Library!Changer, Library!LastCall,
                     Library!Listed
<1>5. Library!Removed' /\ Library!SessionsKeepTheirFiles'
  BY <1>1, Zenon DEF Library!Inv, Library!Removed, Library!SessionsKeepTheirFiles
<1>6. QED BY <1>2, <1>3, <1>4, <1>5 DEF Library!Inv

LEMMA RuntimeRests ==
  ASSUME Runtime!Inv, UNCHANGED <<part, vars>>
  PROVE  Runtime!Inv'
BY DEF vars, Runtime!Inv, Runtime!Sane, Runtime!Histories, Runtime!LastSent, Runtime!Form

LEMMA SettingsRests ==
  ASSUME Settings!Inv, UNCHANGED <<part, vars>>
  PROVE  Settings!Inv'
BY DEF vars, Settings!Inv, Settings!Typed, Settings!Histories, Settings!Gone,
       Settings!Affects, Settings!Differ, Settings!RowsFollow, Settings!ListsFollow,
       Settings!DoneMeansGone, Settings!BusyIsAnswered

LEMMA HomeRests ==
  ASSUME Home!Inv, UNCHANGED <<part, vars>>
  PROVE  Home!Inv'
BY DEF vars, Home!Inv, Home!Shape, Home!Notices, Home!DismissedStays, Home!Restarted,
       Home!Of, Home!AsksUntilHealthy

LEMMA AdviceRests ==
  ASSUME Advice!Inv, UNCHANGED <<part, vars>>
  PROVE  Advice!Inv'
BY DEF vars, Advice!Inv

\* The page that is explored keeps its invariant.
WebInv ==
  /\ part = "setup" => Inv
  /\ part = "brief" => Brief!Inv
  /\ part = "library" => Library!Inv
  /\ part = "debrief" => Debrief!Inv
  /\ part = "advice" => Advice!Inv
  /\ part = "runtime" => Runtime!Inv
  /\ part = "settings" => Settings!Inv
  /\ part = "bench" => Bench!Inv /\ Bench!EditsInv
  /\ part = "form" => Form!Inv
  /\ part = "test" => Test!Inv
  /\ part = "home" => Home!Inv

LEMMA WebInit == MCInit => WebInv
BY SetupInit, BriefInit, LibraryInit, DebriefInit, AdviceInit, RuntimeInit, SettingsInit,
   BenchInit, EditsInit, FormInit, TestInit, HomeInit DEF MCInit, WebInv

LEMMA WebStep == WebInv /\ [MCNext]_<<part, vars>> => WebInv'
<1> SUFFICES ASSUME WebInv, [MCNext]_<<part, vars>> PROVE WebInv'
  OBVIOUS
<1>0. part' = part
  BY DEF MCNext
<1>1. ASSUME part = "setup" PROVE Inv'
  <2>1. Inv /\ [Next]_vars
    BY <1>1 DEF WebInv, MCNext
  <2>2. QED BY <2>1, SetupStep
<1>2. ASSUME part = "brief" PROVE Brief!Inv'
  <2>1. Brief!Inv /\ (Brief!Next \/ UNCHANGED <<part, vars>>)
    BY <1>2 DEF WebInv, MCNext
  <2>2. QED BY <2>1, BriefStep, BriefRests
<1>3. ASSUME part = "library" PROVE Library!Inv'
  <2>1. Library!Inv /\ (Library!Next \/ UNCHANGED <<part, vars>>)
    BY <1>3 DEF WebInv, MCNext
  <2>2. QED BY <2>1, LibraryStep, LibraryRests
<1>4. ASSUME part = "debrief" PROVE Debrief!Inv'
  <2>1. Debrief!Inv /\ (Debrief!Next \/ UNCHANGED <<part, vars>>)
    BY <1>4 DEF WebInv, MCNext
  <2>2. UNCHANGED <<part, vars>> => UNCHANGED Debrief!vars
    BY DEF vars, Debrief!vars
  <2>3. QED BY <2>1, <2>2, DebriefStep
<1>5. ASSUME part = "advice" PROVE Advice!Inv'
  <2>1. Advice!Inv /\ (Advice!Next \/ UNCHANGED <<part, vars>>)
    BY <1>5 DEF WebInv, MCNext
  <2>2. QED BY <2>1, AdviceStep, AdviceRests
<1>6. ASSUME part = "runtime" PROVE Runtime!Inv'
  <2>1. Runtime!Inv /\ (Runtime!Next \/ UNCHANGED <<part, vars>>)
    BY <1>6 DEF WebInv, MCNext
  <2>2. QED BY <2>1, RuntimeStep, RuntimeRests
<1>7. ASSUME part = "settings" PROVE Settings!Inv'
  <2>1. Settings!Inv /\ (Settings!Next \/ UNCHANGED <<part, vars>>)
    BY <1>7 DEF WebInv, MCNext
  <2>2. QED BY <2>1, SettingsStep, SettingsRests
<1>8. ASSUME part = "bench" PROVE Bench!Inv' /\ Bench!EditsInv'
  <2>1. Bench!Inv /\ Bench!EditsInv /\ (Bench!Next \/ UNCHANGED <<part, vars>>)
    BY <1>8 DEF WebInv, MCNext
  <2>2. UNCHANGED <<part, vars>> => UNCHANGED Bench!vars
    BY DEF vars, Bench!vars
  <2>3. QED BY <2>1, <2>2, BenchStep, EditsStep
<1>9. ASSUME part = "form" PROVE Form!Inv'
  <2>1. Form!Inv /\ (Form!Next \/ UNCHANGED <<part, vars>>)
    BY <1>9 DEF WebInv, MCNext
  <2>2. UNCHANGED <<part, vars>> => UNCHANGED Form!vars
    BY DEF vars, Form!vars
  <2>3. QED BY <2>1, <2>2, FormStep
<1>10. ASSUME part = "test" PROVE Test!Inv'
  <2>1. Test!Inv /\ (Test!Next \/ UNCHANGED <<part, vars>>)
    BY <1>10 DEF WebInv, MCNext
  <2>2. UNCHANGED <<part, vars>> => UNCHANGED Test!vars
    BY DEF vars, Test!vars
  <2>3. QED BY <2>1, <2>2, TestStep
<1>11. ASSUME part = "home" PROVE Home!Inv'
  <2>1. Home!Inv /\ (Home!Next \/ UNCHANGED <<part, vars>>)
    BY <1>11 DEF WebInv, MCNext
  <2>2. QED BY <2>1, HomeStep, HomeRests
<1>12. QED
  BY <1>0, <1>1, <1>2, <1>3, <1>4, <1>5, <1>6, <1>7, <1>8, <1>9, <1>10, <1>11, Zenon
     DEF WebInv

\* A page with nothing under way shows what the server, or the other pane, holds, for
\* any catalogue, files, sessions and fields, and any number of requests.
THEOREM PagesCatchUpHolds == MCSpec => []PagesCatchUp
<1>1. WebInv => PagesCatchUp
  BY LibraryHolds, DebriefHolds, RuntimeHolds, SettingsHolds, BenchHolds, FormHolds, TestHolds,
     Zenon DEF WebInv, PagesCatchUp
<1>2. QED BY <1>1, WebInit, WebStep, PTL DEF MCSpec

\* What keeps a page waiting is under way, or can be mended; the guard and the wizard
\* do not send the player back and forth, however often the status is read.
THEOREM NoPageIsStuckHolds == MCSpec => []NoPageIsStuck
<1>1. WebInv => NoPageIsStuck
  BY SetupHolds, BriefHolds, LibraryHolds, SettingsHolds, HomeHolds, Zenon
     DEF WebInv, NoPageIsStuck
<1>2. QED BY <1>1, WebInit, WebStep, PTL DEF MCSpec

\* Whatever answers come late, in another order or not at all, no page does or undoes
\* what the player did not ask for: the workbench drops no edits unasked that were there
\* when the pack or file was opened, or the read, copy or import asked for, and a replay
\* of an export read from the gateway is the one the button names.
THEOREM NothingUnaskedHolds == MCSpec => []NothingUnasked
<1>1. WebInv => NothingUnasked
  BY SetupHolds, BriefHolds, LibraryHolds, DebriefHolds, BenchHolds, FormHolds, TestHolds,
     HomeHolds, Zenon DEF WebInv, NothingUnasked, Bench!EditsInv
<1>2. QED BY <1>1, WebInit, WebStep, PTL DEF MCSpec

\* Every voice, filter, level and drill that is offered can be had, for any catalogue,
\* history and list of voices; settings out of range never reach the server.
THEOREM OffersHoldAlways == MCSpec => []OffersHold
<1>1. WebInv => OffersHold
  BY BriefHolds, LibraryHolds, RuntimeHolds, AdvisedHolds, DrillsHold, BeginnersHold, Zenon
     DEF WebInv, OffersHold
<1>2. QED BY <1>1, WebInit, WebStep, PTL DEF MCSpec
===============================================================================
