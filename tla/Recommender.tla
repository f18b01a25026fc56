----------------------------- MODULE Recommender -----------------------------
(* What the player is advised to play next (packages/shared recommender.ts):  *)
(* at most three of the installed scenarios, chosen from the rolling scores   *)
(* of the rubric dimensions and the personal records.  A scenario is what the *)
(* choice looks at; difficulties and dimensions are numbered in their order,  *)
(* difficulties from 1, warm, to 4, adversarial.                              *)
EXTENDS Integers, FiniteSetsExt

CONSTANTS Dims,      \* rubric dimensions, numbered in the order of the profile
          Scores,    \* rolling scores
          Catalog,   \* scenarios there are: [pack, drills, ladder, levels, default]
          Places,    \* places 1..n of the list of installed scenarios
          Records    \* levels at which a scenario may have been cleared

VARIABLES profile,   \* [sessions, score : dimension -> score, cleared : {<<place, level>>}]
          shelf      \* the scenario at each place
vars == <<profile, shelf>>

Most == 3            \* scenarios recommended, and weak dimensions looked at

ColdProfile == [sessions |-> 0, score |-> [d \in {} |-> 0], cleared |-> {}]
Init == profile = ColdProfile /\ shelf \in [Places -> Catalog]

-----------------------------------------------------------------------------
(* What the scores ask for: the weakest dimensions, and by their average a    *)
(* level and a position on the ladder                                         *)

Weaker(p, d, e) == p.score[d] < p.score[e] \/ (p.score[d] = p.score[e] /\ d < e)
WeakDims(p) ==
  {d \in DOMAIN p.score : Cardinality({e \in DOMAIN p.score : Weaker(p, e, d)}) < Most}

\* An average below n; without a score it counts as 50.
Below(p, n) ==
  LET weak == WeakDims(p) IN
  IF weak = {} THEN 50 < n
  ELSE MapThenSumSet(LAMBDA d : p.score[d], weak) < n * Cardinality(weak)

Need(p) ==
  [weak   |-> WeakDims(p),
   level  |-> 1 + Cardinality({n \in {30, 55, 75} : ~Below(p, n)}),
   ladder |-> IF Below(p, 40) THEN "intro" ELSE IF Below(p, 70) THEN "practice" ELSE "stretch"]

\* Mutant: the level asked for, whether the scenario has it or not.
LevelUnclamped(wanted, s) == wanted

\* The level of the scenario that is nearest below, or its lowest.
LevelFor(wanted, s) ==
  IF s.levels = {} \/ wanted \in s.levels THEN wanted
  ELSE LET below == {l \in s.levels : l <= wanted}
       IN  IF below # {} THEN Max(below) ELSE Min(s.levels)

-----------------------------------------------------------------------------
(* Points *)

Cleared(p, i, l) == <<i, l>> \in p.cleared

\* Mutant: a weak dimension counts no more than the position on the ladder.
PointsLight(p, need, i) ==
  1 * Cardinality(shelf[i].drills \cap need.weak)
    + (IF shelf[i].ladder = need.ladder THEN 2 ELSE 0)
    - (IF Cleared(p, i, LevelFor(need.level, shelf[i])) THEN 10 ELSE 0)

Points(p, need, i) ==
  3 * Cardinality(shelf[i].drills \cap need.weak)
    + (IF shelf[i].ladder = need.ladder THEN 2 ELSE 0)
    - (IF Cleared(p, i, LevelFor(need.level, shelf[i])) THEN 10 ELSE 0)

\* More points first, and in the order of the list among equals.
Ranked(p) ==
  LET need   == Need(p)
      points == [i \in Places |-> Points(p, need, i)]
      ahead(i) == {j \in Places : points[j] > points[i] \/ (points[j] = points[i] /\ j < i)}
  IN  {i \in Places : Cardinality(ahead(i)) < Most}

-----------------------------------------------------------------------------
(* The recommendations: places, and the level each is advised at *)

\* Mutant: a scenario of each pack, introductory or not.
ColdAny == {i \in Places : ~\E j \in Places : j < i /\ shelf[j].pack = shelf[i].pack}

\* Before the first session: introductions if there are any, one for each pack.
Cold ==
  LET intros == {i \in Places : shelf[i].ladder = "intro"}
      pool   == IF intros # {} THEN intros ELSE Places
  IN  {i \in pool : ~\E j \in pool : j < i /\ shelf[j].pack = shelf[i].pack}

Recommended(p) ==
  IF p.sessions = 0
  THEN {i \in Cold : Cardinality({j \in Cold : j < i}) < Most}
  ELSE Ranked(p)

Level(p, i) == IF p.sessions = 0 THEN shelf[i].default ELSE LevelFor(Need(p).level, shelf[i])

-----------------------------------------------------------------------------
\* External: sessions are played and scored, and the logbook makes a profile.
Clears == {{}} \cup {{<<i, l>>} : i \in Places, l \in Records}
Play ==
  /\ profile.sessions = 0
  /\ \E D \in SUBSET Dims : \E f \in [D -> Scores] : \E c \in Clears :
       profile' = [sessions |-> 1, score |-> f, cleared |-> c]
  /\ UNCHANGED shelf

Next == Play
Spec == Init /\ [][Next]_vars

-----------------------------------------------------------------------------
\* Once there are scores no level is advised that the scenario does not offer.
\* (Before, it is the default of its author, which nothing checks.)
AdvisedIsOffered ==
  profile.sessions > 0 =>
    \A i \in Recommended(profile) :
      shelf[i].levels # {} => Level(profile, i) \in shelf[i].levels

\* A place whose scenario drills a weak dimension and is not cleared.
Wanted ==
  LET need == Need(profile) IN
  {i \in Places : /\ shelf[i].drills \cap need.weak # {}
                  /\ ~Cleared(profile, i, LevelFor(need.level, shelf[i]))}

\* What drills a weak dimension and is not cleared is never passed over for what
\* drills none, nor for what the player cleared at the very level advised.
DrillsComeFirst ==
  profile.sessions > 0 =>
    \/ Wanted \subseteq Recommended(profile)
    \/ Recommended(profile) \subseteq Wanted

\* A beginner is advised nothing but introductions where a pack has one, and as
\* many packs as can be.
BeginnersGetIntros ==
  profile.sessions = 0 =>
    LET intros == {i \in Places : shelf[i].ladder = "intro"}
        packs  == {shelf[i].pack : i \in IF intros # {} THEN intros ELSE Places}
    IN  /\ intros # {} => Recommended(profile) \subseteq intros
        /\ Cardinality({shelf[i].pack : i \in Recommended(profile)})
             = Min({Most, Cardinality(packs)})

-----------------------------------------------------------------------------
(* The inductive invariant behind them *)

Inv ==
  /\ shelf \in [Places -> Catalog] /\ profile.sessions \in {0, 1}
  /\ DOMAIN profile.score \subseteq Dims /\ \A d \in DOMAIN profile.score : profile.score[d] \in Scores
=============================================================================
