------------------------- MODULE RiskScoring_proofs --------------------------
(***************************************************************************)
(* Proofs about RiskScoring, Heuristics and Training.  Whatever the        *)
(* payloads, the estimators and the thresholds of history: a detector that *)
(* fails never raises the level of a verdict, a verdict above low has a    *)
(* witness, and the averages are those of the days that are over.          *)
(* Whatever the logs, the labels and the split: the features are of a log, *)
(* the models are fitted on the past of the train users, and the queue     *)
(* holds the insiders found.                                               *)
(***************************************************************************)
EXTENDS RiskScoring, FiniteSetTheorems, SequenceTheorems, WellFoundedInduction, TLAPS

-----------------------------------------------------------------------------
(* Numbers *)

\* The smaller of two numbers.
LEMMA SmallerOf ==
  ASSUME NEW a \in Int, NEW b \in Int
  PROVE  Min({a, b}) = IF a <= b THEN a ELSE b
<1> DEFINE m == IF a <= b THEN a ELSE b
<1>1. m \in {a, b} /\ \A y \in {a, b} : m <= y
  OBVIOUS
<1>2. \A x \in {a, b} : (\A y \in {a, b} : x <= y) => x = m
  OBVIOUS
<1> QED
  BY <1>1, <1>2 DEF Min

\* The larger of two.
LEMMA LargerOf ==
  ASSUME NEW a \in Int, NEW b \in Int
  PROVE  Max({a, b}) = IF a >= b THEN a ELSE b
<1> DEFINE m == IF a >= b THEN a ELSE b
<1>1. m \in {a, b} /\ \A y \in {a, b} : m >= y
  OBVIOUS
<1>2. \A x \in {a, b} : (\A y \in {a, b} : x >= y) => x = m
  OBVIOUS
<1> QED
  BY <1>1, <1>2 DEF Max

\* The largest of three.
LEMMA LargestOf ==
  ASSUME NEW a \in Int, NEW b \in Int, NEW c \in Int
  PROVE  /\ Max({a, b, c}) \in {a, b, c}
         /\ Max({a, b, c}) >= a /\ Max({a, b, c}) >= b /\ Max({a, b, c}) >= c
<1>1. \E m \in {a, b, c} : \A y \in {a, b, c} : m >= y
  <2>1. CASE a >= b /\ a >= c
    BY <2>1
  <2>2. CASE b >= a /\ b >= c
    BY <2>2
  <2>3. CASE c >= a /\ c >= b
    BY <2>3
  <2> QED
    BY <2>1, <2>2, <2>3
<1> QED
  BY <1>1 DEF Max

\* What whole division gives.
LEMMA Whole ==
  ASSUME NEW a \in Nat, NEW b \in Nat \ {0}
  PROVE  a \div b \in Nat /\ (a \div b) * b <= a /\ a < (a \div b + 1) * b
OBVIOUS

NoMore(a, b, c, d) == a \div b <= c \div d

\* It keeps the order of fractions.
LEMMA FractionsOrdered ==
  ASSUME NEW a \in Nat, NEW c \in Nat, NEW b \in Nat \ {0}, NEW d \in Nat \ {0}, a * d <= c * b
  PROVE  NoMore(a, b, c, d)
<1> USE DEF NoMore
<1> DEFINE q == a \div b
           r == c \div d
<1>1. q \in Nat /\ r \in Nat /\ q * b <= a /\ c < (r + 1) * d
  BY Whole
<1> HIDE DEF q, r
<1>2. SUFFICES ASSUME q >= r + 1 PROVE FALSE
  BY <1>1 DEF q, r
<1>3. q * b * d <= a * d
  BY <1>1
<1>4. c * b < (r + 1) * d * b
  BY <1>1
<1>5. (r + 1) * (d * b) <= q * (d * b)
  BY <1>1, <1>2
<1> QED
  BY <1>1, <1>3, <1>4, <1>5

\* A set of natural numbers that is not empty has a least one, which Min chooses.
LEMMA LeastOne ==
  ASSUME NEW S, S \subseteq Nat, S # {}
  PROVE  Min(S) \in S /\ \A y \in S : Min(S) <= y
<1> DEFINE R == {ss \in Nat \X Nat : ss[1] < ss[2]}
<1>1. IsWellFoundedOn(R, Nat)
  BY NatLessThanWellFounded, Zenon DEF OpToRel
<1> HIDE DEF R
<1>2. PICK x \in S : \A y \in S : ~ (<<y, x>> \in R)
  BY <1>1, WFMin, Zenon
<1>3. \A y \in S : ~ (y < x)
  BY <1>2 DEF R
<1>4. \A y \in S : x <= y
  BY <1>3
<1> QED
  BY <1>4 DEF Min

\* One with a bound has a largest one.
LEMMA GreatestOne ==
  ASSUME NEW S, S \subseteq Nat, S # {}, NEW bound \in Nat, \A y \in S : y <= bound
  PROVE  Max(S) \in S /\ \A y \in S : Max(S) >= y
<1> DEFINE T == {n \in Nat : bound - n \in S}
<1>1. PICK y \in S : TRUE
  OBVIOUS
<1>2. bound - y \in T
  OBVIOUS
<1>3. Min(T) \in T /\ \A n \in T : Min(T) <= n
  <2>1. T \subseteq Nat /\ T # {}
    BY <1>2
  <2> HIDE DEF T
  <2> QED
    BY <2>1, LeastOne
<1> DEFINE m == Min(T)
<1> HIDE DEF m
<1>4. m \in T /\ \A n \in T : m <= n
  BY <1>3 DEF m
<1>5. bound - m \in S
  BY <1>4
<1>6. \A z \in S : bound - m >= z
  <2> SUFFICES ASSUME NEW z \in S PROVE bound - m >= z
    OBVIOUS
  <2>1. bound - z \in T
    OBVIOUS
  <2>2. m <= bound - z
    BY <1>4, <2>1
  <2>3. m \in Nat /\ z \in Nat
    BY <1>4
  <2> HIDE DEF T
  <2> QED
    BY <2>2, <2>3
<1> QED
  BY <1>5, <1>6 DEF Max

-----------------------------------------------------------------------------
(* The rules *)

\* The largest number of a set with a bound is within it.
LEMMA MaxBounded ==
  ASSUME NEW bound \in Nat, NEW S, S \subseteq 0 .. bound
  PROVE  Max({0} \cup S) \in 0 .. bound
<1> DEFINE T == {0} \cup S
<1>1. T \subseteq Nat /\ T # {} /\ \A y \in T : y <= bound /\ y \in 0 .. bound
  OBVIOUS
<1> HIDE DEF T
<1>2. Max(T) \in T
  BY <1>1, GreatestOne
<1> QED
  BY <1>1, <1>2 DEF T

\* A rule's weight: 20 points with a confidence of 90 percent and without a discount at most.
LEMMA WeightBounded ==
  ASSUME NEW f, NEW profile, NEW s
  PROVE  Weight(f, profile, s) \in Nat /\ Weight(f, profile, s) <= 180000
<1> DEFINE a == Points(s)
           b == Confidence(s)
           c == Sensitivity(profile, Domain(s))
           d == Discount(f, s)
<1>1. a \in 0 .. 20
  BY DEF Points
<1>2. b \in 0 .. 90
  BY DEF Confidence
<1>3. c \in 0 .. 100
  <2>1. Domain(s) \in {"FILE", "HTTP", "LOGON", "DEVICE"}
    BY DEF Domain
  <2> QED
    BY <2>1 DEF Sensitivity
<1>4. d \in 0 .. 100
  BY DEF Discount
<1> HIDE DEF a, b, c, d
<1>5. a * b \in Nat /\ a * b <= 1800
  BY <1>1, <1>2
<1> DEFINE e == a * b
<1> HIDE DEF e
<1>6. e * c \in Nat /\ e * c <= 180000
  <2>1. e \in Nat /\ e <= 1800
    BY <1>5 DEF e
  <2>2. e * c \in Nat /\ e * c <= e * 100
    BY <2>1, <1>3
  <2> QED
    BY <2>1, <2>2
<1> DEFINE g == e * c
<1> HIDE DEF g
<1>7. g * d \in Nat /\ g * d <= g * 100 /\ g \in Nat /\ g <= 180000
  BY <1>4, <1>6 DEF g
<1> DEFINE h == g * d
<1> HIDE DEF h
<1>8. h \in Nat /\ h <= 18000000
  BY <1>7 DEF h
<1>9. h \div 100 \in Nat /\ h \div 100 <= 180000
  BY <1>8
<1> QED
  BY <1>9 DEF Weight, h, g, e, a, b, c, d

\* The n-th strongest is one of them, or 0.
LEMMA NthBounded ==
  ASSUME NEW weights, NEW bound \in Nat, Range(weights) \subseteq 0 .. bound, NEW n
  PROVE  Nth(weights, n) \in 0 .. bound
<1> DEFINE S == {v \in Range(weights) : Cardinality({s \in DOMAIN weights : weights[s] >= v}) >= n}
<1>1. S \subseteq 0 .. bound
  OBVIOUS
<1>2. Nth(weights, n) = Max({0} \cup S)
  BY DEF Nth
<1> HIDE DEF S
<1> QED
  BY <1>1, <1>2, MaxBounded

\* A group's other rules add less than a quarter.
LEMMA GroupBounded ==
  ASSUME NEW weights, \A s \in DOMAIN weights : weights[s] \in Nat /\ weights[s] <= 180000
  PROVE  GroupScore(weights) \in Nat /\ GroupScore(weights) <= 225000
<1> DEFINE most == 180000
<1>1. most \in Nat /\ \A s \in DOMAIN weights : weights[s] \in Nat /\ weights[s] <= most
  OBVIOUS
<1>2. most = 180000
  OBVIOUS
<1> HIDE DEF most
<1>3. Range(weights) \subseteq 0 .. most
  BY <1>1 DEF Range
<1>4. \A n : Nth(weights, n) \in 0 .. most
  BY <1>1, <1>3, NthBounded
<1> DEFINE x == Nth(weights, 1)
           y == Nth(weights, 2)
           z == Nth(weights, 3)
<1> HIDE DEF x, y, z
<1>5. x \in 0 .. most /\ y \in 0 .. most /\ z \in 0 .. most
  BY <1>4 DEF x, y, z
<1> DEFINE v == y \div 5
           w == z \div 25
<1>6. /\ x \in Nat /\ x <= most
      /\ v \in Nat /\ 5 * v <= most
      /\ w \in Nat /\ 25 * w <= most
  BY <1>1, <1>5, SMT
<1> HIDE DEF v, w
<1>7. x + v + w \in Nat /\ x + v + w <= 225000
  BY <1>2, <1>6, SMT
<1> QED
  BY <1>7 DEF GroupScore, v, w, x, y, z

\* Whatever features and profile an agent sends, detect_insider_threat gives between 0 and 25
\* points.
THEOREM RulesBounded ==
  ASSUME NEW f, NEW profile
  PROVE  Heuristics(f, profile).score \in 0 .. 250
<1> DEFINE found == Detections(f)
           active == {Domain(s) : s \in found}
           weights(g) == [s \in {x \in found : Group(x) = g} |-> Weight(f, profile, s)]
           score(g) == GroupScore(weights(g))
           scores(d) == {score(g) : g \in {Group(s) : s \in {x \in found : Domain(x) = d}}}
           peak == [d \in DOMAIN DomainWeight |-> Max({0} \cup scores(d))]
           part == [d \in DOMAIN peak |-> peak[d] * DomainWeight[d]]
           share == [d \in DOMAIN peak |-> IF d \in active THEN DomainWeight[d] ELSE 0]
           total == CASE active = {} -> 0
                      [] Cardinality(active) = 1 -> (2 * Over(peak)) \div 5
                      [] OTHER -> Over(part) \div Over(share)
<1> DEFINE most == 225000
<1>a. most \in Nat
  OBVIOUS
<1>b. most = 225000
  OBVIOUS
<1> HIDE DEF found, active, peak, part, share, total, most
<1>1. \A g : score(g) \in 0 .. most
  <2> SUFFICES ASSUME NEW g PROVE score(g) \in 0 .. most
    OBVIOUS
  <2>1. \A s \in DOMAIN weights(g) : weights(g)[s] \in Nat /\ weights(g)[s] <= 180000
    BY WeightBounded, SMT
  <2> DEFINE here == weights(g)
  <2>2. \A s \in DOMAIN here : here[s] \in Nat /\ here[s] <= 180000
    BY <2>1
  <2> HIDE DEF here
  <2>3. GroupScore(here) \in Nat /\ GroupScore(here) <= 225000
    BY <2>2, GroupBounded
  <2>4. score(g) = GroupScore(here)
    BY DEF here
  <2> HIDE DEF score, weights
  <2>5. score(g) \in Nat /\ score(g) <= most
    BY <1>b, <2>3, <2>4, SMT
  <2> QED
    BY <1>a, <2>5, SMT
<1> HIDE DEF score, weights
<1>2. \A d : scores(d) \subseteq 0 .. most
  BY <1>1, Zenon
<1> HIDE DEF scores
<1>3. \A d : Max({0} \cup scores(d)) \in 0 .. most
  <2> SUFFICES ASSUME NEW d PROVE Max({0} \cup scores(d)) \in 0 .. most
    OBVIOUS
  <2> DEFINE S == scores(d)
  <2>1. S \subseteq 0 .. most /\ most \in Nat
    BY <1>a, <1>2, SMT
  <2> HIDE DEF S
  <2>2. Max({0} \cup S) \in 0 .. most
    BY <2>1, MaxBounded
  <2> QED
    BY <2>2 DEF S
<1> DEFINE domains == {"FILE", "DEVICE", "LOGON", "HTTP"}
<1>4. /\ DOMAIN DomainWeight = domains
      /\ \A d \in domains : DomainWeight[d] \in 1 .. 7
      /\ DomainWeight.FILE = 7 /\ DomainWeight.DEVICE = 6 /\ DomainWeight.LOGON = 4 /\ DomainWeight.HTTP = 3
  BY DEF DomainWeight
<1>5. peak \in [domains -> 0 .. most]
  BY <1>3, <1>4 DEF peak
<1>6. \A d \in domains : d \notin active => peak[d] = 0
  <2> SUFFICES ASSUME NEW d \in domains, d \notin active PROVE peak[d] = 0
    OBVIOUS
  <2>1. scores(d) = {}
    BY DEF scores, active
  <2>2. peak[d] = Max({0} \cup {})
    BY <1>4, <2>1 DEF peak
  <2>3. Max({0} \cup {}) \in 0 .. 0
    <3> DEFINE bound == 0
               none == {}
    <3>1. bound \in Nat /\ none \subseteq 0 .. bound
      OBVIOUS
    <3> HIDE DEF bound, none
    <3>2. Max({0} \cup none) \in 0 .. bound
      BY <3>1, MaxBounded
    <3> QED
      BY <3>2 DEF bound, none
  <2> QED
    BY <2>2, <2>3
<1>7. active \subseteq domains
  BY DEF Domain, active
<1> DEFINE p1 == peak["FILE"]
           p2 == peak["DEVICE"]
           p3 == peak["LOGON"]
           p4 == peak["HTTP"]
           s1 == IF "FILE" \in active THEN 7 ELSE 0
           s2 == IF "DEVICE" \in active THEN 6 ELSE 0
           s3 == IF "LOGON" \in active THEN 4 ELSE 0
           s4 == IF "HTTP" \in active THEN 3 ELSE 0
<1>8. /\ p1 \in Nat /\ p2 \in Nat /\ p3 \in Nat /\ p4 \in Nat
      /\ p1 <= most /\ p2 <= most /\ p3 <= most /\ p4 <= most
      /\ ("FILE" \notin active => p1 = 0) /\ ("DEVICE" \notin active => p2 = 0)
      /\ ("LOGON" \notin active => p3 = 0) /\ ("HTTP" \notin active => p4 = 0)
  BY <1>5, <1>6, SMT
<1>9. /\ Over(peak) = p1 + p2 + p3 + p4
      /\ Over(part) = p1 * 7 + p2 * 6 + p3 * 4 + p4 * 3
      /\ Over(share) = s1 + s2 + s3 + s4
  BY <1>4, <1>5 DEF Over, part, share
<1>10. Cardinality(active) = 1 => \E d \in domains : active = {d}
  <2> SUFFICES ASSUME Cardinality(active) = 1 PROVE \E d \in domains : active = {d}
    OBVIOUS
  <2>1. active # {}
    BY FS_EmptySet
  <2>2. IsFiniteSet(active)
    <3>1. IsFiniteSet(domains)
      <4>1. /\ IsFiniteSet({"FILE"}) /\ IsFiniteSet({"DEVICE"})
            /\ IsFiniteSet({"LOGON"}) /\ IsFiniteSet({"HTTP"})
        BY FS_Singleton
      <4>2. IsFiniteSet(({"FILE"} \cup {"DEVICE"}) \cup ({"LOGON"} \cup {"HTTP"}))
        BY <4>1, FS_Union
      <4>3. domains = (({"FILE"} \cup {"DEVICE"}) \cup ({"LOGON"} \cup {"HTTP"}))
        OBVIOUS
      <4> QED
        BY <4>2, <4>3
    <3> QED
      BY <1>7, <3>1, FS_Subset
  <2>3. PICK d \in active : TRUE
    BY <2>1
  <2>4. Cardinality(active \ {d}) = 0 /\ IsFiniteSet(active \ {d})
    BY <2>2, <2>3, FS_RemoveElement
  <2>5. active \ {d} = {}
    BY <2>4, FS_EmptySet
  <2> QED
    BY <1>7, <2>3, <2>5
<1>11. total \in Nat /\ total <= 225000
  <2>1. CASE active = {}
    <3>1. Cardinality(active) = 0
      BY <2>1, FS_EmptySet
    <3>2. total = 0
      BY <2>1, <3>1 DEF total
    <3> QED
      BY <3>2, SMT
  <2>2. CASE active # {} /\ Cardinality(active) = 1
    <3>1. total = (2 * Over(peak)) \div 5
      BY <2>2 DEF total
    <3>2. p1 + p2 + p3 + p4 \in Nat /\ p1 + p2 + p3 + p4 <= 225000
      <4>1. PICK d \in domains : active = {d}
        BY <1>10, <2>2
      <4> HIDE DEF p1, p2, p3, p4
      <4>2. \/ p2 = 0 /\ p3 = 0 /\ p4 = 0
            \/ p1 = 0 /\ p3 = 0 /\ p4 = 0
            \/ p1 = 0 /\ p2 = 0 /\ p4 = 0
            \/ p1 = 0 /\ p2 = 0 /\ p3 = 0
        BY <1>8, <4>1
      <4>3. p1 + p2 + p3 + p4 \in Nat /\ p1 + p2 + p3 + p4 <= most
        BY <1>a, <1>8, <4>2, SMT
      <4> QED
        BY <1>b, <4>3, SMT
    <3> HIDE DEF p1, p2, p3, p4
    <3> QED
      BY <1>9, <3>1, <3>2
  <2>3. CASE active # {} /\ Cardinality(active) # 1
    <3>1. total = Over(part) \div Over(share)
      BY <2>3 DEF total
    <3> DEFINE top == p1 * 7 + p2 * 6 + p3 * 4 + p4 * 3
               low == s1 + s2 + s3 + s4
    <3>2. low \in Nat \ {0}
      <4>1. \/ "FILE" \in active
            \/ "DEVICE" \in active
            \/ "LOGON" \in active
            \/ "HTTP" \in active
        BY <1>7, <2>3
      <4> QED
        BY <4>1
    <3>3. top \in Nat /\ top <= 225000 * low
      <4>1. /\ p1 * 7 <= 225000 * s1 /\ p2 * 6 <= 225000 * s2
            /\ p3 * 4 <= 225000 * s3 /\ p4 * 3 <= 225000 * s4
        <5> HIDE DEF p1, p2, p3, p4
        <5> QED
          BY <1>b, <1>8
      <4>2. s1 \in Nat /\ s2 \in Nat /\ s3 \in Nat /\ s4 \in Nat
        OBVIOUS
      <4> HIDE DEF p1, p2, p3, p4, s1, s2, s3, s4
      <4>3. p1 \in Nat /\ p2 \in Nat /\ p3 \in Nat /\ p4 \in Nat
        BY <1>8
      <4> DEFINE b == 225000
      <4>4. b \in Nat /\ p1 * 7 <= b * s1 /\ p2 * 6 <= b * s2 /\ p3 * 4 <= b * s3 /\ p4 * 3 <= b * s4
        BY <4>1, SMT
      <4> HIDE DEF b
      <4>5. b * s1 + b * s2 + b * s3 + b * s4 = b * (s1 + s2 + s3 + s4)
        BY <4>2, <4>4, SMT
      <4>6. top \in Nat /\ top <= b * (s1 + s2 + s3 + s4)
        <5> DEFINE u1 == b * s1
                   u2 == b * s2
                   u3 == b * s3
                   u4 == b * s4
                   w == b * (s1 + s2 + s3 + s4)
        <5>1. u1 \in Nat /\ u2 \in Nat /\ u3 \in Nat /\ u4 \in Nat
          BY <4>2, <4>4, SMT
        <5>2. p1 * 7 <= u1 /\ p2 * 6 <= u2 /\ p3 * 4 <= u3 /\ p4 * 3 <= u4 /\ w = u1 + u2 + u3 + u4
          BY <4>4, <4>5
        <5> HIDE DEF u1, u2, u3, u4, w
        <5>3. top \in Nat /\ top <= w
          BY <4>3, <5>1, <5>2, SMT
        <5> QED
          BY <5>3 DEF w
      <4> QED
        BY <4>6 DEF b
    <3> HIDE DEF top, low
    <3>4. top \div low \in Nat /\ top \div low <= 225000
      BY <3>2, <3>3
    <3> QED
      BY <1>9, <3>1, <3>4 DEF top, low
  <2> QED
    BY <2>1, <2>2, <2>3
<1>12. Heuristics(f, profile).score = total \div 1000
  BY DEF Heuristics, total, peak, part, share, active, scores, score, weights, found
<1> HIDE DEF weights, score
<1>13. total \div 1000 \in 0 .. 250
  BY <1>11
<1> QED
  BY <1>12, <1>13

-----------------------------------------------------------------------------
(* The aggregator *)

\* The level a score has, as a number.
LEMMA LevelFacts ==
  /\ \A score \in Nat :
       /\ Rank(Level(score)) = IF score >= 850 THEN 4 ELSE IF score >= 600 THEN 3
                               ELSE IF score >= 350 THEN 2 ELSE 1
       /\ Level(score) \in {"low", "medium", "high", "critical"}
  /\ Rank("low") = 1
<1> DEFINE levels == <<"low", "medium", "high", "critical">>
<1>1. \A i \in 1 .. 4 : \A level : levels[i] = level =>
        (CHOOSE j \in 1 .. 4 : levels[j] = level) = i
  <2>1. \A i, j \in 1 .. 4 : levels[i] = levels[j] => i = j
    OBVIOUS
  <2> QED
    BY <2>1
<1>2. Rank("low") = 1 /\ Rank("medium") = 2 /\ Rank("high") = 3 /\ Rank("critical") = 4
  <2>1. levels[1] = "low" /\ levels[2] = "medium" /\ levels[3] = "high" /\ levels[4] = "critical"
    OBVIOUS
  <2> QED
    BY <1>1, <2>1 DEF Rank
<1>3. ASSUME NEW score \in Nat
      PROVE  Level(score) = IF score >= 850 THEN "critical" ELSE IF score >= 600 THEN "high"
                            ELSE IF score >= 350 THEN "medium" ELSE "low"
  BY DEF Level
<1> QED
  BY <1>2, <1>3

\* A higher score has no lower level.
LEMMA LevelsOrdered ==
  ASSUME NEW a \in Nat, NEW b \in Nat, a <= b
  PROVE  Rank(Level(a)) <= Rank(Level(b))
BY LevelFacts

Percent == 0 .. 100
Score == 0 .. 1000

\* A score is a number up to 1000.
LEMMA ScoreIsNat == \A s \in Score : s \in Nat /\ s \in Int /\ s <= 1000
BY DEF Score

\* The conviction of a source lifts its weight by less than its score pays for.
LEMMA BoostFacts ==
  ASSUME NEW s \in Score, NEW conf \in Percent
  PROVE  /\ Boost(s, conf) \in Nat /\ Boost(s, conf) >= 1000
         /\ Boost(s, conf) * s >= 1000 * (Boost(s, conf) - 1000)
         /\ s < 400 => Boost(s, conf) = 1000
<1>1. CASE s < 400
  BY <1>1 DEF Boost, Score
<1>2. CASE s >= 400
  <2> DEFINE x == s - 400
             g == (x * x * conf) \div 18000
  <2>1. x \in 0 .. 600 /\ s = x + 400 /\ conf \in Nat /\ conf <= 100
    BY <1>2 DEF Score, Percent
  <2>2. Boost(s, conf) = 1000 + g
    BY <1>2 DEF Boost, Score
  <2> HIDE DEF x
  <2>3. x * x \in Nat /\ x * x * conf \in Nat /\ x * x * conf <= x * x * 100
    BY <2>1
  <2>4. g \in Nat /\ g * 18000 <= x * x * 100
    BY <2>3, Whole
  <2> HIDE DEF g
  <2>5. g * (1000 - s) <= 1000 * s
    <3>1. CASE x <= 300
      <4>1. x * x <= 300 * 300
        BY <2>1, <3>1
      <4>2. g <= 500
        <5> DEFINE y == x * x
        <5>1. y \in Nat /\ y <= 90000 /\ g * 18000 <= y * 100
          BY <2>3, <2>4, <4>1
        <5> HIDE DEF y
        <5> QED
          BY <2>4, <5>1
      <4>3. g * (1000 - s) <= 500 * 600
        BY <2>1, <2>4, <4>2
      <4> QED
        <5> DEFINE z == g * (1000 - s)
        <5>1. z <= 500 * 600 /\ z \in Int
          BY <2>1, <2>4, <4>3
        <5> HIDE DEF z
        <5>2. z <= 1000 * s
          BY <2>1, <5>1
        <5> QED
          BY <5>2 DEF z
    <3>2. CASE x > 300
      <4>1. x * x <= 600 * 600
        BY <2>1
      <4>2. g <= 2000
        <5> DEFINE y == x * x
        <5>1. y \in Nat /\ y <= 360000 /\ g * 18000 <= y * 100
          BY <2>3, <2>4, <4>1
        <5> HIDE DEF y
        <5> QED
          BY <2>4, <5>1
      <4>3. g * (1000 - s) <= 2000 * 300
        BY <2>1, <2>4, <3>2, <4>2
      <4> QED
        <5> DEFINE z == g * (1000 - s)
        <5>1. z <= 2000 * 300 /\ z \in Int
          BY <2>1, <2>4, <4>3
        <5> HIDE DEF z
        <5>2. z <= 1000 * s
          BY <2>1, <3>2, <5>1
        <5> QED
          BY <5>2 DEF z
    <3> QED
      BY <2>1, <3>1, <3>2
  <2>6. (1000 + g) * s >= 1000 * g
    BY <2>1, <2>4, <2>5
  <2> QED
    BY <1>2, <2>1, <2>2, <2>4, <2>6
<1> QED
  BY <1>1, <1>2 DEF Score

Lifted(w, b, s, r, t) ==
  /\ r \div (w * 1000 + t) <= (w * b * s + r) \div (w * b + t)
  /\ w * b * s + r <= 1000 * (w * b + t)

\* A source that says nothing does not raise the mean: w is its share, b and s its boost
\* and its score, r and t what the others bring and weigh.
LEMMA SilenceLowers ==
  ASSUME NEW w \in Nat \ {0}, NEW b \in Nat, b >= 1000, NEW s \in Score, b * s >= 1000 * (b - 1000),
         NEW t \in Nat, NEW r \in Nat, r <= 1000 * t
  PROVE  Lifted(w, b, s, r, t)
<1> USE DEF Lifted
<1> DEFINE k == b - 1000
           n == w * 1000 + t
<1>1. k \in Nat /\ b = 1000 + k /\ n \in Nat \ {0} /\ r <= 1000 * n
  OBVIOUS
<1>2. w * b + t = n + w * k /\ w * b + t \in Nat \ {0}
  OBVIOUS
<1>3. w * b * s \in Nat /\ w * b * s + r \in Nat
  BY DEF Score
<1>4. 1000 * (w * k) <= w * b * s
  <2>1. w * (1000 * k) <= w * (b * s)
    BY <1>1 DEF Score
  <2> QED
    BY <1>1, <2>1 DEF Score
<1> HIDE DEF k, n
<1>5. r * (n + w * k) <= (w * b * s + r) * n
  <2>1. r * (w * k) <= (1000 * n) * (w * k)
    BY <1>1
  <2>2. (1000 * (w * k)) * n <= (w * b * s) * n
    BY <1>1, <1>3, <1>4
  <2> DEFINE p == w * k
             q == w * b * s
  <2>3. p \in Nat /\ q \in Nat
    BY <1>1, <1>3
  <2>4. r * p <= 1000 * n * p /\ 1000 * p * n <= q * n
    BY <1>1, <2>1, <2>2, <2>3
  <2> HIDE DEF p, q
  <2>5. r * (n + p) <= (q + r) * n
    BY <1>1, <2>3, <2>4
  <2> QED
    BY <2>5 DEF p, q
<1>6. r \div n <= (w * b * s + r) \div (w * b + t)
  <2> DEFINE top == w * b * s + r
             low == w * b + t
  <2>1. top \in Nat /\ low \in Nat \ {0} /\ r * low <= top * n
    BY <1>2, <1>3, <1>5
  <2> HIDE DEF top, low
  <2>2. n \in Nat \ {0} /\ r \in Nat
    BY <1>1
  <2>4. NoMore(r, n, top, low)
    BY <2>1, <2>2, FractionsOrdered
  <2>3. r \div n <= top \div low
    BY <2>4 DEF NoMore
  <2> QED
    BY <2>3 DEF top, low
<1>7. w * b * s <= 1000 * (w * b)
  BY DEF Score
<1> QED
  BY <1>3, <1>6, <1>7 DEF n

Source == [score : Score, conf : Percent]

\* The same of a source.
LEMMA SourceFacts ==
  ASSUME NEW source \in Source
  PROVE  /\ source.score \in Score /\ source.score \in Nat /\ source.score <= 1000
         /\ Boost(source.score, source.conf) \in Nat
         /\ Boost(source.score, source.conf) >= 1000
         /\ Boost(source.score, source.conf) * source.score
              >= 1000 * (Boost(source.score, source.conf) - 1000)
         /\ source.score = 0 => Boost(source.score, source.conf) = 1000
<1>1. source.score \in Score /\ source.conf \in Percent
  BY DEF Source
<1>2. source.score \in Nat /\ source.score <= 1000
  BY <1>1, ScoreIsNat
<1> QED
  BY <1>1, <1>2, BoostFacts

\* What three of the sources bring and weigh.
LEMMA OthersBring ==
  ASSUME NEW a \in Source, NEW b \in Source, NEW c \in Source,
         NEW i \in Nat \ {0}, NEW j \in Nat \ {0}, NEW k \in Nat \ {0}
  PROVE  LET brings(w, source) == w * Boost(source.score, source.conf) * source.score
             weighs(w, source) == w * Boost(source.score, source.conf) IN
         /\ brings(i, a) + brings(j, b) + brings(k, c) \in Nat
         /\ weighs(i, a) + weighs(j, b) + weighs(k, c) \in Nat
         /\ brings(i, a) + brings(j, b) + brings(k, c)
              <= 1000 * (weighs(i, a) + weighs(j, b) + weighs(k, c))
<1>1. ASSUME NEW w \in Nat, NEW source \in Source
      PROVE  /\ w * Boost(source.score, source.conf) \in Nat
             /\ w * Boost(source.score, source.conf) * source.score \in Nat
             /\ w * Boost(source.score, source.conf) * source.score
                  <= 1000 * (w * Boost(source.score, source.conf))
  <2>1. source.score \in Nat /\ source.score <= 1000 /\ Boost(source.score, source.conf) \in Nat
    BY SourceFacts
  <2> DEFINE x == w * Boost(source.score, source.conf)
  <2>2. x \in Nat
    BY <2>1
  <2> HIDE DEF x
  <2>3. x * source.score \in Nat /\ x * source.score <= 1000 * x
    BY <2>1, <2>2
  <2> QED
    BY <2>2, <2>3 DEF x
<1> DEFINE x == i * Boost(a.score, a.conf)
           y == j * Boost(b.score, b.conf)
           z == k * Boost(c.score, c.conf)
           p == x * a.score
           q == y * b.score
           r == z * c.score
<1>2. x \in Nat /\ p \in Nat /\ p <= 1000 * x
  BY <1>1
<1>3. y \in Nat /\ q \in Nat /\ q <= 1000 * y
  BY <1>1
<1>4. z \in Nat /\ r \in Nat /\ r <= 1000 * z
  BY <1>1
<1>5. /\ p + q + r \in Nat /\ x + y + z \in Nat
      /\ p + q + r <= 1000 * (x + y + z)
  <2> HIDE DEF x, y, z, p, q, r
  <2> QED
    BY <1>2, <1>3, <1>4
<1> QED
  BY <1>5

\* The mean of the sources is a score, and no higher when the engine or the deviations are
\* silent.
LEMMA MixedFacts ==
  ASSUME NEW ml \in Source, NEW z \in Source, NEW auth \in Source, NEW h \in Source
  PROVE  /\ Mixed(ml, z, auth, h) \in Score
         /\ \A none \in Source : none.score = 0 => Mixed(none, z, auth, h) <= Mixed(ml, z, auth, h)
         /\ \A none \in Source : none.score = 0 => Mixed(ml, none, auth, h) <= Mixed(ml, z, auth, h)
<1> DEFINE brings(w, source) == w * Boost(source.score, source.conf) * source.score
           weighs(w, source) == w * Boost(source.score, source.conf)
           r == brings(2, z) + brings(1, auth) + brings(3, h)
           t == weighs(2, z) + weighs(1, auth) + weighs(3, h)
           r2 == brings(14, ml) + brings(1, auth) + brings(3, h)
           t2 == weighs(14, ml) + weighs(1, auth) + weighs(3, h)
<1>1. r \in Nat /\ t \in Nat /\ r <= 1000 * t
  BY OthersBring
<1>2. r2 \in Nat /\ t2 \in Nat /\ r2 <= 1000 * t2
  BY OthersBring
<1>3. ASSUME NEW m \in Source, NEW w \in {1, 2, 3, 14}
      PROVE  /\ m.score \in Nat /\ Boost(m.score, m.conf) \in Nat /\ Boost(m.score, m.conf) >= 1000
             /\ brings(w, m) \in Nat /\ weighs(w, m) \in Nat
  <2>1. /\ m.score \in Nat /\ Boost(m.score, m.conf) \in Nat /\ Boost(m.score, m.conf) >= 1000
    BY SourceFacts
  <2> DEFINE b == Boost(m.score, m.conf)
             s == m.score
  <2>2. b \in Nat /\ s \in Nat
    BY <2>1
  <2> HIDE DEF b, s
  <2>3. w * b \in Nat /\ w * b * s \in Nat
    BY <2>2
  <2> QED
    BY <2>1, <2>3 DEF b, s
<1>4. ASSUME NEW m \in Source
      PROVE  Mixed(m, z, auth, h) = (brings(14, m) + r) \div (weighs(14, m) + t)
  <2> DEFINE a == brings(14, m)
             b == brings(2, z)
             c == brings(1, auth)
             d == brings(3, h)
             x == weighs(14, m)
             y == weighs(2, z)
             u == weighs(1, auth)
             v == weighs(3, h)
  <2>1. a \in Int /\ b \in Int /\ c \in Int /\ d \in Int /\ x \in Int /\ y \in Int /\ u \in Int /\ v \in Int
    <3> HIDE DEF brings, weighs
    <3> QED
      BY <1>3
  <2>2. Mixed(m, z, auth, h) = (a + b + c + d) \div (x + y + u + v)
    BY DEF Mixed
  <2>3. a + b + c + d = a + (b + c + d) /\ x + y + u + v = x + (y + u + v)
    <3> HIDE DEF a, b, c, d, x, y, u, v
    <3> QED
      BY <2>1
  <2> QED
    BY <2>2, <2>3
<1>5. ASSUME NEW m \in Source
      PROVE  Mixed(ml, m, auth, h) = (brings(2, m) + r2) \div (weighs(2, m) + t2)
  <2> DEFINE a == brings(14, ml)
             b == brings(2, m)
             c == brings(1, auth)
             d == brings(3, h)
             x == weighs(14, ml)
             y == weighs(2, m)
             u == weighs(1, auth)
             v == weighs(3, h)
  <2>1. a \in Int /\ b \in Int /\ c \in Int /\ d \in Int /\ x \in Int /\ y \in Int /\ u \in Int /\ v \in Int
    <3> HIDE DEF brings, weighs
    <3> QED
      BY <1>3
  <2>2. Mixed(ml, m, auth, h) = (a + b + c + d) \div (x + y + u + v)
    BY DEF Mixed
  <2>3. a + b + c + d = b + (a + c + d) /\ x + y + u + v = y + (x + u + v)
    <3> HIDE DEF a, b, c, d, x, y, u, v
    <3> QED
      BY <2>1
  <2> QED
    BY <2>2, <2>3
<1>6. ASSUME NEW m \in Source, m.score = 0
      PROVE  /\ brings(14, m) + r = r /\ weighs(14, m) + t = 14 * 1000 + t
             /\ brings(2, m) + r2 = r2 /\ weighs(2, m) + t2 = 2 * 1000 + t2
  <2>1. Boost(m.score, m.conf) = 1000 /\ m.score = 0
    BY <1>6, SourceFacts
  <2>2. brings(14, m) = 0 /\ weighs(14, m) = 14 * 1000 /\ brings(2, m) = 0 /\ weighs(2, m) = 2 * 1000
    BY <2>1
  <2> HIDE DEF r, t, r2, t2, brings, weighs
  <2> QED
    BY <1>1, <1>2, <2>2
<1>7. /\ r \div (14 * 1000 + t) <= (brings(14, ml) + r) \div (weighs(14, ml) + t)
      /\ brings(14, ml) + r <= 1000 * (weighs(14, ml) + t)
  <2> DEFINE b == Boost(ml.score, ml.conf)
             s == ml.score
  <2>1. b \in Nat /\ b >= 1000 /\ s \in Score /\ b * s >= 1000 * (b - 1000)
    BY SourceFacts
  <2> DEFINE w == 14
  <2>2. w \in Nat \ {0} /\ r \in Nat /\ t \in Nat /\ r <= 1000 * t
    BY <1>1
  <2> HIDE DEF r, t, b, s, w
  <2>3. Lifted(w, b, s, r, t)
    BY <2>1, <2>2, SilenceLowers
  <2> QED
    BY <2>3 DEF Lifted, b, s, w
<1>8. r2 \div (2 * 1000 + t2) <= (brings(2, z) + r2) \div (weighs(2, z) + t2)
  <2> DEFINE b == Boost(z.score, z.conf)
             s == z.score
  <2>1. b \in Nat /\ b >= 1000 /\ s \in Score /\ b * s >= 1000 * (b - 1000)
    BY SourceFacts
  <2> DEFINE w == 2
  <2>2. w \in Nat \ {0} /\ r2 \in Nat /\ t2 \in Nat /\ r2 <= 1000 * t2
    BY <1>2
  <2> HIDE DEF r2, t2, b, s, w
  <2>3. Lifted(w, b, s, r2, t2)
    BY <2>1, <2>2, SilenceLowers
  <2> QED
    BY <2>3 DEF Lifted, b, s, w
<1>9. brings(14, ml) + r \in Nat /\ weighs(14, ml) + t \in Nat \ {0}
  <2> DEFINE b == Boost(ml.score, ml.conf)
  <2>1. b \in Nat /\ b >= 1000 /\ ml.score \in Nat
    BY SourceFacts
  <2> HIDE DEF b, r, t
  <2>2. 14 * b \in Nat /\ 14 * b > 0 /\ 14 * b * ml.score \in Nat
    BY <2>1
  <2>3. 14 * b + t \in Nat \ {0} /\ 14 * b * ml.score + r \in Nat
    BY <1>1, <2>2
  <2> QED
    BY <2>3 DEF b
<1> HIDE DEF brings, weighs, r, t, r2, t2
<1>10. Mixed(ml, z, auth, h) \in Score
  <2> DEFINE top == brings(14, ml) + r
             low == weighs(14, ml) + t
  <2>1. top \in Nat /\ low \in Nat \ {0} /\ top * 1 <= 1000 * low
    BY <1>7, <1>9
  <2> HIDE DEF top, low
  <2> DEFINE thousand == 1000
             one == 1
  <2>2. thousand \in Nat /\ one \in Nat \ {0} /\ top * one <= thousand * low
    BY <2>1
  <2> HIDE DEF thousand, one
  <2>5. NoMore(top, low, thousand, one)
    BY <2>1, <2>2, FractionsOrdered
  <2>3. top \div low <= 1000
    BY <2>5 DEF thousand, one, NoMore
  <2>4. top \div low \in Nat
    BY <2>1
  <2> QED
    BY <1>4, <2>3, <2>4 DEF Score, top, low
<1>11. ASSUME NEW none \in Source, none.score = 0
       PROVE  Mixed(none, z, auth, h) <= Mixed(ml, z, auth, h)
  <2>1. Mixed(none, z, auth, h) = r \div (14 * 1000 + t)
    BY <1>4, <1>6, <1>11
  <2> QED
    BY <1>4, <1>7, <2>1
<1>12. ASSUME NEW none \in Source, none.score = 0
       PROVE  Mixed(ml, none, auth, h) <= Mixed(ml, z, auth, h)
  <2>1. Mixed(ml, none, auth, h) = r2 \div (2 * 1000 + t2)
    BY <1>5, <1>6, <1>12
  <2> QED
    BY <1>5, <1>8, <2>1
<1> QED
  BY <1>10, <1>11, <1>12

\* The memory of the last hours keeps the order of scores.
LEMMA SmoothedFacts ==
  ASSUME NEW a \in Score, NEW b \in Score, a <= b, NEW past \in Score
  PROVE  Smoothed(a, past) \in Score /\ Smoothed(a, past) <= Smoothed(b, past)
<1>1. CASE past = 0
  BY <1>1 DEF Smoothed
<1>2. CASE past # 0
  <2>1. Min({past, 1000}) = past
    <3>1. past \in Int /\ past <= 1000
      BY DEF Score
    <3> QED
      BY <3>1, SmallerOf
  <2>2. /\ Smoothed(a, past) = (85 * a + 15 * past) \div 100
        /\ Smoothed(b, past) = (85 * b + 15 * past) \div 100
    BY <1>2, <2>1 DEF Smoothed
  <2> QED
    BY <2>2 DEF Score
<1> QED
  BY <1>1, <1>2

Results == [Detectors -> [score : Score, conf : Percent, features : SUBSET ModelColumns,
                          mode : {"none", "if_only", "full"}]]

\* The floor under the confidence of a detector makes a source of it.
LEMMA Sources ==
  ASSUME NEW results \in Results, NEW d \in Detectors, NEW floor \in {75, 80, 85}
  PROVE  /\ AtLeast(results[d], floor) \in Source
         /\ AtLeast(results[d], floor).score = results[d].score
         /\ AtLeast(results[d], floor).conf = IF results[d].conf >= floor THEN results[d].conf ELSE floor
<1>1. results[d].score \in Score /\ results[d].conf \in Percent
  BY DEF Results
<1>2. \A n \in Percent : n \in Int
  BY DEF Percent
<1>3. results[d].conf \in Int /\ floor \in Int /\ floor \in Percent
  BY <1>1, <1>2 DEF Percent
<1>4. Max({results[d].conf, floor}) = IF results[d].conf >= floor THEN results[d].conf ELSE floor
  BY <1>3, LargerOf
<1> QED
  BY <1>1, <1>3, <1>4 DEF AtLeast, Source

\* Anomalous: a detector that fails takes features away.
LEMMA FewerShow ==
  ASSUME NEW results, NEW intact, NEW f,
         \A d \in Detectors : results[d] = intact[d] \/ results[d] = Failed
  PROVE  Anomalous(f, results) \subseteq Anomalous(f, intact)
<1>1. \A d \in Detectors : results[d].features \subseteq intact[d].features
  <2> SUFFICES ASSUME NEW d \in Detectors
               PROVE  results[d].features \subseteq intact[d].features
    OBVIOUS
  <2>1. Failed.features = {}
    BY DEF Failed, Silent
  <2> QED
    BY <2>1
<1>2. UNION {results[d].features : d \in Detectors} \subseteq UNION {intact[d].features : d \in Detectors}
  BY <1>1
<1> QED
  BY <1>2 DEF Anomalous

\* What the scenarios of CERT rest on.
LEMMA CertFacts ==
  ASSUME NEW shows, NEW groups
  PROVE  LET cert == CertScenarios(shows, groups) IN
         /\ cert # {} <=> \/ shows \cap Usb # {} \/ shows \cap Deletes # {}
                          \/ "file_sharing_site_visits" \in shows
         /\ cert \cap {"CRITICAL", "HIGH"} # {} <=>
              \/ shows \cap Usb # {} /\ "job_search_site_visits" \in shows
              \/ shows \cap Deletes # {} /\ shows \cap Logins # {}
              \/ "file_sharing_site_visits" \in shows
                   /\ (shows \cap Sensitive # {} \/ "FILE_EXFIL_GROUP" \in groups)
<1> DEFINE usb == shows \cap Usb # {}
           deletes == shows \cap Deletes # {}
           sharing == "file_sharing_site_visits" \in shows
           job == "job_search_site_visits" \in shows
           logins == shows \cap Logins # {}
           sensitive == shows \cap Sensitive # {} \/ "FILE_EXFIL_GROUP" \in groups
           one == IF ~usb THEN {} ELSE IF job THEN {"CRITICAL"} ELSE {"LOW"}
           two == IF ~deletes THEN {} ELSE IF logins THEN {"CRITICAL"} ELSE {"LOW"}
           three == IF ~sharing THEN {} ELSE IF sensitive THEN {"HIGH"} ELSE {"LOW"}
<1>1. CertScenarios(shows, groups) = UNION {one, two, three}
  BY DEF CertScenarios
<1>2. UNION {one, two, three} = one \cup two \cup three
  <2> HIDE DEF one, two, three
  <2> QED
    OBVIOUS
<1> HIDE DEF usb, deletes, sharing, job, logins, sensitive
<1>3. /\ one # {} <=> usb
      /\ one \cap {"CRITICAL", "HIGH"} # {} <=> usb /\ job
  OBVIOUS
<1>4. /\ two # {} <=> deletes
      /\ two \cap {"CRITICAL", "HIGH"} # {} <=> deletes /\ logins
  OBVIOUS
<1>5. /\ three # {} <=> sharing
      /\ three \cap {"CRITICAL", "HIGH"} # {} <=> sharing /\ sensitive
  OBVIOUS
<1> HIDE DEF one, two, three
<1>6. /\ CertScenarios(shows, groups) # {} <=> usb \/ deletes \/ sharing
      /\ CertScenarios(shows, groups) \cap {"CRITICAL", "HIGH"} # {} <=>
           (usb /\ job) \/ (deletes /\ logins) \/ (sharing /\ sensitive)
  BY <1>1, <1>2, <1>3, <1>4, <1>5
<1> QED
  BY <1>6 DEF usb, deletes, sharing, job, logins, sensitive

\* More anomalous features give no less of a scenario.
LEMMA CertOrdered ==
  ASSUME NEW shows, NEW more, shows \subseteq more, NEW groups
  PROVE  /\ CertScenarios(shows, groups) # {} => CertScenarios(more, groups) # {}
         /\ CertScenarios(shows, groups) \cap {"CRITICAL", "HIGH"} # {}
              => CertScenarios(more, groups) \cap {"CRITICAL", "HIGH"} # {}
<1>1. \A S : shows \cap S # {} => more \cap S # {}
  OBVIOUS
<1> QED
  BY <1>1, CertFacts

\* The parts of aggregate_detectors: the source of the rules, the smoothed mean and what
\* corroborates it.
Rules(h) == [score |-> h.score, conf |-> IF h.count > 0 THEN 85 ELSE 40]
Fusion(h, results, past) ==
  Smoothed(Mixed(AtLeast(results["advanced_pipeline"], 75), AtLeast(results["zscore"], 85),
                 AtLeast(results["auth_burst"], 80), Rules(h)), past)
Cert(kind, h, results) == CertScenarios(Anomalous(FeaturesOf[kind], results), h.groups)
Proven(kind, h, results) ==
  Corroborated(AtLeast(results["advanced_pipeline"], 75), AtLeast(results["zscore"], 85),
               Rules(h), Cert(kind, h, results))

\* A score of 35 or more that nothing corroborates is 10, any other the smoothed mean.
LEMMA AggregateIs ==
  ASSUME NEW kind, NEW h, h.score \in Score, NEW results \in Results, NEW past \in Score
  PROVE  /\ Fusion(h, results, past) \in Score
         /\ Aggregate(kind, h, results, past)
              = IF Fusion(h, results, past) >= 350 /\ ~Proven(kind, h, results) THEN 100
                ELSE Fusion(h, results, past)
         /\ Aggregate(kind, h, results, past) \in Score
<1> DEFINE ml == AtLeast(results["advanced_pipeline"], 75)
           z == AtLeast(results["zscore"], 85)
           auth == AtLeast(results["auth_burst"], 80)
           fusion == Fusion(h, results, past)
<1>1. ml \in Source /\ z \in Source /\ auth \in Source
  BY Sources DEF Detectors
<1>2. Rules(h) \in Source
  BY DEF Rules, Source, Percent
<1>3. Mixed(ml, z, auth, Rules(h)) \in Score
  <2> HIDE DEF ml, z, auth
  <2> QED
    BY <1>1, <1>2, MixedFacts
<1>4. fusion \in Score
  <2> DEFINE mixed == Mixed(ml, z, auth, Rules(h))
  <2>1. mixed \in Score /\ mixed <= mixed
    BY <1>3 DEF Score
  <2>2. fusion = Smoothed(mixed, past)
    BY DEF Fusion
  <2> HIDE DEF mixed, fusion
  <2> QED
    BY <2>1, <2>2, SmoothedFacts
<1>5. Aggregate(kind, h, results, past)
        = IF fusion >= 350 /\ ~Proven(kind, h, results) THEN Min({fusion, 100}) ELSE fusion
  BY DEF Aggregate, Fusion, Proven, Cert, Rules
<1>6. fusion >= 350 => Min({fusion, 100}) = 100
  <2> HIDE DEF fusion
  <2> QED
    BY <1>4, SmallerOf DEF Score
<1> HIDE DEF fusion
<1>7. Aggregate(kind, h, results, past)
        = IF fusion >= 350 /\ ~Proven(kind, h, results) THEN 100 ELSE fusion
  BY <1>5, <1>6
<1>8. 100 \in Score
  BY DEF Score
<1> QED
  BY <1>4, <1>7, <1>8 DEF fusion

\* A verdict above low is corroborated.
LEMMA RaisedIsProven ==
  ASSUME NEW kind, NEW h, h.score \in Score, NEW results \in Results, NEW past \in Score,
         Rank(Level(Aggregate(kind, h, results, past))) > 1
  PROVE  Proven(kind, h, results)
<1> DEFINE score == Aggregate(kind, h, results, past)
<1>1. score \in Nat
  BY AggregateIs, ScoreIsNat
<1> HIDE DEF score
<1>2. score >= 350
  BY <1>1, LevelFacts DEF score
<1> QED
  BY <1>2, AggregateIs DEF score

\* Failed detectors neither raise the mean ...
LEMMA FailuresLower ==
  ASSUME NEW h, h.score \in Score, NEW results \in Results, NEW intact \in Results, NEW past \in Score,
         \A d \in Detectors : results[d] = intact[d] \/ results[d] = Failed,
         intact["auth_burst"].score = 0
  PROVE  Fusion(h, results, past) <= Fusion(h, intact, past)
<1> DEFINE ml == AtLeast(results["advanced_pipeline"], 75)
           z == AtLeast(results["zscore"], 85)
           auth == AtLeast(results["auth_burst"], 80)
           ml2 == AtLeast(intact["advanced_pipeline"], 75)
           z2 == AtLeast(intact["zscore"], 85)
           auth2 == AtLeast(intact["auth_burst"], 80)
           rules == Rules(h)
<1>1. ml \in Source /\ z \in Source /\ auth \in Source
  BY Sources DEF Detectors
<1>2. ml2 \in Source /\ z2 \in Source /\ auth2 \in Source
  BY Sources DEF Detectors
<1>3. rules \in Source
  BY DEF Rules, Source, Percent
<1>4. Failed.score = 0
  BY DEF Failed, Silent
<1>5. ml = ml2 \/ ml.score = 0
  BY <1>4 DEF AtLeast, Detectors
<1>6. z = z2 \/ z.score = 0
  BY <1>4 DEF AtLeast, Detectors
<1>7. auth.score = 0 /\ auth2.score = 0
  BY <1>4 DEF AtLeast, Detectors
<1>8. Fusion(h, results, past) = Smoothed(Mixed(ml, z, auth, rules), past)
  BY DEF Fusion
<1>9. Fusion(h, intact, past) = Smoothed(Mixed(ml2, z2, auth2, rules), past)
  BY DEF Fusion
<1> HIDE DEF ml, z, auth, ml2, z2, auth2, rules
<1>10. Mixed(ml, z, auth, rules) <= Mixed(ml2, z, auth, rules)
  <2>1. Mixed(ml, z, auth, rules) \in Int /\ Mixed(ml2, z, auth, rules) \in Int
    BY <1>1, <1>2, <1>3, MixedFacts, ScoreIsNat
  <2> QED
    BY <1>1, <1>2, <1>3, <1>5, <2>1, MixedFacts
<1>11. Mixed(ml2, z, auth, rules) <= Mixed(ml2, z2, auth, rules)
  <2>1. Mixed(ml2, z, auth, rules) \in Int /\ Mixed(ml2, z2, auth, rules) \in Int
    BY <1>1, <1>2, <1>3, MixedFacts, ScoreIsNat
  <2> QED
    BY <1>1, <1>2, <1>3, <1>6, <2>1, MixedFacts
<1>12. Mixed(ml2, z2, auth, rules) = Mixed(ml2, z2, auth2, rules)
  <2>1. Boost(auth.score, auth.conf) = 1000 /\ Boost(auth2.score, auth2.conf) = 1000
    BY <1>1, <1>2, <1>7, SourceFacts
  <2>2. auth.score = auth2.score /\ Boost(auth.score, auth.conf) = Boost(auth2.score, auth2.conf)
    BY <1>7, <2>1
  <2> QED
    BY <2>2, Zenon DEF Mixed
<1> DEFINE low == Mixed(ml, z, auth, rules)
           top == Mixed(ml2, z2, auth2, rules)
<1>13. low \in Score /\ top \in Score /\ low <= top
  <2>1. low \in Score /\ top \in Score /\ Mixed(ml2, z, auth, rules) \in Score
    BY <1>1, <1>2, <1>3, MixedFacts
  <2> HIDE DEF low, top
  <2>2. low \in Int /\ top \in Int /\ Mixed(ml2, z, auth, rules) \in Int
    BY <2>1 DEF Score
  <2> QED
    BY <1>10, <1>11, <1>12, <2>1, <2>2 DEF low, top
<1> HIDE DEF low, top
<1>14. Smoothed(low, past) <= Smoothed(top, past)
  BY <1>13, SmoothedFacts
<1> QED
  BY <1>8, <1>9, <1>14 DEF low, top

\* ... nor corroborate.
LEMMA FailuresProveLess ==
  ASSUME NEW kind, NEW h, NEW results \in Results, NEW intact \in Results,
         \A d \in Detectors : results[d] = intact[d] \/ results[d] = Failed,
         Proven(kind, h, results)
  PROVE  Proven(kind, h, intact)
<1> DEFINE ml == AtLeast(results["advanced_pipeline"], 75)
           z == AtLeast(results["zscore"], 85)
           ml2 == AtLeast(intact["advanced_pipeline"], 75)
           z2 == AtLeast(intact["zscore"], 85)
           cert == Cert(kind, h, results)
           cert2 == Cert(kind, h, intact)
           rules == Rules(h)
<1>1. Failed.score = 0
  BY DEF Failed, Silent
<1>2. ml = ml2 \/ ml.score = 0
  BY <1>1 DEF AtLeast, Detectors
<1>3. z = z2 \/ z.score = 0
  BY <1>1 DEF AtLeast, Detectors
<1>4. /\ cert # {} => cert2 # {}
      /\ cert \cap {"CRITICAL", "HIGH"} # {} => cert2 \cap {"CRITICAL", "HIGH"} # {}
  <2>1. Anomalous(FeaturesOf[kind], results) \subseteq Anomalous(FeaturesOf[kind], intact)
    BY FewerShow
  <2> QED
    BY <2>1, CertOrdered DEF Cert
<1>5. Corroborated(ml, z, rules, cert)
  BY DEF Proven
<1> HIDE DEF ml, z, ml2, z2, cert, cert2, rules
<1>6. Corroborated(ml2, z2, rules, cert2)
  BY <1>2, <1>3, <1>4, <1>5 DEF Corroborated
<1> QED
  BY <1>6 DEF Proven, ml2, z2, cert2, rules

\* So that failures do not raise the level.
LEMMA FailuresRaiseNothing ==
  ASSUME NEW kind, NEW h, h.score \in Score, NEW results \in Results, NEW intact \in Results,
         NEW past \in Score,
         \A d \in Detectors : results[d] = intact[d] \/ results[d] = Failed,
         intact["auth_burst"].score = 0
  PROVE  Rank(Level(Aggregate(kind, h, results, past))) <= Rank(Level(Aggregate(kind, h, intact, past)))
<1> DEFINE low == Fusion(h, results, past)
           top == Fusion(h, intact, past)
           verdict1 == Aggregate(kind, h, results, past)
           verdict2 == Aggregate(kind, h, intact, past)
<1>1. /\ low \in Nat /\ verdict1 \in Nat
      /\ verdict1 = IF low >= 350 /\ ~Proven(kind, h, results) THEN 100 ELSE low
  BY AggregateIs, ScoreIsNat
<1>2. /\ top \in Nat /\ verdict2 \in Nat
      /\ verdict2 = IF top >= 350 /\ ~Proven(kind, h, intact) THEN 100 ELSE top
  BY AggregateIs, ScoreIsNat
<1>3. low <= top
  BY FailuresLower
<1>4. Proven(kind, h, results) => Proven(kind, h, intact)
  BY FailuresProveLess
<1> HIDE DEF low, top, verdict1, verdict2
<1>5. CASE top >= 350 /\ ~Proven(kind, h, intact)
  <2>1. verdict1 < 350
    BY <1>1, <1>2, <1>3, <1>4, <1>5
  <2>2. Rank(Level(verdict1)) = 1
    BY <1>1, <2>1, LevelFacts
  <2>3. Rank(Level(verdict2)) >= 1
    BY <1>2, LevelFacts
  <2> QED
    BY <2>2, <2>3 DEF verdict1, verdict2
<1>6. CASE ~(top >= 350 /\ ~Proven(kind, h, intact))
  <2>1. verdict2 = top
    BY <1>2, <1>6
  <2>2. verdict1 <= low
    BY <1>1
  <2>3. verdict1 <= verdict2
    BY <1>1, <1>2, <1>3, <2>1, <2>2
  <2> QED
    BY <1>1, <1>2, <2>3, LevelsOrdered DEF verdict1, verdict2
<1> QED
  BY <1>5, <1>6

-----------------------------------------------------------------------------
(* The days *)

\* The numbers of a finite set put in order are as many, and each larger than those before.
LEMMA InOrderFacts ==
  ASSUME NEW D, D \subseteq Nat, IsFiniteSet(D)
  PROVE  /\ Cardinality(D) \in Nat
         /\ InOrder(D) \in [1 .. Cardinality(D) -> D]
         /\ \A i, j \in 1 .. Cardinality(D) : i < j => InOrder(D)[i] < InOrder(D)[j]
         /\ \A n \in D : \E i \in 1 .. Cardinality(D) : InOrder(D)[i] = n
<1> DEFINE N == Cardinality(D)
           upTo(n) == {m \in D : m <= n}
           place == [n \in D |-> Cardinality(upTo(n))]
           nth(i) == CHOOSE n \in D : Cardinality(upTo(n)) = i
<1>1. N \in Nat
  BY FS_CardinalityType
<1>2. \A n \in D : IsFiniteSet(upTo(n)) /\ Cardinality(upTo(n)) \in 1 .. N
  <2> SUFFICES ASSUME NEW n \in D PROVE IsFiniteSet(upTo(n)) /\ Cardinality(upTo(n)) \in 1 .. N
    OBVIOUS
  <2>1. upTo(n) \in SUBSET D /\ n \in upTo(n)
    OBVIOUS
  <2> HIDE DEF upTo
  <2>2. IsFiniteSet(upTo(n)) /\ Cardinality(upTo(n)) <= N
    BY <2>1, FS_Subset
  <2>3. Cardinality(upTo(n)) \in Nat /\ Cardinality(upTo(n)) # 0
    BY <2>1, <2>2, FS_CardinalityType, FS_EmptySet
  <2> QED
    BY <1>1, <2>2, <2>3
<1>3. \A n, k \in D : n < k => Cardinality(upTo(n)) < Cardinality(upTo(k))
  <2> SUFFICES ASSUME NEW n \in D, NEW k \in D, n < k
               PROVE  Cardinality(upTo(n)) < Cardinality(upTo(k))
    OBVIOUS
  <2>1. upTo(n) \in SUBSET upTo(k) /\ k \in upTo(k) /\ k \notin upTo(n)
    <3>1. n \in Nat /\ k \in Nat
      OBVIOUS
    <3>2. \A m \in D : m <= n => m <= k
      <4> SUFFICES ASSUME NEW m \in D, m <= n PROVE m <= k
        OBVIOUS
      <4>1. m \in Nat
        OBVIOUS
      <4> QED
        BY <3>1, <4>1
    <3>3. upTo(n) \subseteq upTo(k)
      BY <3>2
    <3>4. k <= k /\ ~(k <= n)
      BY <3>1
    <3> QED
      BY <3>3, <3>4
  <2>2. /\ IsFiniteSet(upTo(k))
        /\ Cardinality(upTo(k)) \in Int /\ Cardinality(upTo(n)) \in Int
    BY <1>2
  <2> HIDE DEF upTo
  <2>3. /\ Cardinality(upTo(n)) <= Cardinality(upTo(k))
        /\ Cardinality(upTo(k)) = Cardinality(upTo(n)) => upTo(k) = upTo(n)
    BY <2>1, <2>2, FS_Subset
  <2> QED
    BY <2>1, <2>2, <2>3
<1> HIDE DEF upTo
<1>4. \A n, k \in D : Cardinality(upTo(n)) = Cardinality(upTo(k)) => n = k
  <2> SUFFICES ASSUME NEW n \in D, NEW k \in D, Cardinality(upTo(n)) = Cardinality(upTo(k))
               PROVE  n = k
    OBVIOUS
  <2>1. ~(n < k) /\ ~(k < n)
    BY <1>2, <1>3
  <2> QED
    BY <2>1
<1>5. place \in Injection(D, 1 .. N)
  BY <1>2, <1>4 DEF Injection, IsInjective
<1>6. IsFiniteSet(1 .. N) /\ Cardinality(1 .. N) = N
  BY <1>1, FS_Interval
<1>7. place \in Surjection(D, 1 .. N)
  <2> HIDE DEF place
  <2> QED
    BY <1>5, <1>6, FS_Injection
<1>8. \A i \in 1 .. N : \E n \in D : Cardinality(upTo(n)) = i
  BY <1>7 DEF Surjection
<1>9. \A i \in 1 .. N : nth(i) \in D /\ Cardinality(upTo(nth(i))) = i
  BY <1>8
<1>10. InOrder(D) = [i \in 1 .. N |-> nth(i)]
  BY DEF InOrder, upTo
<1> HIDE DEF N, nth
<1>11. \A i, j \in 1 .. N : i < j => InOrder(D)[i] < InOrder(D)[j]
  <2> SUFFICES ASSUME NEW i \in 1 .. N, NEW j \in 1 .. N, i < j
               PROVE  nth(i) < nth(j)
    BY <1>10
  <2>1. nth(i) \in D /\ nth(j) \in D /\ Cardinality(upTo(nth(i))) = i /\ Cardinality(upTo(nth(j))) = j
    BY <1>9
  <2> DEFINE a == nth(i)
             b == nth(j)
  <2>2. a \in D /\ b \in D /\ Cardinality(upTo(a)) = i /\ Cardinality(upTo(b)) = j
    BY <2>1
  <2> HIDE DEF a, b
  <2>3. a \in Nat /\ b \in Nat /\ i \in Int /\ j \in Int
    BY <2>2
  <2>4. a # b
    BY <2>2, <2>3
  <2>5. ~(b < a)
    <3> SUFFICES ASSUME b < a PROVE FALSE
      OBVIOUS
    <3>1. Cardinality(upTo(b)) < Cardinality(upTo(a))
      BY <1>3, <2>2
    <3> QED
      BY <2>2, <2>3, <3>1
  <2>6. a < b
    BY <2>3, <2>4, <2>5
  <2> QED
    BY <2>6 DEF a, b
<1>12. \A n \in D : \E i \in 1 .. N : InOrder(D)[i] = n
  <2> SUFFICES ASSUME NEW n \in D PROVE \E i \in 1 .. N : nth(i) = n
    BY <1>10
  <2> DEFINE i == Cardinality(upTo(n))
  <2>1. i \in 1 .. N
    BY <1>2
  <2>2. nth(i) = n
    BY <1>4, <1>9, <2>1
  <2> QED
    BY <2>1, <2>2
<1>13. InOrder(D) \in [1 .. N -> D]
  BY <1>9, <1>10
<1> QED
  BY <1>1, <1>11, <1>12, <1>13 DEF N

Payload == [day : Nat, kind : Kinds]

\* The days of a sequence of payloads are finitely many numbers.
LEMMA DaysAreFinite ==
  ASSUME NEW s \in Seq(Payload)
  PROVE  /\ IsFiniteSet({p.day : p \in Range(s)})
         /\ {p.day : p \in Range(s)} \subseteq Nat
<1> DEFINE D == {p.day : p \in Range(s)}
           day == [i \in 1 .. Len(s) |-> s[i].day]
<1>1. Len(s) \in Nat /\ DOMAIN s = 1 .. Len(s) /\ \A i \in 1 .. Len(s) : s[i] \in Payload
  OBVIOUS
<1>2. D = {s[i].day : i \in 1 .. Len(s)}
  BY <1>1 DEF Range
<1>3. day \in Surjection(1 .. Len(s), D)
  BY <1>2 DEF Surjection
<1>4. IsFiniteSet(1 .. Len(s))
  BY <1>1, FS_Interval
<1>5. IsFiniteSet(D)
  <2> HIDE DEF D, day
  <2> QED
    BY <1>3, <1>4, FS_Surjection
<1>6. D \subseteq Nat
  BY <1>1, <1>2 DEF Payload
<1> QED
  BY <1>5, <1>6

\* A part of a sequence of payloads.
LEMMA PartOf ==
  ASSUME NEW s \in Seq(Payload), NEW m \in Nat \ {0}, NEW n \in Int, n <= Len(s)
  PROVE  /\ SubSeq(s, m, n) \in Seq(Payload)
         /\ Len(SubSeq(s, m, n)) <= Len(s)
         /\ Len(SubSeq(s, m, n)) = IF m <= n THEN n - m + 1 ELSE 0
         /\ \A i \in 1 .. Len(SubSeq(s, m, n)) : SubSeq(s, m, n)[i] = s[m + i - 1]
<1>1. Len(s) \in Nat /\ \A i \in m .. n : s[i] \in Payload
  OBVIOUS
<1> QED
  BY <1>1, SubSeqProperties

\* The stored days are payloads that were stored, of as many days as there are at most.
LEMMA StoredDaysFacts ==
  ASSUME stored \in Seq(Payload)
  PROVE  /\ StoredDays \in Seq(Payload)
         /\ Len(StoredDays) <= Cardinality({stored[i].day : i \in 1 .. Len(stored)})
         /\ Cardinality({stored[i].day : i \in 1 .. Len(stored)}) \in Nat
<1> DEFINE first == Max({1, Len(stored) - Reach + 1})
           reached == SubSeq(stored, first, Len(stored))
           D == {p.day : p \in Range(reached)}
           days == InOrder(D)
           vector(d) == reached[Min({i \in DOMAIN reached : reached[i].day = d})]
           all == {stored[i].day : i \in 1 .. Len(stored)}
<1>1. Len(stored) \in Nat /\ DOMAIN stored = 1 .. Len(stored)
  OBVIOUS
<1>2. first \in Nat \ {0}
  <2>1. Reach \in Nat
    BY ScoringAssumption DEF ScoringAssumption
  <2>2. Len(stored) - Reach + 1 \in Int
    BY <1>1, <2>1
  <2> QED
    BY <2>2, LargerOf
<1>3. /\ reached \in Seq(Payload)
      /\ \A i \in 1 .. Len(reached) : reached[i] = stored[first + i - 1] /\ first + i - 1 \in 1 .. Len(stored)
  <2> HIDE DEF first
  <2>1. /\ reached \in Seq(Payload)
        /\ Len(reached) = IF first <= Len(stored) THEN Len(stored) - first + 1 ELSE 0
        /\ \A i \in 1 .. Len(reached) : reached[i] = stored[first + i - 1]
    BY <1>1, <1>2, PartOf
  <2> QED
    BY <1>1, <1>2, <2>1
<1> HIDE DEF reached
<1>4. all = {p.day : p \in Range(stored)}
  BY <1>1 DEF Range
<1>5. IsFiniteSet(all) /\ Cardinality(all) \in Nat
  BY <1>4, DaysAreFinite, FS_CardinalityType
<1>6. IsFiniteSet(D) /\ D \subseteq Nat
  BY <1>3, DaysAreFinite
<1>7. DOMAIN reached = 1 .. Len(reached) /\ Len(reached) \in Nat
  BY <1>3
<1>8. D \in SUBSET all
  BY <1>3, <1>7 DEF Range
<1>9. \A d \in D : vector(d) \in Payload
  <2> SUFFICES ASSUME NEW d \in D PROVE vector(d) \in Payload
    OBVIOUS
  <2> DEFINE places == {i \in DOMAIN reached : reached[i].day = d}
  <2>1. places # {} /\ places \subseteq Nat
    BY <1>7 DEF Range
  <2>2. Min(places) \in places
    <3> HIDE DEF places
    <3> QED
      BY <2>1, LeastOne
  <2> QED
    BY <1>3, <1>7, <2>2
<1>10. Cardinality(D) <= Cardinality(all)
  <2> HIDE DEF D, all
  <2> QED
    BY <1>5, <1>8, FS_Subset
<1> HIDE DEF D, all, vector
<1>11. Cardinality(D) \in Nat /\ days \in [1 .. Cardinality(D) -> D]
  BY <1>6, InOrderFacts
<1> DEFINE N == Cardinality(D)
<1>12. Len(days) = N
  BY <1>11
<1>13. StoredDays = [i \in 1 .. N |-> vector(days[i])]
  BY <1>12 DEF StoredDays, reached, D, vector
<1> HIDE DEF N, days
<1>14. N \in Nat /\ StoredDays \in [1 .. N -> Payload]
  BY <1>9, <1>11, <1>13 DEF N
<1>15. StoredDays \in Seq(Payload) /\ Len(StoredDays) = N
  BY <1>14
<1> QED
  BY <1>5, <1>10, <1>15 DEF N, all

\* So are the last of them, and what _build_daily_sequence makes of them has today's
\* payload more.
LEMMA DailySequenceFacts ==
  ASSUME stored \in Seq(Payload), today \in Nat, NEW p \in Payload
  PROVE  /\ DailySequence(p) \in Seq(Payload)
         /\ Len(DailySequence(p)) <= 1 + Cardinality({stored[i].day : i \in 1 .. Len(stored)})
         /\ Len(DailySequence(p)) >= 1
         /\ DailySequence(p)[Len(DailySequence(p))].kind = p.kind
<1> DEFINE newest == IF SameName THEN Reverse(LastDays(MinDays)) ELSE <<>>
           bad == {i \in 1 .. Len(newest) : newest[i].kind \in TextKinds}
           good == IF bad = {} THEN newest ELSE SubSeq(newest, 1, Min(bad) - 1)
           last == [p EXCEPT !.day = today]
           many == Cardinality({stored[i].day : i \in 1 .. Len(stored)})
<1>1. MinDays \in Nat
  BY ScoringAssumption, TrainingAssumption DEF ScoringAssumption, TrainingAssumption
<1>2. /\ StoredDays \in Seq(Payload) /\ Len(StoredDays) \in Nat
      /\ Len(StoredDays) <= many /\ many \in Nat
  BY StoredDaysFacts
<1> HIDE DEF many
<1>3. /\ LastDays(MinDays) \in Seq(Payload) /\ Len(LastDays(MinDays)) \in Nat
      /\ Len(LastDays(MinDays)) <= many
  <2>1. CASE Len(StoredDays) <= MinDays
    BY <1>2, <2>1 DEF LastDays
  <2>2. CASE ~(Len(StoredDays) <= MinDays)
    <3> DEFINE m == Len(StoredDays) - MinDays + 1
               part == SubSeq(StoredDays, m, Len(StoredDays))
    <3>1. m \in Nat \ {0}
      BY <1>1, <1>2, <2>2
    <3> HIDE DEF m
    <3>2. part \in Seq(Payload) /\ Len(part) <= Len(StoredDays)
      BY <1>2, <3>1, PartOf
    <3>3. LastDays(MinDays) = part
      BY <2>2 DEF LastDays, m
    <3> HIDE DEF part
    <3>4. Len(part) \in Nat
      BY <3>2
    <3> QED
      BY <1>2, <3>2, <3>3, <3>4
  <2> QED
    BY <2>1, <2>2
<1>4. newest \in Seq(Payload) /\ Len(newest) \in Nat /\ Len(newest) <= many
  <2>1. CASE SameName
    <3> DEFINE s == LastDays(MinDays)
               t == [i \in 1 .. Len(s) |-> s[(Len(s) - i) + 1]]
    <3>1. newest = t
      BY <2>1 DEF Reverse
    <3> HIDE DEF s
    <3>2. s \in Seq(Payload) /\ Len(s) \in Nat /\ Len(s) <= many
      BY <1>3 DEF s
    <3>3. \A i \in 1 .. Len(s) : s[(Len(s) - i) + 1] \in Payload
      BY <3>2
    <3>4. t \in [1 .. Len(s) -> Payload]
      BY <3>3
    <3> HIDE DEF t
    <3>5. t \in Seq(Payload) /\ Len(t) = Len(s)
      BY <3>2, <3>4
    <3> QED
      BY <3>1, <3>2, <3>5
  <2>2. CASE ~SameName
    BY <1>2, <2>2
  <2> QED
    BY <2>1, <2>2
<1> HIDE DEF newest
<1>5. good \in Seq(Payload) /\ Len(good) \in Nat /\ Len(good) <= many
  <2>1. CASE bad = {}
    BY <1>4, <2>1
  <2>2. CASE bad # {}
    <3>1. bad \subseteq Nat
      BY <1>4
    <3>2. Min(bad) \in bad
      <4> HIDE DEF bad
      <4> QED
        BY <2>2, <3>1, LeastOne
    <3>3. Min(bad) \in 1 .. Len(newest)
      BY <3>2
    <3> DEFINE m == Min(bad) - 1
    <3>4. m \in Int /\ m <= Len(newest) /\ 1 \in Nat \ {0}
      BY <1>4, <3>3
    <3> HIDE DEF m
    <3>5. SubSeq(newest, 1, m) \in Seq(Payload) /\ Len(SubSeq(newest, 1, m)) <= Len(newest)
      BY <1>4, <3>4, PartOf
    <3>6. good = SubSeq(newest, 1, m)
      BY <2>2 DEF m
    <3> HIDE DEF good
    <3>7. Len(good) \in Nat
      BY <3>5, <3>6
    <3> QED
      BY <1>2, <1>4, <3>5, <3>6, <3>7
  <2> QED
    BY <2>1, <2>2
<1>6. last \in Payload /\ last.kind = p.kind
  BY DEF Payload
<1>7. DailySequence(p) = Append(good, last)
  BY DEF DailySequence, newest
<1> HIDE DEF good, last
<1>8. /\ Append(good, last) \in Seq(Payload)
      /\ Len(Append(good, last)) = Len(good) + 1
      /\ Append(good, last)[Len(good) + 1] = last
  BY <1>5, <1>6
<1> QED
  BY <1>2, <1>5, <1>6, <1>7, <1>8 DEF many

-----------------------------------------------------------------------------
(* The detectors *)

BaselineType(b) ==
  /\ DOMAIN b = {"count", "means", "stds", "sums", "counts", "date"}
  /\ b.count \in Nat /\ b.date \in Nat
  /\ DOMAIN b.means = DOMAIN b.stds /\ DOMAIN b.sums = DOMAIN b.counts
  /\ \A c \in DOMAIN b.means : b.means[c] \in Nat /\ b.stds[c] \in Nat /\ b.stds[c] >= 10
  /\ \A c \in DOMAIN b.sums : b.sums[c] \in Nat /\ b.counts[c] \in Nat \ {0}

\* The constants that are numbers.
LEMMA Constants ==
  /\ Warm \in Nat \ {0} /\ MaxDay \in Nat \ {0} /\ MaxFaults \in Nat /\ Window \in Nat \ {0}
  /\ MinDays = Window + 1
BY ScoringAssumption, TrainingAssumption DEF ScoringAssumption, TrainingAssumption

\* The features the model sees and those the baseline learns are numbers.
LEMMA FeatureFacts ==
  ASSUME NEW kind \in Kinds
  PROVE  /\ \A c \in ModelColumns : OrderedOf[kind][c] \in Nat
         /\ \A c \in DOMAIN LearntOf[kind] : LearntOf[kind][c] \in Nat
<1> DEFINE f == FeaturesOf[kind]
<1>1. \A name \in DOMAIN f : f[name] \in Nat
  BY ScoringAssumption DEF ScoringAssumption, Range
<1> HIDE DEF f
<1>2. \A name : Value(f, name) \in Nat
  BY <1>1 DEF Value
<1>3. Accesses(f) \in Nat
  BY <1>2 DEF Accesses
<1>4. \A c \in ModelColumns : Ordered(f)[c] \in Nat
  <2> SUFFICES ASSUME NEW c \in ModelColumns PROVE Ordered(f)[c] \in Nat
    OBVIOUS
  <2> HIDE DEF ModelColumns
  <2>1. Value(f, Alias(c)) \in Nat
    BY <1>2
  <2> DEFINE alias == Value(f, Alias(c))
             parts == Accesses(f)
  <2>2. Ordered(f)[c] = CASE c \in DOMAIN f -> f[c]
                          [] c \notin DOMAIN f /\ c = "file_access_count" -> parts
                          [] OTHER -> alias
    BY DEF Ordered
  <2> HIDE DEF alias, parts
  <2>3. alias \in Nat /\ parts \in Nat
    BY <1>3, <2>1 DEF alias, parts
  <2>4. CASE c \in DOMAIN f
    BY <1>1, <2>2, <2>4
  <2>5. CASE c \notin DOMAIN f /\ c = "file_access_count"
    BY <2>2, <2>3, <2>5
  <2>6. CASE c \notin DOMAIN f /\ c # "file_access_count"
    BY <2>2, <2>3, <2>6
  <2> QED
    BY <2>4, <2>5, <2>6
<1>5. OrderedOf[kind] = Ordered(f)
  BY DEF OrderedOf, f
<1>6. LearntOf[kind] = [c \in Known(f) |-> Ordered(f)[c]]
  BY <1>5 DEF LearntOf, f
<1>7. Known(f) \subseteq ModelColumns
  BY DEF Known
<1> QED
  BY <1>4, <1>5, <1>6, <1>7

\* Confidence grows with the samples.
LEMMA ConfidenceFacts ==
  ASSUME BaselineType(baseline), NEW cold \in Percent
  PROVE  /\ BaselineConfidence(cold) \in Percent
         /\ cold < 80 /\ BaselineConfidence(cold) >= 80 => 5 * baseline.count >= 4 * Warm
<1> DEFINE n == baseline.count
           full == (100 * n) \div Warm
<1>1. n \in Nat /\ Warm \in Nat \ {0} /\ 100 * n \in Nat
  BY Constants DEF BaselineType
<1>2. full \in Nat /\ full * Warm <= 100 * n
  <2> HIDE DEF n
  <2> QED
    BY <1>1, Whole
<1>3. CASE n = 0
  BY <1>3 DEF BaselineConfidence, Percent
<1>4. CASE n # 0
  <2> HIDE DEF full
  <2>1. Min({full, 100}) = IF full <= 100 THEN full ELSE 100
    BY <1>2, SmallerOf
  <2>2. BaselineConfidence(cold) = IF full <= 100 THEN full ELSE 100
    BY <1>4, <2>1 DEF BaselineConfidence, full
  <2>3. full >= 80 => 80 * Warm <= 100 * n
    <3> SUFFICES ASSUME full >= 80 PROVE 80 * Warm <= 100 * n
      OBVIOUS
    <3>1. 80 * Warm <= full * Warm
      BY <1>1, <1>2
    <3> HIDE DEF n
    <3> QED
      BY <1>1, <1>2, <3>1
  <2>4. 80 * Warm <= 100 * n => 5 * n >= 4 * Warm
    <3> HIDE DEF n
    <3> QED
      BY <1>1
  <2> QED
    BY <1>2, <2>2, <2>3, <2>4 DEF Percent
<1> QED
  BY <1>3, <1>4

\* The deviations give a score and columns.
LEMMA ZScoreFacts ==
  ASSUME BaselineType(baseline), NEW f, \A c \in ModelColumns : f[c] \in Nat
  PROVE  ZScore(f) \in [score : Score, conf : Percent, features : SUBSET ModelColumns,
                        mode : {"none", "if_only", "full"}]
<1> HIDE DEF ModelColumns
<1>1. Spikes(f) \subseteq ModelColumns
  BY DEF Spikes
<1>2. \A c : Mean(c) \in Nat
  BY DEF Mean, BaselineType
<1>3. \A c : Std(c) \in Nat /\ Std(c) >= 10
  <2> SUFFICES ASSUME NEW c PROVE Std(c) \in Nat /\ Std(c) >= 10
    OBVIOUS
  <2> DEFINE a == IF c \in DOMAIN baseline.stds THEN baseline.stds[c] ELSE 10
             b == Mean(c) \div 4
  <2>1. a \in Nat
    BY DEF BaselineType
  <2>2. b \in Nat
    BY <1>2
  <2>3. Std(c) = Max({a, 10, b})
    BY DEF Std
  <2> HIDE DEF a, b
  <2>4. Max({a, 10, b}) \in {a, 10, b} /\ Max({a, 10, b}) >= 10
    BY <2>1, <2>2, LargestOf
  <2> QED
    BY <2>1, <2>2, <2>3, <2>4
<1>4. \A c \in Spikes(f) : Min({1000, (50 * (f[c] - Mean(c))) \div Std(c)}) \in Score
  <2> SUFFICES ASSUME NEW c \in Spikes(f)
               PROVE  Min({1000, (50 * (f[c] - Mean(c))) \div Std(c)}) \in Score
    OBVIOUS
  <2>1. c \in ModelColumns /\ f[c] - Mean(c) > 8 * Std(c)
    BY DEF Spikes
  <2> DEFINE d == f[c] - Mean(c)
             s == Std(c)
             q == (50 * d) \div s
  <2>2. f[c] \in Nat /\ Mean(c) \in Nat /\ s \in Nat /\ s >= 10
    BY <1>1, <1>2, <1>3, <2>1
  <2>3. d \in Nat
    BY <2>1, <2>2
  <2> HIDE DEF d, s
  <2>4. q \in Nat
    BY <2>2, <2>3
  <2> HIDE DEF q
  <2>5. Min({1000, q}) = IF 1000 <= q THEN 1000 ELSE q
    BY <2>4, SmallerOf
  <2>6. Min({1000, q}) \in Score
    BY <2>4, <2>5 DEF Score
  <2> QED
    BY <2>6 DEF q, d, s
<1> DEFINE scores == {Min({1000, (50 * (f[c] - Mean(c))) \div Std(c)}) : c \in Spikes(f)}
<1>5. Spikes(f) # {} => Max(scores) \in Score
  <2> SUFFICES ASSUME Spikes(f) # {} PROVE Max(scores) \in Score
    OBVIOUS
  <2>0. PICK c \in Spikes(f) : TRUE
    OBVIOUS
  <2>1. scores \subseteq Score /\ scores # {}
    <3> DEFINE capped(x) == Min({1000, (50 * (f[x] - Mean(x))) \div Std(x)})
    <3>1. scores = {capped(x) : x \in Spikes(f)} /\ \A x \in Spikes(f) : capped(x) \in Score
      BY <1>4
    <3> HIDE DEF capped, scores
    <3>2. capped(c) \in scores
      BY <2>0, <3>1
    <3> QED
      BY <3>1, <3>2
  <2> DEFINE bound == 1000
  <2> HIDE DEF scores
  <2>2. scores \subseteq Nat /\ bound \in Nat /\ \A y \in scores : y <= bound
    BY <2>1, ScoreIsNat
  <2> HIDE DEF bound
  <2>3. Max(scores) \in scores
    BY <2>1, <2>2, GreatestOne
  <2> QED
    BY <2>1, <2>3
<1>6. 10 \in Percent /\ 0 \in Percent /\ 0 \in Score
  BY DEF Percent, Score
<1>7. BaselineConfidence(10) \in Percent
  BY <1>6, ConfidenceFacts
<1> DEFINE score == IF Spikes(f) = {} THEN 0 ELSE Max(scores)
           conf == IF baseline.count = 0 THEN 0 ELSE BaselineConfidence(10)
<1>8. score \in Score /\ conf \in Percent
  BY <1>5, <1>6, <1>7
<1>9. ZScore(f) = [score |-> score, conf |-> conf, features |-> Spikes(f), mode |-> "none"]
  <2>1. ZScore(f) = [Silent(conf) EXCEPT !.score = score, !.features = Spikes(f)]
    BY DEF ZScore
  <2> HIDE DEF score, conf
  <2> QED
    BY <2>1 DEF Silent
<1> HIDE DEF score, conf
<1> QED
  BY <1>1, <1>8, <1>9

ResultType == [score : Score, conf : Percent, features : SUBSET ModelColumns,
               mode : {"none", "if_only", "full"}]

\* What a detector without a finding gives.
LEMMA SilentFacts ==
  ASSUME NEW conf \in Percent
  PROVE  Silent(conf) \in ResultType /\ Silent(conf).score = 0 /\ Silent(conf).conf = conf
BY DEF Silent, ResultType, Score

\* What a payload is, and the scores the models give its kind.
LEMMA PayloadFacts ==
  /\ \A p \in Payload : p.kind \in Kinds /\ p.day \in Nat
  /\ \A kind \in Kinds : RiskOf[kind] \in Score /\ ProbOf[kind] \in Score
  /\ \A window \in [1 .. Window -> Kinds] : Predict[window] \in Score
<1>1. \A p \in Payload : p.kind \in Kinds /\ p.day \in Nat
  BY DEF Payload
<1>2. /\ RiskOf \in [Kinds -> Score] /\ ProbOf \in [Kinds -> Score]
      /\ Predict \in [[1 .. Window -> Kinds] -> Score]
  BY ScoringAssumption DEF ScoringAssumption, Score
<1> QED
  BY <1>1, <1>2

\* The drift of a history that is long enough is a number.
LEMMA DriftFacts ==
  ASSUME NEW s \in Seq(Payload), Len(s) >= MinDays
  PROVE  Drift(s) \in Nat
<1> DEFINE n == Len(s)
           window == [j \in 1 .. Window |-> s[n - Window - 1 + j].kind]
           off == Fused(s[n].kind) - Predict[window]
<1>1. n \in Nat /\ Window \in Nat \ {0} /\ n >= Window + 1
  BY Constants
<1>2. \A j \in 1 .. Window : s[n - Window - 1 + j].kind \in Kinds
  <2>1. \A j \in 1 .. Window : s[n - Window - 1 + j] \in Payload
    BY <1>1
  <2> QED
    BY <2>1, PayloadFacts
<1>3. window \in [1 .. Window -> Kinds]
  BY <1>2
<1>4. Predict[window] \in Int
  <2> HIDE DEF window
  <2> QED
    BY <1>3, PayloadFacts, ScoreIsNat
<1>5. s[n].kind \in Kinds
  <2>1. s[n] \in Payload
    BY <1>1
  <2> QED
    BY <2>1, PayloadFacts
<1>6. Fused(s[n].kind) \in Int
  <2>1. RiskOf[s[n].kind] \in Int /\ ProbOf[s[n].kind] \in Int
    BY <1>5, PayloadFacts, ScoreIsNat
  <2> DEFINE a == RiskOf[s[n].kind]
             b == ProbOf[s[n].kind]
  <2>2. Fused(s[n].kind) = (3 * a + 7 * b) \div 10
    BY DEF Fused
  <2>4. a \in Int /\ b \in Int
    BY <2>1
  <2> HIDE DEF a, b
  <2>3. (3 * a + 7 * b) \div 10 \in Int
    BY <2>4
  <2> QED
    BY <2>2, <2>3
<1>7. off \in Int
  BY <1>4, <1>6
<1>8. Drift(s) = off * off
  BY DEF Drift
<1> HIDE DEF off
<1>9. off * off \in Nat
  BY <1>7
<1> QED
  BY <1>8, <1>9

\* The engine is sure of a score only with all its files, a full history and enough samples.
LEMMA PipelineFacts ==
  ASSUME stored \in Seq(Payload), today \in Nat, BaselineType(baseline), NEW p \in Payload
  PROVE  /\ Pipeline(p) \in ResultType
         /\ Pipeline(p).conf >= 80 =>
              /\ artifacts = "all" /\ Pipeline(p).mode = "full"
              /\ Len(DailySequence(p)) >= MinDays
              /\ 5 * baseline.count >= 4 * Warm
<1> DEFINE s == DailySequence(p)
           sure == BaselineConfidence(30)
           drift == Drift(s) \div 100
<1>1. s \in Seq(Payload) /\ Len(s) \in Nat /\ MinDays \in Nat
  <2>1. s \in Seq(Payload)
    BY DailySequenceFacts
  <2> HIDE DEF s
  <2> QED
    BY <2>1, Constants
<1>2. sure \in Percent /\ (sure >= 80 => 5 * baseline.count >= 4 * Warm)
  <2> DEFINE cold == 30
  <2>1. cold \in Percent /\ cold < 80
    BY DEF Percent
  <2> HIDE DEF cold
  <2>2. /\ BaselineConfidence(cold) \in Percent
        /\ BaselineConfidence(cold) >= 80 => 5 * baseline.count >= 4 * Warm
    BY <2>1, ConfidenceFacts
  <2> QED
    BY <2>2 DEF cold
<1>3. RiskOf[p.kind] \in Score
  BY PayloadFacts
<1> HIDE DEF sure, s
<1>4. sure \in Nat /\ sure <= 100
  BY <1>2 DEF Percent
<1>5. sure \div 2 \in Percent /\ sure \div 2 < 80
  BY <1>4 DEF Percent
<1>6. CASE artifacts # "all"
  <2>1. Pipeline(p) = Silent(0)
    BY <1>6 DEF Pipeline
  <2>2. 0 \in Percent
    BY DEF Percent
  <2>3. Silent(0) \in ResultType /\ Silent(0).conf = 0
    BY <2>2, SilentFacts
  <2> QED
    BY <2>1, <2>3
<1>7. CASE artifacts = "all" /\ Len(s) < MinDays
  <2>1. Pipeline(p) = [Silent(sure \div 2) EXCEPT !.score = RiskOf[p.kind], !.mode = "if_only"]
    BY <1>7 DEF Pipeline, sure, s
  <2>2. Pipeline(p) = [score |-> RiskOf[p.kind], conf |-> sure \div 2, features |-> {}, mode |-> "if_only"]
    BY <2>1 DEF Silent
  <2> DEFINE half == sure \div 2
  <2>3. half \in Percent /\ half < 80
    BY <1>5
  <2>4. Pipeline(p) = [score |-> RiskOf[p.kind], conf |-> half, features |-> {}, mode |-> "if_only"]
    BY <2>2
  <2> HIDE DEF half
  <2>5. Pipeline(p) \in ResultType
    BY <1>3, <2>3, <2>4 DEF ResultType
  <2>6. ~(half >= 80)
    <3>1. half \in Int
      BY <2>3 DEF Percent
    <3> QED
      BY <2>3, <3>1
  <2> QED
    BY <2>4, <2>5, <2>6
<1>8. CASE artifacts = "all" /\ ~(Len(s) < MinDays)
  <2>1. Pipeline(p) = [Silent(sure) EXCEPT !.score = Min({1000, drift}), !.mode = "full"]
    BY <1>8 DEF Pipeline, sure, s
  <2>2. Pipeline(p) = [score |-> Min({1000, drift}), conf |-> sure, features |-> {}, mode |-> "full"]
    <3> DEFINE least == Min({1000, drift})
    <3>1. Pipeline(p) = [Silent(sure) EXCEPT !.score = least, !.mode = "full"]
      BY <2>1
    <3> HIDE DEF least
    <3>2. Pipeline(p) = [score |-> least, conf |-> sure, features |-> {}, mode |-> "full"]
      BY <3>1 DEF Silent
    <3> QED
      BY <3>2 DEF least
  <2>3. drift \in Nat
    BY <1>1, <1>8, DriftFacts
  <2> HIDE DEF drift
  <2>4. Min({1000, drift}) \in Score
    <3> DEFINE least == Min({1000, drift})
    <3>1. least = IF 1000 <= drift THEN 1000 ELSE drift
      BY <2>3, SmallerOf
    <3> HIDE DEF least
    <3>2. least \in Nat /\ least <= 1000
      BY <2>3, <3>1
    <3>3. least \in Score
      BY <3>2 DEF Score
    <3> QED
      BY <3>3 DEF least
  <2>5. Pipeline(p) \in ResultType
    BY <1>2, <2>2, <2>4 DEF ResultType
  <2>6. Len(s) >= MinDays
    BY <1>1, <1>8
  <2> QED
    BY <1>2, <1>8, <2>2, <2>5, <2>6 DEF s
<1> QED
  BY <1>6, <1>7, <1>8

\* run_all gives a result for each detector, that of a silent one for those that fail.
LEMMA RunAllFacts ==
  ASSUME stored \in Seq(Payload), today \in Nat, BaselineType(baseline), NEW p \in Payload, NEW failed
  PROVE  /\ RunAll(p, failed) \in Results
         /\ RunAll(p, failed)["advanced_pipeline"]
              = IF "advanced_pipeline" \in failed THEN Failed ELSE Pipeline(p)
         /\ RunAll(p, failed)["auth_burst"].score = 0
         /\ \A d \in Detectors : \/ RunAll(p, failed)[d] = RunAll(p, {})[d]
                                 \/ RunAll(p, failed)[d] = Failed
<1> DEFINE cold == IF baseline.count = 0 THEN 0 ELSE BaselineConfidence(10)
           working(d) ==
             CASE d = "tamper_detector" -> Silent(100)
               [] d = "auth_burst" -> Silent(cold)
               [] d = "zscore" -> ZScore(OrderedOf[p.kind])
               [] d = "advanced_pipeline" -> Pipeline(p)
           result(d, out) == IF d \in out THEN Failed ELSE working(d)
<1>1. 0 \in Percent /\ 100 \in Percent /\ 10 \in Percent
  BY DEF Percent
<1>2. cold \in Percent
  BY <1>1, ConfidenceFacts
<1>3. Failed \in ResultType /\ Failed.score = 0
  BY <1>1, SilentFacts DEF Failed
<1>4. p.kind \in Kinds
  BY DEF Payload
<1>5. ZScore(OrderedOf[p.kind]) \in ResultType
  BY <1>4, FeatureFacts, ZScoreFacts DEF ResultType
<1>6. Pipeline(p) \in ResultType
  BY PipelineFacts
<1> HIDE DEF cold
<1>7. Silent(100) \in ResultType /\ Silent(cold) \in ResultType /\ Silent(cold).score = 0
  BY <1>1, <1>2, SilentFacts
<1>8. \A d \in Detectors : working(d) \in ResultType
  BY <1>5, <1>6, <1>7 DEF Detectors
<1>9. working("auth_burst") = Silent(cold) /\ working("advanced_pipeline") = Pipeline(p)
  OBVIOUS
<1>10. ASSUME NEW out
       PROVE  RunAll(p, out) = [d \in Detectors |-> result(d, out)]
  <2> DEFINE code(d) ==
        CASE d \in out -> Failed
          [] d \notin out /\ d = "tamper_detector" -> Silent(100)
          [] d \notin out /\ d = "auth_burst" -> Silent(cold)
          [] d \notin out /\ d = "zscore" -> ZScore(OrderedOf[p.kind])
          [] d \notin out /\ d = "advanced_pipeline" -> Pipeline(p)
  <2>1. RunAll(p, out) = [d \in Detectors |-> code(d)]
    BY DEF RunAll, cold
  <2>2. \A d \in Detectors : code(d) = result(d, out)
    BY DEF Detectors
  <2> HIDE DEF code, result
  <2> QED
    BY <2>1, <2>2
<1> HIDE DEF working
<1>11. \A d \in Detectors : result(d, failed) \in ResultType
  BY <1>3, <1>8
<1>12. RunAll(p, failed) \in [Detectors -> ResultType]
  <2> HIDE DEF result
  <2> QED
    BY <1>10, <1>11
<1>13. \A d \in Detectors : RunAll(p, failed)[d] = result(d, failed) /\ RunAll(p, {})[d] = result(d, {})
  <2> HIDE DEF result
  <2> QED
    BY <1>10
<1>14. RunAll(p, failed) \in Results
  BY <1>12 DEF Results, ResultType
<1>15. "advanced_pipeline" \in Detectors /\ "auth_burst" \in Detectors
  BY DEF Detectors
<1> QED
  BY <1>3, <1>7, <1>9, <1>13, <1>14, <1>15

-----------------------------------------------------------------------------
(* The baseline *)

\* What is left when numbers are averaged or taken from each other is a number.
LEMMA NumbersAveraged ==
  ASSUME NEW a \in Nat, NEW b \in Nat
  PROVE  Averaged(a, b) \in Nat /\ Distance(a, b) \in Nat
BY DEF Averaged, Distance

\* The merge of a day leaves averages and deviations of at least 10 for the same features,
\* and an empty buffer.
LEMMA MergedFacts ==
  ASSUME NEW b, BaselineType(b)
  PROVE  BaselineType(Merged(b)) /\ Merged(b).count = b.count
<1> DEFINE day == [c \in DOMAIN b.sums |-> b.sums[c] \div b.counts[c]]
           oldMean(c) == Entry(b.means, c, day[c])
           oldStd(c) == Entry(b.stds, c, 10)
           means == [c \in DOMAIN day \cup DOMAIN b.means |->
                      IF c \in DOMAIN day THEN Averaged(oldMean(c), day[c]) ELSE b.means[c]]
           stds == [c \in DOMAIN day \cup DOMAIN b.stds |->
                     IF c \notin DOMAIN day THEN b.stds[c]
                     ELSE Max({Averaged(oldStd(c), Distance(day[c], means[c])), means[c] \div 4, 10})]
<1>1. Merged(b) = [b EXCEPT !.means = means, !.stds = stds, !.sums = <<>>, !.counts = <<>>]
  BY DEF Merged
<1>2. /\ DOMAIN b = {"count", "means", "stds", "sums", "counts", "date"}
      /\ b.count \in Nat /\ b.date \in Nat
      /\ DOMAIN b.means = DOMAIN b.stds /\ DOMAIN b.sums = DOMAIN b.counts
  BY DEF BaselineType
<1>3. \A c \in DOMAIN b.means : b.means[c] \in Nat /\ b.stds[c] \in Nat /\ b.stds[c] >= 10
  BY DEF BaselineType
<1>4. \A c \in DOMAIN day : day[c] \in Nat
  <2> SUFFICES ASSUME NEW c \in DOMAIN b.sums PROVE b.sums[c] \div b.counts[c] \in Nat
    OBVIOUS
  <2>1. b.sums[c] \in Nat /\ b.counts[c] \in Nat \ {0}
    BY DEF BaselineType
  <2> QED
    BY <2>1, Whole
<1> HIDE DEF day
<1>5. \A c \in DOMAIN day : oldMean(c) \in Nat /\ oldStd(c) \in Nat
  BY <1>2, <1>3, <1>4 DEF Entry
<1> HIDE DEF oldMean, oldStd
<1>6. \A c \in DOMAIN means : means[c] \in Nat
  BY <1>3, <1>4, <1>5, NumbersAveraged
<1> HIDE DEF means
<1>7. DOMAIN means = DOMAIN day \cup DOMAIN b.means
  BY DEF means
<1>8. \A c \in DOMAIN stds : stds[c] \in Nat /\ stds[c] >= 10
  <2> SUFFICES ASSUME NEW c \in DOMAIN day \cup DOMAIN b.stds PROVE stds[c] \in Nat /\ stds[c] >= 10
    OBVIOUS
  <2>1. CASE c \notin DOMAIN day
    <3>1. stds[c] = b.stds[c] /\ c \in DOMAIN b.means
      BY <1>2, <2>1
    <3> QED
      BY <1>3, <3>1
  <2>2. CASE c \in DOMAIN day
    <3> DEFINE off == Averaged(oldStd(c), Distance(day[c], means[c]))
               quarter == means[c] \div 4
    <3>1. stds[c] = Max({off, quarter, 10})
      BY <2>2
    <3>2. means[c] \in Nat
      BY <1>6, <1>7, <2>2
    <3>3. off \in Nat /\ quarter \in Nat
      <4>1. Distance(day[c], means[c]) \in Nat
        BY <1>4, <2>2, <3>2, NumbersAveraged
      <4>2. oldStd(c) \in Nat
        BY <1>5, <2>2
      <4>3. off \in Nat
        BY <4>1, <4>2, NumbersAveraged
      <4> QED
        BY <3>2, <4>3
    <3> HIDE DEF off, quarter, stds
    <3> DEFINE ten == 10
               most == Max({off, quarter, ten})
    <3>4. off \in Int /\ quarter \in Int /\ ten \in Int
      BY <3>3
    <3> HIDE DEF ten
    <3>5. most \in {off, quarter, ten} /\ most >= ten
      BY <3>4, LargestOf
    <3>6. stds[c] = most
      BY <3>1 DEF ten
    <3> HIDE DEF most
    <3> QED
      BY <3>3, <3>5, <3>6 DEF ten
  <2> QED
    BY <2>1, <2>2
<1>9. DOMAIN stds = DOMAIN means
  BY <1>2, <1>7
<1> HIDE DEF stds
<1>10. /\ DOMAIN Merged(b) = DOMAIN b
       /\ Merged(b).count = b.count /\ Merged(b).date = b.date
       /\ Merged(b).means = means /\ Merged(b).stds = stds
       /\ Merged(b).sums = <<>> /\ Merged(b).counts = <<>>
  BY <1>1, <1>2
<1>11. DOMAIN <<>> = {}
  OBVIOUS
<1> QED
  BY <1>2, <1>6, <1>8, <1>9, <1>10, <1>11 DEF BaselineType

\* A payload that is learnt counts once.
LEMMA UpdatedFacts ==
  ASSUME NEW b, BaselineType(b), today \in Nat, NEW f, \A c \in DOMAIN f : f[c] \in Nat
  PROVE  BaselineType(Updated(b, f)) /\ Updated(b, f).count = b.count + 1
<1> DEFINE base == IF b.date \notin {0, today} THEN Merged(b) ELSE b
           ones == [c \in DOMAIN f |-> 1]
           sums == Plus(base.sums, f)
           counts == Plus(base.counts, ones)
<1>1. BaselineType(base) /\ base.count = b.count
  BY MergedFacts
<1>2. Updated(b, f) = [base EXCEPT !.count = @ + 1, !.date = today, !.sums = Plus(@, f),
                                   !.counts = Plus(@, ones)]
  BY DEF Updated
<1> HIDE DEF base
<1>3. /\ DOMAIN base = {"count", "means", "stds", "sums", "counts", "date"}
      /\ base.count \in Nat /\ DOMAIN base.sums = DOMAIN base.counts
  BY <1>1 DEF BaselineType
<1>4. \A c \in DOMAIN base.sums : base.sums[c] \in Nat /\ base.counts[c] \in Nat \ {0}
  BY <1>1 DEF BaselineType
<1>5. /\ DOMAIN sums = DOMAIN base.sums \cup DOMAIN f /\ DOMAIN counts = DOMAIN sums
      /\ \A c \in DOMAIN sums : sums[c] \in Nat /\ counts[c] \in Nat \ {0}
  BY <1>3, <1>4 DEF Plus, Entry
<1> HIDE DEF sums, counts, ones
<1>6. Updated(b, f) = [base EXCEPT !.count = base.count + 1, !.date = today, !.sums = sums,
                                   !.counts = counts]
  BY <1>2 DEF sums, counts
<1>7. /\ DOMAIN Updated(b, f) = DOMAIN base
      /\ Updated(b, f).count = base.count + 1 /\ Updated(b, f).date = today
      /\ Updated(b, f).means = base.means /\ Updated(b, f).stds = base.stds
      /\ Updated(b, f).sums = sums /\ Updated(b, f).counts = counts
  BY <1>3, <1>6
<1>8. /\ DOMAIN base.means = DOMAIN base.stds
      /\ \A c \in DOMAIN base.means : base.means[c] \in Nat /\ base.stds[c] \in Nat /\ base.stds[c] >= 10
  BY <1>1 DEF BaselineType
<1>9. base.count + 1 \in Nat
  BY <1>3
<1> QED
  BY <1>1, <1>3, <1>5, <1>7, <1>8, <1>9 DEF BaselineType

-----------------------------------------------------------------------------
(* The inductive invariant *)

Levels == {"low", "medium", "high", "critical"}
Lesson == [day : Nat, features : {LearntOf[kind] : kind \in Kinds}]
Days == {stored[i].day : i \in 1 .. Len(stored)}

\* The witness of a verdict above low.
KillChain(shows) ==
  \E chain \in {<<Usb, {"job_search_site_visits"}>>, <<Deletes, Logins>>,
                <<{"file_sharing_site_visits"}, Sensitive>>} :
    shows \cap chain[1] # {} /\ shows \cap chain[2] # {}
Exfiltrated(v) ==
  /\ "file_sharing_site_visits" \in v.shows
  /\ "FILE_EXFIL_GROUP" \in HeuristicsOf[stored[v.of].kind].groups
Drifted(v) ==
  /\ v.mode = "full" /\ 5 * v.samples >= 4 * Warm /\ artifacts = "all"
  /\ Cardinality(Days) >= MinDays - 1

ServingType ==
  /\ artifacts \in {"none", "columns", "all"} /\ today \in 1 .. MaxDay
  /\ stored \in Seq(Payload) /\ waiting \subseteq 1 .. Len(stored)
  /\ recent \in Seq(Score) /\ faults \in 0 .. MaxFaults
  /\ BaselineType(baseline) /\ learnt \in Seq(Lesson) /\ baseline.count = Len(learnt)
VerdictType ==
  /\ verdict \in [of : Nat, score : Score, level : Levels, mode : {"none", "if_only", "full"},
                  shows : SUBSET (DOMAIN Watermark \cup ModelColumns), samples : Nat, unfailed : Levels]
  /\ verdict # NoVerdict => verdict.of \in 1 .. Len(stored)
  /\ stage # "served" => verdict = NoVerdict
Witnessed ==
  Rank(verdict.level) > 1 => KillChain(verdict.shows) \/ Exfiltrated(verdict) \/ Drifted(verdict)
ServingInv == ServingType /\ VerdictType /\ Witnessed /\ FaultsOnlyLower

\* No verdict is low, and numbers and files of the start are in range.
LEMMA ServingStarts == Init => ServingInv
<1> SUFFICES ASSUME Init PROVE ServingInv
  OBVIOUS
<1>1. /\ artifacts = "none" /\ today = 1 /\ stored = <<>> /\ waiting = {} /\ verdict = NoVerdict
      /\ recent = <<>> /\ baseline = NoBaseline /\ learnt = <<>> /\ faults = 0
  BY DEF Init, ServingInit
<1>2. BaselineType(NoBaseline) /\ NoBaseline.count = 0
  <2>1. DOMAIN <<>> = {}
    OBVIOUS
  <2> QED
    BY <2>1 DEF BaselineType, NoBaseline
<1>3. ServingType
  <2>1. 1 \in 1 .. MaxDay /\ 0 \in 0 .. MaxFaults
    BY Constants
  <2>2. <<>> \in Seq(Payload) /\ <<>> \in Seq(Score) /\ <<>> \in Seq(Lesson) /\ Len(<<>>) = 0
    OBVIOUS
  <2> QED
    BY <1>1, <1>2, <2>1, <2>2 DEF ServingType
<1>4. NoVerdict \in [of : Nat, score : Score, level : Levels, mode : {"none", "if_only", "full"},
                     shows : SUBSET (DOMAIN Watermark \cup ModelColumns), samples : Nat, unfailed : Levels]
  BY DEF NoVerdict, Levels, Score
<1>5. VerdictType
  BY <1>1, <1>4 DEF VerdictType
<1>6. Rank(verdict.level) = 1 /\ Rank(verdict.unfailed) = 1
  BY <1>1, LevelFacts DEF NoVerdict
<1> QED
  BY <1>3, <1>5, <1>6 DEF ServingInv, Witnessed, FaultsOnlyLower

\* The verdict that is judged has a witness.
LEMMA JudgedIsWitnessed ==
  ASSUME stored \in Seq(Payload), today \in Nat, BaselineType(baseline), NEW i \in 1 .. Len(stored),
         NEW failed, NEW past \in Score,
         Rank(Level(Aggregate(stored[i].kind, HeuristicsOf[stored[i].kind],
                              RunAll(stored[i], failed), past))) > 1
  PROVE  LET results == RunAll(stored[i], failed)
             shows == Anomalous(FeaturesOf[stored[i].kind], results) IN
         \/ KillChain(shows)
         \/ /\ "file_sharing_site_visits" \in shows
            /\ "FILE_EXFIL_GROUP" \in HeuristicsOf[stored[i].kind].groups
         \/ /\ results["advanced_pipeline"].mode = "full" /\ 5 * baseline.count >= 4 * Warm
            /\ artifacts = "all" /\ Cardinality(Days) >= MinDays - 1
<1> DEFINE p == stored[i]
           h == HeuristicsOf[p.kind]
           results == RunAll(p, failed)
           shows == Anomalous(FeaturesOf[p.kind], results)
           ml == AtLeast(results["advanced_pipeline"], 75)
           z == AtLeast(results["zscore"], 85)
           cert == Cert(p.kind, h, results)
<1>1. p \in Payload /\ p.kind \in Kinds
  <2>1. p \in Payload
    OBVIOUS
  <2> QED
    BY <2>1, PayloadFacts
<1>2. h.score \in Score
  <2>1. \A n \in 0 .. 250 : n \in Score
    BY DEF Score
  <2>2. h.score \in 0 .. 250
    BY <1>1, RulesBounded DEF HeuristicsOf
  <2> HIDE DEF h
  <2> QED
    BY <2>1, <2>2
<1> HIDE DEF p
<1>3. results \in Results
  BY <1>1, RunAllFacts
<1>4. results["advanced_pipeline"] = IF "advanced_pipeline" \in failed THEN Failed ELSE Pipeline(p)
  BY <1>1, RunAllFacts
<1>5. Proven(p.kind, h, results)
  <2> HIDE DEF h, results
  <2> QED
    BY <1>2, <1>3, RaisedIsProven DEF p, h, results
<1>6. Corroborated(ml, z, Rules(h), cert)
  BY <1>5 DEF Proven
<1>7. ml.conf = IF results["advanced_pipeline"].conf >= 75 THEN results["advanced_pipeline"].conf ELSE 75
  <2> HIDE DEF results
  <2> QED
    BY <1>3, Sources DEF Detectors
<1>8. CASE ml.conf >= 80
  <2>1. results["advanced_pipeline"].conf >= 80
    BY <1>7, <1>8
  <2>2. "advanced_pipeline" \notin failed
    BY <1>4, <2>1 DEF Failed, Silent
  <2>3. results["advanced_pipeline"] = Pipeline(p)
    BY <1>4, <2>2
  <2>4. /\ artifacts = "all" /\ Pipeline(p).mode = "full" /\ Len(DailySequence(p)) >= MinDays
        /\ 5 * baseline.count >= 4 * Warm
    BY <1>1, <2>1, <2>3, PipelineFacts
  <2>5. Len(DailySequence(p)) <= 1 + Cardinality(Days) /\ Len(DailySequence(p)) \in Nat
    BY <1>1, DailySequenceFacts DEF Days
  <2>6. Cardinality(Days) \in Nat /\ MinDays \in Nat
    BY StoredDaysFacts, Constants DEF Days
  <2>7. Cardinality(Days) >= MinDays - 1
    BY <2>4, <2>5, <2>6
  <2> QED
    BY <2>3, <2>4, <2>7 DEF p
<1>9. CASE cert \cap {"CRITICAL", "HIGH"} # {}
  <2>1. \/ shows \cap Usb # {} /\ "job_search_site_visits" \in shows
        \/ shows \cap Deletes # {} /\ shows \cap Logins # {}
        \/ "file_sharing_site_visits" \in shows /\ (shows \cap Sensitive # {} \/ "FILE_EXFIL_GROUP" \in h.groups)
    <3> HIDE DEF shows
    <3> QED
      BY <1>9, CertFacts DEF Cert, shows
  <2> HIDE DEF shows
  <2>2. shows \cap Usb # {} /\ "job_search_site_visits" \in shows => KillChain(shows)
    BY DEF KillChain
  <2>3. shows \cap Deletes # {} /\ shows \cap Logins # {} => KillChain(shows)
    BY DEF KillChain
  <2>4. "file_sharing_site_visits" \in shows /\ shows \cap Sensitive # {} => KillChain(shows)
    BY DEF KillChain
  <2> QED
    BY <2>1, <2>2, <2>3, <2>4 DEF shows, p
<1>10. ml.conf >= 80 \/ cert \cap {"CRITICAL", "HIGH"} # {}
  <2>1. results["advanced_pipeline"].conf \in Int
    <3>1. results["advanced_pipeline"].conf \in Percent
      <4> HIDE DEF results
      <4> QED
        BY <1>3 DEF Results, Detectors
    <3>2. \A n \in Percent : n \in Int
      BY DEF Percent
    <3> QED
      BY <3>1, <3>2
  <2>2. ml.conf \in Int
    <3> HIDE DEF ml
    <3> QED
      BY <1>7, <2>1
  <2> HIDE DEF ml, z, cert
  <2> QED
    BY <1>6, <2>2 DEF Corroborated
<1> QED
  BY <1>8, <1>9, <1>10

-----------------------------------------------------------------------------
(* The steps *)

\* Where no verdict is left there is nothing to witness.
LEMMA NoVerdictIsWitnessed ==
  ASSUME verdict' = NoVerdict
  PROVE  Witnessed' /\ FaultsOnlyLower' /\ VerdictType'
<1>1. Rank(verdict'.level) = 1 /\ Rank(verdict'.unfailed) = 1
  BY LevelFacts DEF NoVerdict
<1>2. verdict' \in [of : Nat, score : Score, level : Levels, mode : {"none", "if_only", "full"},
                    shows : SUBSET (DOMAIN Watermark \cup ModelColumns), samples : Nat, unfailed : Levels]
  BY DEF NoVerdict, Levels, Score
<1> QED
  BY <1>1, <1>2 DEF Witnessed, FaultsOnlyLower, VerdictType

\* A verdict keeps its witness while payloads are only added.
LEMMA WitnessKept ==
  ASSUME ServingInv, verdict' = verdict, artifacts' = artifacts, stage' = stage,
         stored' \in Seq(Payload), Len(stored') >= Len(stored),
         \A i \in 1 .. Len(stored) : stored'[i] = stored[i]
  PROVE  Witnessed' /\ FaultsOnlyLower' /\ VerdictType'
<1>1. VerdictType /\ stored \in Seq(Payload) /\ Witnessed /\ FaultsOnlyLower
  BY DEF ServingInv, ServingType
<1>2. Len(stored) \in Nat /\ Len(stored') \in Nat
  BY <1>1
<1>3. VerdictType'
  BY <1>1, <1>2 DEF VerdictType
<1>4. FaultsOnlyLower'
  BY <1>1 DEF FaultsOnlyLower
<1>5. CASE verdict = NoVerdict
  BY <1>5, NoVerdictIsWitnessed
<1>6. CASE verdict # NoVerdict
  <2>1. verdict.of \in 1 .. Len(stored) /\ stored'[verdict.of] = stored[verdict.of]
    BY <1>1, <1>6 DEF VerdictType
  <2>2. Days \in SUBSET Days'
    <3>1. \A i \in 1 .. Len(stored) : i \in 1 .. Len(stored') /\ stored'[i].day = stored[i].day
      BY <1>2
    <3> QED
      BY <3>1 DEF Days
  <2>3. IsFiniteSet(Days') /\ IsFiniteSet(Days)
    <3>1. DOMAIN stored' = 1 .. Len(stored')
      OBVIOUS
    <3>2. Days' = {p.day : p \in Range(stored')}
      BY <3>1 DEF Days, Range
    <3>3. IsFiniteSet(Days')
      BY <3>2, DaysAreFinite
    <3> QED
      BY <2>2, <3>3, FS_Subset
  <2>4. /\ Cardinality(Days) <= Cardinality(Days')
        /\ Cardinality(Days) \in Nat /\ Cardinality(Days') \in Nat
    BY <2>2, <2>3, FS_Subset, FS_CardinalityType
  <2>5. Exfiltrated(verdict) => Exfiltrated(verdict)'
    BY <2>1 DEF Exfiltrated
  <2>6. Drifted(verdict) => Drifted(verdict)'
    <3>1. MinDays \in Nat
      BY Constants
    <3>2. Cardinality(Days) >= MinDays - 1 => Cardinality(Days') >= MinDays - 1
      BY <2>4, <3>1
    <3> QED
      BY <3>2 DEF Drifted
  <2>7. KillChain(verdict.shows) => KillChain(verdict'.shows)
    OBVIOUS
  <2>8. Witnessed'
    BY <1>1, <2>5, <2>6, <2>7 DEF Witnessed
  <2> QED
    BY <1>3, <1>4, <2>8
<1> QED
  BY <1>5, <1>6

\* A payload is stored.
LEMMA StepStore ==
  ASSUME ServingInv, NEW kind \in Kinds, Store(kind)
  PROVE  ServingInv'
<1> DEFINE p == [day |-> today, kind |-> kind]
<1>1. /\ stored' = Append(stored, p) /\ waiting' = waiting \cup {Len(stored')}
      /\ UNCHANGED <<artifacts, today, verdict, recent, baseline, learnt, faults>> /\ UNCHANGED pipeline
  BY DEF Store, Served
<1>2. ServingType
  BY DEF ServingInv
<1>3. p \in Payload
  BY <1>2, Constants DEF ServingType, Payload
<1> HIDE DEF p
<1>4. stored \in Seq(Payload) /\ waiting \subseteq 1 .. Len(stored)
  BY <1>2 DEF ServingType
<1>5. /\ stored' \in Seq(Payload) /\ Len(stored') = Len(stored) + 1 /\ Len(stored) \in Nat
      /\ \A i \in 1 .. Len(stored) : stored'[i] = stored[i]
  BY <1>1, <1>3, <1>4
<1>6. waiting' \subseteq 1 .. Len(stored')
  <2> DEFINE n == Len(stored)
  <2>1. n \in Nat /\ waiting \subseteq 1 .. n /\ waiting' = waiting \cup {n + 1} /\ Len(stored') = n + 1
    BY <1>1, <1>4, <1>5
  <2> HIDE DEF n
  <2> QED
    BY <2>1
<1>7. ServingType'
  BY <1>1, <1>2, <1>5, <1>6 DEF ServingType
<1>8. stage' = stage /\ Len(stored') >= Len(stored)
  BY <1>1, <1>5 DEF pipeline
<1>9. Witnessed' /\ FaultsOnlyLower' /\ VerdictType'
  BY <1>1, <1>5, <1>8, WitnessKept
<1> QED
  BY <1>7, <1>9 DEF ServingInv

\* Time passes, and what is waiting is dropped or found idle.
LEMMA StepAround ==
  ASSUME ServingInv, NextDay \/ HoursPass \/ \E i \in waiting : JudgeIdle(i)
  PROVE  ServingInv'
<1>1. ServingType
  BY DEF ServingInv
<1>2. UNCHANGED <<artifacts, stored, verdict, baseline, learnt, faults>> /\ UNCHANGED pipeline
  BY DEF NextDay, HoursPass, JudgeIdle, Served
<1>3. ServingType'
  <2>1. CASE NextDay
    <3>1. today' \in 1 .. MaxDay /\ recent' \in Seq(Score) /\ waiting' = waiting
      BY <1>1, <2>1, Constants DEF NextDay, ServingType
    <3> QED
      BY <1>1, <1>2, <3>1 DEF ServingType
  <2>2. CASE HoursPass
    <3>1. recent # <<>> /\ recent' = Tail(recent) /\ today' = today /\ waiting' = waiting
      BY <2>2 DEF HoursPass
    <3>2. recent \in Seq(Score)
      BY <1>1 DEF ServingType
    <3>3. recent' \in Seq(Score)
      BY <3>1, <3>2
    <3> QED
      BY <1>1, <1>2, <3>1, <3>3 DEF ServingType
  <2>3. CASE \E i \in waiting : JudgeIdle(i)
    <3>1. waiting' \subseteq waiting /\ today' = today /\ recent' = recent
      BY <2>3 DEF JudgeIdle
    <3> QED
      BY <1>1, <1>2, <3>1 DEF ServingType
  <2> QED
    BY <2>1, <2>2, <2>3
<1>4. /\ stage' = stage /\ stored' \in Seq(Payload) /\ Len(stored') >= Len(stored)
      /\ \A i \in 1 .. Len(stored) : stored'[i] = stored[i]
  <2>1. stored \in Seq(Payload)
    BY <1>1 DEF ServingType
  <2>2. Len(stored) \in Nat
    BY <2>1
  <2> QED
    BY <1>2, <2>1, <2>2 DEF pipeline
<1>5. Witnessed' /\ FaultsOnlyLower' /\ VerdictType'
  BY <1>2, <1>4, WitnessKept
<1> QED
  BY <1>3, <1>5 DEF ServingInv

\* A payload is judged: what failed detectors would have said gives no lower level.
LEMMA StepJudge ==
  ASSUME ServingInv, NEW i \in waiting, NEW failed \in SUBSET Detectors, Judge(i, failed)
  PROVE  ServingInv'
<1> DEFINE p == stored[i]
           results == RunAll(p, failed)
           intact == RunAll(p, {})
           h == HeuristicsOf[p.kind]
           shows == Anomalous(FeaturesOf[p.kind], results)
<1>1. ServingType
  BY DEF ServingInv
<1>2. /\ stored \in Seq(Payload) /\ i \in 1 .. Len(stored) /\ today \in Nat /\ BaselineType(baseline)
      /\ recent \in Seq(Score) /\ faults \in Nat
  BY <1>1, Constants DEF ServingType
<1>3. p \in Payload /\ p.kind \in Kinds
  <2>1. p \in Payload
    BY <1>2
  <2> QED
    BY <2>1, PayloadFacts
<1>4. PICK past \in {0, Max({0} \cup Range(recent))} :
        /\ faults' = faults + Cardinality(failed) + IF past = 0 /\ recent # <<>> THEN 1 ELSE 0
        /\ faults' <= MaxFaults
        /\ verdict' =
             [of |-> i, score |-> Aggregate(p.kind, h, results, past),
              level |-> Level(Aggregate(p.kind, h, results, past)),
              mode |-> results["advanced_pipeline"].mode,
              shows |-> shows, samples |-> baseline.count,
              unfailed |-> Level(Aggregate(p.kind, h, intact, past))]
  BY DEF Judge
<1>5. /\ UNCHANGED <<artifacts, today, stored, waiting, recent, baseline, learnt>> /\ UNCHANGED pipeline
      /\ stage = "served"
  BY DEF Judge, Served
<1>6. past \in Score
  <2> DEFINE all == {0} \cup Range(recent)
             bound == 1000
  <2>1. Range(recent) \subseteq Score
    BY <1>2 DEF Range
  <2>2. 0 \in Score
    BY DEF Score
  <2>3. all \subseteq Score /\ all # {}
    BY <2>1, <2>2
  <2>4. all \subseteq Nat /\ bound \in Nat /\ \A y \in all : y <= bound
    BY <2>3, ScoreIsNat
  <2> HIDE DEF all, bound
  <2>5. Max(all) \in all
    BY <2>3, <2>4, GreatestOne
  <2> QED
    BY <1>4, <2>2, <2>3, <2>5 DEF all
<1>7. h.score \in Score
  <2>1. \A n \in 0 .. 250 : n \in Score
    BY DEF Score
  <2>2. h.score \in 0 .. 250
    BY <1>3, RulesBounded DEF HeuristicsOf
  <2> HIDE DEF h
  <2> QED
    BY <2>1, <2>2
<1>8. results \in Results /\ intact \in Results
  BY <1>2, <1>3, RunAllFacts
<1>9. /\ intact["auth_burst"].score = 0
      /\ \A d \in Detectors : results[d] = intact[d] \/ results[d] = Failed
  BY <1>2, <1>3, RunAllFacts
<1>10. faults' \in 0 .. MaxFaults
  <2>1. Cardinality(failed) \in Nat
    <3>1. IsFiniteSet(Detectors)
      <4>1. Detectors = {"tamper_detector"} \cup {"auth_burst"} \cup {"zscore"} \cup {"advanced_pipeline"}
        BY DEF Detectors
      <4>2. \A x : IsFiniteSet({x})
        BY FS_Singleton
      <4> QED
        BY <4>1, <4>2, FS_Union
    <3> QED
      BY <3>1, FS_Subset, FS_CardinalityType
  <2>2. (IF past = 0 /\ recent # <<>> THEN 1 ELSE 0) \in Nat
    OBVIOUS
  <2> QED
    BY <1>2, <1>4, <2>1, Constants
<1>11. ServingType'
  BY <1>1, <1>5, <1>10 DEF ServingType
<1> DEFINE score == Aggregate(p.kind, h, results, past)
           better == Aggregate(p.kind, h, intact, past)
<1>12. score \in Score /\ better \in Score
  <2> HIDE DEF h, results, intact
  <2> QED
    BY <1>6, <1>7, <1>8, AggregateIs
<1>13. shows \subseteq DOMAIN Watermark \cup ModelColumns
  <2>1. \A d \in Detectors : results[d].features \subseteq ModelColumns
    <3> HIDE DEF results
    <3> QED
      BY <1>8 DEF Results
  <2> HIDE DEF results
  <2> QED
    BY <2>1 DEF Anomalous
<1>14. results["advanced_pipeline"].mode \in {"none", "if_only", "full"}
  <2> HIDE DEF results
  <2> QED
    BY <1>8 DEF Results, Detectors
<1>15. Level(score) \in Levels /\ Level(better) \in Levels
  <2> HIDE DEF score, better
  <2> QED
    BY <1>12, LevelFacts, ScoreIsNat DEF Levels
<1>16. baseline.count \in Nat /\ i \in Nat
  BY <1>2 DEF BaselineType
<1> DEFINE mode == results["advanced_pipeline"].mode
           low == Level(score)
           high == Level(better)
<1>17. verdict' = [of |-> i, score |-> score, level |-> low, mode |-> mode, shows |-> shows,
                   samples |-> baseline.count, unfailed |-> high]
  BY <1>4
<1>18. Rank(low) <= Rank(high)
  <2> HIDE DEF h, results, intact
  <2> QED
    BY <1>6, <1>7, <1>8, <1>9, FailuresRaiseNothing
<1>19. Rank(low) > 1 =>
         \/ KillChain(shows)
         \/ /\ "file_sharing_site_visits" \in shows
            /\ "FILE_EXFIL_GROUP" \in h.groups
         \/ /\ mode = "full" /\ 5 * baseline.count >= 4 * Warm
            /\ artifacts = "all" /\ Cardinality(Days) >= MinDays - 1
  BY <1>2, <1>6, JudgedIsWitnessed
<1> HIDE DEF results, intact, h, shows, score, better, mode, low, high
<1>20. VerdictType'
  <2>1. verdict' \in [of : Nat, score : Score, level : Levels, mode : {"none", "if_only", "full"},
                      shows : SUBSET (DOMAIN Watermark \cup ModelColumns), samples : Nat, unfailed : Levels]
    BY <1>12, <1>13, <1>14, <1>15, <1>16, <1>17 DEF low, high, mode
  <2>2. verdict'.of \in 1 .. Len(stored') /\ stage' = "served"
    BY <1>2, <1>5, <1>17 DEF pipeline
  <2> QED
    BY <2>1, <2>2 DEF VerdictType
<1>21. FaultsOnlyLower'
  BY <1>17, <1>18 DEF FaultsOnlyLower
<1>22. Witnessed'
  <2> SUFFICES ASSUME Rank(verdict'.level) > 1
               PROVE  KillChain(verdict'.shows) \/ Exfiltrated(verdict)' \/ Drifted(verdict)'
    BY DEF Witnessed
  <2>1. verdict'.level = low /\ verdict'.shows = shows /\ verdict'.mode = mode
    BY <1>17
  <2>2. verdict'.samples = baseline.count /\ verdict'.of = i /\ stored' = stored /\ artifacts' = artifacts
    BY <1>5, <1>17
  <2>3. Days' = Days
    BY <2>2 DEF Days
  <2>4. stored'[verdict'.of].kind = p.kind
    BY <2>2
  <2>5. CASE KillChain(shows)
    BY <2>1, <2>5
  <2>6. CASE "file_sharing_site_visits" \in shows /\ "FILE_EXFIL_GROUP" \in h.groups
    BY <2>1, <2>4, <2>6 DEF Exfiltrated, h
  <2>7. CASE mode = "full" /\ 5 * baseline.count >= 4 * Warm /\ artifacts = "all" /\ Cardinality(Days) >= MinDays - 1
    BY <2>1, <2>2, <2>3, <2>7 DEF Drifted
  <2> QED
    BY <1>19, <2>1, <2>5, <2>6, <2>7
<1> QED
  BY <1>11, <1>20, <1>21, <1>22 DEF ServingInv

\* A verdict is saved, and its payload learnt when the level allows.
LEMMA StepFinish ==
  ASSUME ServingInv, Finish
  PROVE  ServingInv'
<1> DEFINE f == LearntOf[stored[verdict.of].kind]
<1>1. ServingType /\ VerdictType
  BY DEF ServingInv
<1>2. /\ verdict # NoVerdict /\ waiting' = waiting \ {verdict.of} /\ verdict' = NoVerdict
      /\ recent' = IF verdict.score > 0 THEN Append(recent, verdict.score) ELSE recent
      /\ UNCHANGED <<artifacts, today, stored, faults>>
  BY DEF Finish, Free
<1>3. \/ UNCHANGED <<baseline, learnt>>
      \/ baseline' = Updated(baseline, f) /\ learnt' = Append(learnt, [day |-> today, features |-> f])
  BY DEF Finish
<1>4. verdict.of \in 1 .. Len(stored) /\ verdict.score \in Score
  BY <1>1, <1>2 DEF VerdictType
<1>5. stored[verdict.of].kind \in Kinds
  <2>1. stored[verdict.of] \in Payload
    BY <1>1, <1>4 DEF ServingType
  <2> QED
    BY <2>1, PayloadFacts
<1>6. f \in {LearntOf[kind] : kind \in Kinds} /\ \A c \in DOMAIN f : f[c] \in Nat
  BY <1>5, FeatureFacts
<1>7. today \in Nat /\ BaselineType(baseline) /\ learnt \in Seq(Lesson) /\ baseline.count = Len(learnt)
  BY <1>1, Constants DEF ServingType
<1> HIDE DEF f
<1>8. BaselineType(baseline') /\ learnt' \in Seq(Lesson) /\ baseline'.count = Len(learnt')
  <2>1. CASE UNCHANGED <<baseline, learnt>>
    BY <1>7, <2>1
  <2>2. CASE baseline' = Updated(baseline, f) /\ learnt' = Append(learnt, [day |-> today, features |-> f])
    <3>1. BaselineType(Updated(baseline, f)) /\ Updated(baseline, f).count = baseline.count + 1
      BY <1>6, <1>7, UpdatedFacts
    <3>2. [day |-> today, features |-> f] \in Lesson
      BY <1>6, <1>7 DEF Lesson
    <3>3. learnt' \in Seq(Lesson) /\ Len(learnt') = Len(learnt) + 1
      BY <1>7, <2>2, <3>2
    <3> QED
      BY <1>7, <2>2, <3>1, <3>3
  <2> QED
    BY <1>3, <2>1, <2>2
<1>9. recent' \in Seq(Score)
  BY <1>1, <1>2, <1>4 DEF ServingType
<1>10. ServingType'
  BY <1>1, <1>2, <1>8, <1>9 DEF ServingType
<1> QED
  BY <1>2, <1>10, NoVerdictIsWitnessed DEF ServingInv

\* The process starts, for the first time or again.
LEMMA StepStart ==
  ASSUME ServingInv, Start \/ Restart
  PROVE  ServingInv'
<1>1. ServingType /\ VerdictType
  BY DEF ServingInv
<1>2. /\ artifacts' \in {artifacts, "none", "columns", "all"} /\ verdict' = NoVerdict
      /\ faults' \in 0 .. MaxFaults
      /\ UNCHANGED <<today, stored, waiting, recent, baseline, learnt>>
  <2>1. CASE Start
    BY <1>1, <2>1 DEF Start, Deploy, ServingType, VerdictType
  <2>2. CASE Restart
    BY <1>1, <2>2, Constants DEF Restart, ServingType
  <2> QED
    BY <2>1, <2>2
<1>3. ServingType'
  BY <1>1, <1>2 DEF ServingType
<1> QED
  BY <1>2, <1>3, NoVerdictIsWitnessed DEF ServingInv

\* The training goes on before anything is served.
LEMMA StepTraining ==
  ASSUME ServingInv, UNCHANGED serving,
         ExtractFeatures \/ SplitUsers \/ FitModels \/ RankUsers \/ ReviewQueue \/ Die \/ NewLogs
  PROVE  ServingInv'
<1>1. stage # "served" /\ stage' # "served"
  BY DEF ExtractFeatures, SplitUsers, FitModels, RankUsers, ReviewQueue, Die, NewLogs
<1>2. verdict' = NoVerdict
  BY <1>1 DEF ServingInv, VerdictType, serving
<1>3. ServingType'
  BY DEF ServingInv, ServingType, serving
<1> QED
  BY <1>2, <1>3, NoVerdictIsWitnessed DEF ServingInv

\* Every step keeps the invariant.
LEMMA StepServing == ServingInv /\ [Next]_vars => ServingInv'
<1> SUFFICES ASSUME ServingInv, [Next]_vars PROVE ServingInv'
  OBVIOUS
<1>1. CASE (ExtractFeatures \/ SplitUsers \/ FitModels \/ RankUsers \/ ReviewQueue \/ Die \/ NewLogs)
             /\ UNCHANGED serving
  BY <1>1, StepTraining
<1>2. CASE Start \/ Restart
  BY <1>2, StepStart
<1>3. CASE \E kind \in Kinds : Store(kind)
  BY <1>3, StepStore
<1>4. CASE NextDay \/ HoursPass \/ \E i \in waiting : JudgeIdle(i)
  BY <1>4, StepAround
<1>5. CASE Finish
  BY <1>5, StepFinish
<1>6. CASE \E i \in waiting : \E failed \in SUBSET Detectors : Judge(i, failed)
  BY <1>6, StepJudge
<1>7. CASE UNCHANGED vars
  <2>1. /\ UNCHANGED <<artifacts, today, stored, waiting, verdict, recent, baseline, learnt, faults>>
        /\ stage' = stage
    BY <1>7 DEF vars, serving, pipeline
  <2>2. ServingType' /\ VerdictType' /\ Witnessed' /\ FaultsOnlyLower'
    BY <2>1 DEF ServingInv, ServingType, VerdictType, Witnessed, FaultsOnlyLower, Exfiltrated, Drifted, Days
  <2> QED
    BY <2>2 DEF ServingInv
<1> QED
  BY <1>1, <1>2, <1>3, <1>4, <1>5, <1>6, <1>7 DEF Next, ServingNext

\* So it holds in every state.
LEMMA ServingInductive == Spec => []ServingInv
<1>1. Init => ServingInv
  BY ServingStarts
<1>2. ServingInv /\ [Next]_vars => ServingInv'
  BY StepServing
<1> QED
  BY <1>1, <1>2, PTL DEF Spec

-----------------------------------------------------------------------------
(* The properties *)

\* A verdict of medium or worse has a witness: the two halves of a kill chain, or the
\* drift over a full history that the user's samples give confidence in.
THEOREM VerdictsAreWitnessed == Spec => []RaisedNeedsWitness
<1>1. ServingInv => RaisedNeedsWitness
  BY DEF ServingInv, Witnessed, KillChain, Exfiltrated, Drifted, Days, RaisedNeedsWitness
<1> QED
  BY <1>1, ServingInductive, PTL

\* Detectors that fail, whichever and whenever, never raise the level of a verdict.
THEOREM FailuresNeverRaise == Spec => []FaultsOnlyLower
<1>1. ServingInv => FaultsOnlyLower
  BY DEF ServingInv
<1> QED
  BY <1>1, ServingInductive, PTL

-----------------------------------------------------------------------------
(* The averages, day by day *)

\* A set with 0, and with the next of each of its numbers, has all of them.
LEMMA AllNumbers ==
  ASSUME NEW S, 0 \in S, \A n \in Nat : n \in S => n + 1 \in S
  PROVE  \A n \in Nat : n \in S
<1> SUFFICES ASSUME NEW k \in Nat, k \notin S PROVE FALSE
  OBVIOUS
<1> DEFINE T == {n \in Nat : n \notin S}
           m == Min(T)
<1>1. T \subseteq Nat /\ T # {} /\ \A n \in T : n \notin S
  OBVIOUS
<1>2. \A n \in Nat : n \notin T => n \in S
  OBVIOUS
<1> HIDE DEF T
<1>3. m \in T /\ \A y \in T : m <= y
  BY <1>1, LeastOne
<1> HIDE DEF m
<1>4. m \in Nat /\ m # 0 /\ m \notin S
  BY <1>1, <1>3
<1>5. m - 1 \in Nat /\ m - 1 \notin T
  BY <1>3, <1>4
<1>6. m - 1 \in S
  BY <1>2, <1>5
<1>7. (m - 1) + 1 \in S
  BY <1>5, <1>6
<1>8. (m - 1) + 1 = m
  BY <1>4
<1> QED
  BY <1>4, <1>7, <1>8

\* A run takes a step from each place to the next; two runs that do so alike are the same.
Takes(f, start, step, top) == f[0] = start /\ \A n \in 1 .. top : f[n] = step[<<f[n - 1], n>>]
Alike(f, g, top) == f[0] = g[0] /\ \A n \in 1 .. top : f[n - 1] = g[n - 1] => f[n] = g[n]
Same(f, g, top) == \A n \in 0 .. top : f[n] = g[n]

\* Steps of a known range can be taken one after the other.
LEMMA StepsTaken ==
  ASSUME NEW V, NEW start \in V, NEW step \in [V \X Nat -> V], NEW top \in Nat
  PROVE  \E f \in [0 .. top -> V] : Takes(f, start, step, top)
<1> DEFINE Runs(n) == {f \in [0 .. n -> V] : f[0] = start /\ \A i \in 1 .. n : f[i] = step[<<f[i - 1], i>>]}
           S == {n \in Nat : Runs(n) # {}}
<1>1. 0 \in S
  <2> DEFINE f == [i \in 0 .. 0 |-> start]
  <2>1. f \in Runs(0)
    OBVIOUS
  <2> QED
    BY <2>1
<1>2. ASSUME NEW n \in Nat, n \in S PROVE n + 1 \in S
  <2>1. PICK f \in [0 .. n -> V] : f[0] = start /\ \A i \in 1 .. n : f[i] = step[<<f[i - 1], i>>]
    BY <1>2
  <2> DEFINE m == n + 1
             g == [i \in 0 .. m |-> IF i = m THEN step[<<f[n], m>>] ELSE f[i]]
  <2>2. m \in Nat /\ m - 1 = n /\ n \in 0 .. n
    OBVIOUS
  <2>3. step[<<f[n], m>>] \in V
    BY <2>1, <2>2
  <2>4. \A i \in 0 .. m : i = m \/ i \in 0 .. n
    OBVIOUS
  <2>5. g \in [0 .. m -> V]
    BY <2>1, <2>3, <2>4
  <2>6. g[0] = start
    BY <2>1, <2>2
  <2>7. ASSUME NEW i \in 1 .. m PROVE g[i] = step[<<g[i - 1], i>>]
    <3>1. CASE i = m
      <4>1. g[i] = step[<<f[n], m>>] /\ g[n] = f[n]
        BY <2>2, <3>1
      <4> QED
        BY <2>2, <3>1, <4>1
    <3>2. CASE i # m
      <4>1. i \in 1 .. n /\ i - 1 \in 0 .. n /\ i - 1 # m
        BY <3>2
      <4>2. g[i] = f[i] /\ g[i - 1] = f[i - 1]
        BY <4>1
      <4> QED
        BY <2>1, <4>1, <4>2
    <3> QED
      BY <3>1, <3>2
  <2> HIDE DEF g
  <2>8. g \in Runs(m)
    BY <2>5, <2>6, <2>7
  <2> QED
    BY <2>2, <2>8
<1> HIDE DEF S
<1>3. top \in S
  BY <1>1, <1>2, AllNumbers
<1> QED
  BY <1>3 DEF S, Takes

\* Two runs that start alike and take the same steps are the same.
LEMMA StepsAgree ==
  ASSUME NEW top \in Nat, NEW f, NEW g, Alike(f, g, top)
  PROVE  Same(f, g, top)
<1> DEFINE S == {n \in Nat : n <= top => f[n] = g[n]}
<1>1. 0 \in S
  BY DEF Alike
<1>2. ASSUME NEW n \in Nat, n \in S PROVE n + 1 \in S
  <2> SUFFICES ASSUME n + 1 <= top PROVE f[n + 1] = g[n + 1]
    OBVIOUS
  <2> DEFINE m == n + 1
  <2>1. m \in 1 .. top /\ m - 1 = n /\ n <= top
    OBVIOUS
  <2>2. f[m - 1] = g[m - 1]
    BY <1>2, <2>1
  <2> QED
    BY <2>1, <2>2 DEF Alike
<1> HIDE DEF S
<1>3. \A n \in Nat : n \in S
  BY <1>1, <1>2, AllNumbers
<1> QED
  BY <1>3 DEF S, Same

\* What is learnt are numbers.
LessonFeatures(e) == \A c \in DOMAIN e.features : e.features[c] \in Nat

\* What a payload teaches is a function to numbers.
LEMMA LessonFacts ==
  ASSUME NEW e \in Lesson
  PROVE  e.day \in Nat /\ LessonFeatures(e)
<1>1. PICK kind \in Kinds : e.features = LearntOf[kind]
  BY DEF Lesson
<1>2. \A c \in DOMAIN LearntOf[kind] : LearntOf[kind][c] \in Nat
  BY FeatureFacts
<1> QED
  BY <1>1, <1>2 DEF Lesson, LessonFeatures

\* The partial sums of a day.
SumsOf(f, entries, day, c) ==
  /\ f \in [0 .. Len(entries) -> Nat] /\ f[0] = 0
  /\ \A n \in 1 .. Len(entries) :
       f[n] = IF n \in Shown(entries, day, c) THEN f[n - 1] + entries[n].features[c] ELSE f[n - 1]

\* The total of a day is the last of them.
LEMMA TotalSteps ==
  ASSUME NEW entries \in Seq(Lesson), NEW day, NEW c
  PROVE  \E f : SumsOf(f, entries, day, c) /\ Total(entries, day, c) = f[Len(entries)]
<1> DEFINE S == Shown(entries, day, c)
           step == [x \in Nat \X Nat |-> IF x[2] \in S THEN x[1] + entries[x[2]].features[c] ELSE x[1]]
           top == Len(entries)
           run(f) == f = [n \in 0 .. top |-> CASE n = 0 -> 0
                                               [] n # 0 /\ n \in S -> f[n - 1] + entries[n].features[c]
                                               [] OTHER -> f[n - 1]]
<1>1. top \in Nat
  OBVIOUS
<1>2. \A i \in S : i \in 1 .. top /\ entries[i].features[c] \in Nat
  BY LessonFacts DEF Shown, LessonFeatures
<1>3. Total(entries, day, c) = (CHOOSE f : run(f))[top]
  BY DEF Total
<1> HIDE DEF S
<1>4. step \in [Nat \X Nat -> Nat]
  BY <1>2
<1> HIDE DEF step, top
<1>5. PICK f \in [0 .. top -> Nat] : f[0] = 0 /\ \A n \in 1 .. top : f[n] = step[<<f[n - 1], n>>]
  <2> DEFINE V == Nat
             zero == 0
  <2>1. zero \in V /\ step \in [V \X Nat -> V]
    BY <1>4
  <2> HIDE DEF V, zero
  <2>2. \E f \in [0 .. top -> V] : Takes(f, zero, step, top)
    BY <1>1, <2>1, StepsTaken
  <2> QED
    BY <2>2 DEF V, zero, Takes
<1>6. \A n \in 1 .. top : f[n] = IF n \in S THEN f[n - 1] + entries[n].features[c] ELSE f[n - 1]
  <2> SUFFICES ASSUME NEW n \in 1 .. top
               PROVE  f[n] = IF n \in S THEN f[n - 1] + entries[n].features[c] ELSE f[n - 1]
    OBVIOUS
  <2>1. n - 1 \in 0 .. top /\ n \in Nat
    BY <1>1
  <2>2. f[n - 1] \in Nat
    BY <2>1
  <2> QED
    BY <1>5, <2>1, <2>2 DEF step
<1>7. run(f)
  BY <1>1, <1>5, <1>6
<1> DEFINE g == CHOOSE h : run(h)
<1>8. run(g)
  BY <1>7
<1> HIDE DEF g
<1>9. g[0] = 0 /\ \A n \in 1 .. top : g[n] = IF n \in S THEN g[n - 1] + entries[n].features[c] ELSE g[n - 1]
  BY <1>1, <1>8
<1>10. Same(f, g, top)
  <2>1. Alike(f, g, top)
    BY <1>5, <1>6, <1>9 DEF Alike
  <2> QED
    BY <1>1, <2>1, StepsAgree
<1>11. Total(entries, day, c) = f[top]
  BY <1>1, <1>3, <1>10 DEF g, Same
<1> QED
  BY <1>5, <1>6, <1>11 DEF top, S, SumsOf

\* An entry is shown on its own day, with its own features.
LEMMA ShownAppend ==
  ASSUME NEW entries \in Seq(Lesson), NEW e \in Lesson, NEW day, NEW c
  PROVE  LET next == Len(entries) + 1 IN
         /\ IsFiniteSet(Shown(entries, day, c)) /\ Shown(entries, day, c) \subseteq 1 .. Len(entries)
         /\ Shown(Append(entries, e), day, c)
              = IF e.day = day /\ c \in DOMAIN e.features THEN Shown(entries, day, c) \cup {next}
                ELSE Shown(entries, day, c)
<1> DEFINE N == Len(entries)
           longer == Append(entries, e)
<1>1. N \in Nat /\ DOMAIN entries = 1 .. N
  OBVIOUS
<1>2. DOMAIN longer = 1 .. N + 1 /\ longer[N + 1] = e /\ \A i \in 1 .. N : longer[i] = entries[i]
  OBVIOUS
<1> HIDE DEF longer
<1>3. Shown(entries, day, c) \subseteq 1 .. N
  BY <1>1 DEF Shown
<1>4. IsFiniteSet(Shown(entries, day, c))
  <2>1. IsFiniteSet(1 .. N)
    BY <1>1, FS_Interval
  <2> QED
    BY <1>3, <2>1, FS_Subset
<1>5. \A i : i \in 1 .. N + 1 <=> i \in 1 .. N \/ i = N + 1
  BY <1>1
<1>6. ASSUME NEW i PROVE i \in Shown(longer, day, c)
        <=> i \in Shown(entries, day, c) \/ (i = N + 1 /\ e.day = day /\ c \in DOMAIN e.features)
  <2>1. N + 1 \notin 1 .. N
    BY <1>1
  <2> QED
    BY <1>1, <1>2, <1>5, <2>1 DEF Shown
<1> QED
  BY <1>3, <1>4, <1>6 DEF longer

\* So the total of its day grows by what it has, and that of no other day.
LEMMA TotalAppend ==
  ASSUME NEW entries \in Seq(Lesson), NEW e \in Lesson, NEW day, NEW c
  PROVE  /\ Total(entries, day, c) \in Nat
         /\ Total(Append(entries, e), day, c)
              = IF e.day = day /\ c \in DOMAIN e.features THEN Total(entries, day, c) + e.features[c]
                ELSE Total(entries, day, c)
<1> DEFINE N == Len(entries)
           M == N + 1
           longer == Append(entries, e)
           S == Shown(entries, day, c)
           T == Shown(longer, day, c)
           with == e.day = day /\ c \in DOMAIN e.features
<1>1. N \in Nat /\ M \in Nat /\ M - 1 = N /\ M \notin 1 .. N /\ N \in 0 .. M /\ M \in 1 .. M
  OBVIOUS
<1>2. longer \in Seq(Lesson) /\ Len(longer) = M /\ longer[M] = e /\ \A i \in 1 .. N : longer[i] = entries[i]
  OBVIOUS
<1>3. S \subseteq 1 .. N /\ T = IF with THEN S \cup {M} ELSE S
  BY ShownAppend
<1>4. PICK f :
        /\ f \in [0 .. N -> Nat] /\ f[0] = 0 /\ Total(entries, day, c) = f[N]
        /\ \A n \in 1 .. N : f[n] = IF n \in S THEN f[n - 1] + entries[n].features[c] ELSE f[n - 1]
  <2>1. PICK f : SumsOf(f, entries, day, c) /\ Total(entries, day, c) = f[N]
    BY TotalSteps
  <2> QED
    BY <2>1 DEF SumsOf
<1> HIDE DEF longer
<1>5. PICK g :
        /\ g \in [0 .. M -> Nat] /\ g[0] = 0 /\ Total(longer, day, c) = g[M]
        /\ \A n \in 1 .. M : g[n] = IF n \in T THEN g[n - 1] + longer[n].features[c] ELSE g[n - 1]
  <2>1. PICK g : SumsOf(g, longer, day, c) /\ Total(longer, day, c) = g[Len(longer)]
    BY <1>2, TotalSteps
  <2> QED
    BY <1>2, <2>1 DEF SumsOf
<1> HIDE DEF S, T, N, M, with
<1>6. Same(f, g, N)
  <2>1. \A n \in 1 .. N : f[n - 1] = g[n - 1] => f[n] = g[n]
    <3> SUFFICES ASSUME NEW n \in 1 .. N, f[n - 1] = g[n - 1] PROVE f[n] = g[n]
      OBVIOUS
    <3>1. n \in 1 .. M /\ n # M
      BY <1>1 DEF M
    <3>2. n \in S <=> n \in T
      BY <1>3, <3>1
    <3> QED
      BY <1>2, <1>4, <1>5, <3>1, <3>2
  <2>2. f[0] = g[0]
    BY <1>4, <1>5
  <2>3. Alike(f, g, N)
    BY <2>1, <2>2 DEF Alike
  <2> QED
    BY <1>1, <2>3, StepsAgree
<1>7. f[N] = g[N] /\ f[N] \in Nat
  BY <1>1, <1>4, <1>6 DEF Same
<1>8. M \in T <=> with
  BY <1>1, <1>3
<1>9. g[M] = IF with THEN g[N] + e.features[c] ELSE g[N]
  BY <1>1, <1>2, <1>5, <1>8
<1> QED
  BY <1>4, <1>5, <1>7, <1>9 DEF longer, with

\* The mean of a day that is learnt on is a number, and an entry of another day leaves it.
LEMMA DayMeanFacts ==
  ASSUME NEW entries \in Seq(Lesson), NEW e \in Lesson, NEW day, NEW c
  PROVE  /\ Shown(entries, day, c) # {} => DayMean(entries, day, c) \in Nat
         /\ e.day # day => /\ Shown(Append(entries, e), day, c) = Shown(entries, day, c)
                           /\ DayMean(Append(entries, e), day, c) = DayMean(entries, day, c)
<1> DEFINE S == Shown(entries, day, c)
           n == Cardinality(S)
           total == Total(entries, day, c)
<1>1. IsFiniteSet(S) /\ total \in Nat
  BY ShownAppend, TotalAppend
<1> HIDE DEF S, total
<1>2. n \in Nat /\ (S # {} => n # 0)
  BY <1>1, FS_CardinalityType, FS_EmptySet
<1> HIDE DEF n
<1>3. n # 0 => total \div n \in Nat
  BY <1>1, <1>2, Whole
<1>4. DayMean(entries, day, c) = total \div n
  BY DEF DayMean, S, n, total
<1>5. e.day # day => /\ Shown(Append(entries, e), day, c) = S
                     /\ Total(Append(entries, e), day, c) = total
  BY ShownAppend, TotalAppend DEF S, total
<1> QED
  BY <1>2, <1>3, <1>4, <1>5 DEF DayMean, S, n, total

\* Nothing adds up to nothing.
LEMMA NothingShown ==
  ASSUME NEW entries \in Seq(Lesson), NEW day, NEW c, Shown(entries, day, c) = {}
  PROVE  Total(entries, day, c) = 0
<1> DEFINE N == Len(entries)
           zero == [n \in 0 .. N |-> 0]
<1>1. PICK f : SumsOf(f, entries, day, c) /\ Total(entries, day, c) = f[N]
  BY TotalSteps
<1>2. N \in Nat /\ zero[N] = 0
  OBVIOUS
<1>3. Alike(zero, f, N)
  BY <1>1 DEF Alike, SumsOf
<1> HIDE DEF N, zero
<1>4. Same(zero, f, N)
  BY <1>2, <1>3, StepsAgree
<1> QED
  BY <1>1, <1>2, <1>4 DEF Same

\* As many numbers as the place says come up to the one at a place.
LEMMA InOrderRank ==
  ASSUME NEW D, D \subseteq Nat, IsFiniteSet(D), NEW i \in 1 .. Cardinality(D)
  PROVE  Cardinality({x \in D : x <= InOrder(D)[i]}) = i
<1> DEFINE N == Cardinality(D)
           a == InOrder(D)
           U == {x \in D : x <= a[i]}
           place == [j \in 1 .. i |-> a[j]]
<1>1. /\ N \in Nat /\ a \in [1 .. N -> D]
      /\ \A j, k \in 1 .. N : j < k => a[j] < a[k]
      /\ \A n \in D : \E j \in 1 .. N : a[j] = n
  BY InOrderFacts
<1>2. i \in 1 .. N
  OBVIOUS
<1> HIDE DEF N, a
<1>3. \A j \in 1 .. N : a[j] \in D /\ a[j] \in Nat
  BY <1>1
<1>4. \A j \in 1 .. i : j \in 1 .. N /\ a[j] \in U
  <2> SUFFICES ASSUME NEW j \in 1 .. i PROVE j \in 1 .. N /\ a[j] \in U
    OBVIOUS
  <2>1. j \in 1 .. N
    BY <1>1, <1>2
  <2>2. j = i \/ j < i
    BY <1>2
  <2>3. a[j] <= a[i]
    BY <1>1, <1>2, <1>3, <2>1, <2>2
  <2> QED
    BY <1>3, <2>1, <2>3
<1>5. \A j, k \in 1 .. i : a[j] = a[k] => j = k
  <2> SUFFICES ASSUME NEW j \in 1 .. i, NEW k \in 1 .. i, a[j] = a[k] PROVE j = k
    OBVIOUS
  <2>1. j \in 1 .. N /\ k \in 1 .. N /\ a[j] \in Nat
    BY <1>3, <1>4
  <2>2. ~(j < k) /\ ~(k < j)
    BY <1>1, <2>1
  <2> QED
    BY <2>1, <2>2
<1>6. \A x \in U : \E j \in 1 .. i : a[j] = x
  <2> SUFFICES ASSUME NEW x \in U PROVE \E j \in 1 .. i : a[j] = x
    OBVIOUS
  <2>1. PICK j \in 1 .. N : a[j] = x
    BY <1>1
  <2>2. ~(i < j)
    <3> SUFFICES ASSUME i < j PROVE FALSE
      OBVIOUS
    <3>1. a[i] < a[j] /\ a[j] <= a[i] /\ a[i] \in Nat /\ a[j] \in Nat
      BY <1>1, <1>2, <1>3, <2>1
    <3> QED
      BY <3>1
  <2> QED
    BY <1>2, <2>1, <2>2
<1> HIDE DEF U
<1>7. place \in Bijection(1 .. i, U)
  BY <1>4, <1>5, <1>6 DEF Bijection, Injection, Surjection, IsInjective
<1>8. IsFiniteSet(1 .. i) /\ Cardinality(1 .. i) = i
  BY <1>2, FS_Interval
<1> HIDE DEF place
<1>9. Cardinality(U) = i
  BY <1>7, <1>8, FS_Bijection DEF ExistsBijection
<1> QED
  BY <1>9 DEF U, a

\* A number above all comes last and moves none.
LEMMA InOrderMore ==
  ASSUME NEW D, D \subseteq Nat, IsFiniteSet(D), NEW m \in Nat, \A n \in D : n < m
  PROVE  LET N == Cardinality(D)
             more == D \cup {m} IN
         /\ N \in Nat /\ more \subseteq Nat /\ IsFiniteSet(more) /\ Cardinality(more) = N + 1
         /\ InOrder(more)[N + 1] = m
         /\ \A i \in 1 .. N : InOrder(more)[i] = InOrder(D)[i]
<1> DEFINE N == Cardinality(D)
           M == N + 1
           E == D \cup {m}
           a == InOrder(D)
           b == InOrder(E)
           upTo(n) == {x \in D : x <= n}
           upIn(n) == {x \in E : x <= n}
<1>1. N \in Nat /\ M \in Nat
  BY FS_CardinalityType
<1>2. m \notin D
  OBVIOUS
<1>3. E \subseteq Nat /\ IsFiniteSet(E) /\ Cardinality(E) = M
  BY <1>1, <1>2, FS_AddElement
<1>4. a \in [1 .. N -> D]
  BY InOrderFacts
<1>5. \A n \in E : \E j \in 1 .. M : b[j] = n
  BY <1>3, InOrderFacts
<1>6. \A i \in 1 .. N : Cardinality(upTo(a[i])) = i
  BY InOrderRank
<1>7. \A j \in 1 .. M : Cardinality(upIn(b[j])) = j
  BY <1>3, InOrderRank
<1>8. \A n \in D : upIn(n) = upTo(n) /\ n \in E
  OBVIOUS
<1>9. upIn(m) = E /\ m \in E
  <2>1. \A n \in E : n <= m
    OBVIOUS
  <2> QED
    BY <2>1
<1> HIDE DEF N, M, E, a, b, upTo, upIn
<1>10. b[M] = m
  <2>1. PICK j \in 1 .. M : b[j] = m
    BY <1>5, <1>9
  <2>2. j = M
    BY <1>3, <1>7, <1>9, <2>1
  <2> QED
    BY <2>1, <2>2
<1>11. \A i \in 1 .. N : b[i] = a[i]
  <2> SUFFICES ASSUME NEW i \in 1 .. N PROVE b[i] = a[i]
    OBVIOUS
  <2>1. a[i] \in D
    BY <1>4
  <2>2. PICK j \in 1 .. M : b[j] = a[i]
    BY <1>5, <1>8, <2>1
  <2>3. Cardinality(upIn(b[j])) = j
    BY <1>7
  <2>4. upIn(b[j]) = upTo(a[i])
    BY <1>8, <2>1, <2>2
  <2>5. j = i
    BY <1>6, <2>3, <2>4
  <2> QED
    BY <2>2, <2>5
<1> QED
  BY <1>1, <1>3, <1>10, <1>11 DEF M, N, E, a, b

\* The days with a feature.
LEMMA DaysWithFacts ==
  ASSUME NEW entries \in Seq(Lesson), NEW last, NEW c
  PROVE  LET D == DaysWith(entries, last, c) IN
         /\ D \subseteq Nat /\ IsFiniteSet(D)
         /\ \A d \in D : Shown(entries, d, c) # {} /\ d # last
<1> DEFINE N == Len(entries)
           D == DaysWith(entries, last, c)
           day == [i \in 1 .. N |-> entries[i].day]
           all == {entries[i].day : i \in 1 .. N}
<1>1. N \in Nat /\ DOMAIN entries = 1 .. N /\ \A i \in 1 .. N : entries[i] \in Lesson
  OBVIOUS
<1>2. day \in Surjection(1 .. N, all) /\ IsFiniteSet(1 .. N)
  <2>1. day \in [1 .. N -> all]
    OBVIOUS
  <2>2. \A d \in all : \E i \in 1 .. N : day[i] = d
    OBVIOUS
  <2>3. day \in Surjection(1 .. N, all)
    BY <2>1, <2>2 DEF Surjection
  <2>4. IsFiniteSet(1 .. N)
    BY <1>1, FS_Interval
  <2> QED
    BY <2>3, <2>4
<1> HIDE DEF day
<1>3. D \subseteq all
  BY <1>1 DEF DaysWith, Range
<1>4. all \subseteq Nat
  BY <1>1, LessonFacts
<1>5. \A d \in D : Shown(entries, d, c) # {} /\ d # last
  BY DEF DaysWith
<1> HIDE DEF all, D
<1>6. IsFiniteSet(all)
  BY <1>2, FS_Surjection
<1>7. IsFiniteSet(D)
  BY <1>3, <1>6, FS_Subset
<1> QED
  BY <1>3, <1>4, <1>5, <1>7 DEF D

\* The averages after each of the days.
AveragesOf(f, entries, days, c) ==
  /\ f \in [0 .. Len(days) -> Nat] /\ f[0] = DayMean(entries, days[1], c)
  /\ \A n \in 1 .. Len(days) : f[n] = Averaged(f[n - 1], DayMean(entries, days[n], c))

\* The long-term average is the last of them.
LEMMA MeanSteps ==
  ASSUME NEW entries \in Seq(Lesson), NEW last, NEW c, DaysWith(entries, last, c) # {}
  PROVE  LET days == InOrder(DaysWith(entries, last, c)) IN
         \E f : AveragesOf(f, entries, days, c) /\ LongMean(entries, last, c) = f[Len(days)]
<1> DEFINE D == DaysWith(entries, last, c)
           days == InOrder(D)
           top == Len(days)
           of(n) == DayMean(entries, days[n], c)
           first == of(1)
           step == [x \in Nat \X Nat |-> IF x[2] \in 1 .. top THEN Averaged(x[1], of(x[2])) ELSE 0]
           run(f) == f = [n \in 0 .. top |-> IF n = 0 THEN DayMean(entries, days[1], c)
                                             ELSE Averaged(f[n - 1], DayMean(entries, days[n], c))]
<1>1. D \subseteq Nat /\ IsFiniteSet(D) /\ \A d \in D : Shown(entries, d, c) # {}
  BY DaysWithFacts
<1>2. LongMean(entries, last, c) = (CHOOSE f : run(f))[top]
  BY DEF LongMean
<1>3. D # {}
  OBVIOUS
<1> HIDE DEF D
<1>4. Cardinality(D) \in Nat \ {0} /\ days \in [1 .. Cardinality(D) -> D]
  BY <1>1, <1>3, InOrderFacts, FS_EmptySet
<1>5. top = Cardinality(D)
  BY <1>4
<1> HIDE DEF days, top
<1>6. \A n \in 1 .. top : of(n) \in Nat
  <2> SUFFICES ASSUME NEW n \in 1 .. top PROVE DayMean(entries, days[n], c) \in Nat
    OBVIOUS
  <2>1. Shown(entries, days[n], c) # {}
    BY <1>1, <1>4, <1>5
  <2>2. PICK i : i \in Shown(entries, days[n], c)
    BY <2>1
  <2>3. entries[i] \in Lesson
    BY <2>2 DEF Shown
  <2> QED
    BY <2>1, <2>3, DayMeanFacts
<1>7. top \in Nat /\ first \in Nat
  BY <1>4, <1>5, <1>6
<1>8. \A n : of(n) = DayMean(entries, days[n], c)
  OBVIOUS
<1>9. first = of(1)
  OBVIOUS
<1> HIDE DEF of, first
<1>10. step \in [Nat \X Nat -> Nat]
  <2>1. \A x \in Nat \X Nat : (IF x[2] \in 1 .. top THEN Averaged(x[1], of(x[2])) ELSE 0) \in Nat
    <3> SUFFICES ASSUME NEW x \in Nat \X Nat, x[2] \in 1 .. top PROVE Averaged(x[1], of(x[2])) \in Nat
      OBVIOUS
    <3>1. x[1] \in Nat /\ of(x[2]) \in Nat
      BY <1>6
    <3> QED
      BY <3>1, NumbersAveraged
  <2> QED
    BY <2>1
<1> HIDE DEF step
<1>11. PICK f \in [0 .. top -> Nat] : f[0] = first /\ \A n \in 1 .. top : f[n] = step[<<f[n - 1], n>>]
  <2> DEFINE V == Nat
  <2>1. first \in V /\ step \in [V \X Nat -> V]
    BY <1>7, <1>10
  <2> HIDE DEF V
  <2>2. \E f \in [0 .. top -> V] : Takes(f, first, step, top)
    BY <1>7, <2>1, StepsTaken
  <2> QED
    BY <2>2 DEF V, Takes
<1>12. \A n \in 1 .. top : f[n] = Averaged(f[n - 1], of(n))
  <2> SUFFICES ASSUME NEW n \in 1 .. top PROVE f[n] = Averaged(f[n - 1], of(n))
    OBVIOUS
  <2>1. n - 1 \in 0 .. top /\ n \in Nat
    BY <1>7
  <2>2. f[n - 1] \in Nat
    BY <2>1
  <2> QED
    BY <1>11, <2>1, <2>2 DEF step
<1>13. run(f)
  <2>1. \A n \in 0 .. top : f[n] = IF n = 0 THEN DayMean(entries, days[1], c)
                                   ELSE Averaged(f[n - 1], DayMean(entries, days[n], c))
    BY <1>7, <1>8, <1>9, <1>11, <1>12
  <2> QED
    BY <2>1
<1> DEFINE g == CHOOSE h : run(h)
<1>14. run(g)
  BY <1>13
<1> HIDE DEF g
<1>15. g[0] = first /\ \A n \in 1 .. top : g[n] = Averaged(g[n - 1], of(n))
  BY <1>7, <1>8, <1>9, <1>14
<1>16. Same(f, g, top)
  <2>1. Alike(f, g, top)
    BY <1>11, <1>12, <1>15 DEF Alike
  <2> QED
    BY <1>7, <2>1, StepsAgree
<1>17. LongMean(entries, last, c) = f[top]
  BY <1>2, <1>7, <1>16 DEF g, Same
<1> QED
  BY <1>8, <1>9, <1>11, <1>12, <1>17 DEF AveragesOf, top, days, D

\* The average goes by the days and their means alone.
LEMMA MeanSame ==
  ASSUME NEW entries \in Seq(Lesson), NEW more \in Seq(Lesson), NEW last, NEW later, NEW c,
         DaysWith(entries, last, c) # {}, DaysWith(more, later, c) = DaysWith(entries, last, c),
         \A d \in DaysWith(entries, last, c) : DayMean(more, d, c) = DayMean(entries, d, c)
  PROVE  LongMean(more, later, c) = LongMean(entries, last, c)
<1> DEFINE D == DaysWith(entries, last, c)
           days == InOrder(D)
           top == Len(days)
<1>1. D \subseteq Nat /\ IsFiniteSet(D) /\ D # {}
  BY DaysWithFacts
<1>2. PICK f : AveragesOf(f, entries, days, c) /\ LongMean(entries, last, c) = f[top]
  BY MeanSteps
<1>3. PICK g : AveragesOf(g, more, days, c) /\ LongMean(more, later, c) = g[top]
  BY MeanSteps
<1>4. \A d \in D : DayMean(more, d, c) = DayMean(entries, d, c)
  OBVIOUS
<1> HIDE DEF D
<1>5. Cardinality(D) \in Nat \ {0} /\ days \in [1 .. Cardinality(D) -> D]
  BY <1>1, InOrderFacts, FS_EmptySet
<1>6. top \in Nat /\ \A n \in 1 .. top : days[n] \in D
  BY <1>5
<1>7. 1 \in 1 .. top
  BY <1>5
<1> HIDE DEF days, top
<1>8. \A n \in 1 .. top : DayMean(more, days[n], c) = DayMean(entries, days[n], c)
  BY <1>4, <1>6
<1>9. Alike(f, g, top)
  BY <1>2, <1>3, <1>7, <1>8 DEF Alike, AveragesOf, top
<1>10. Same(f, g, top)
  BY <1>6, <1>9, StepsAgree
<1> QED
  BY <1>2, <1>3, <1>6, <1>10 DEF Same

\* With a day after all others it is averaged once more, with the mean of that day.
LEMMA MeanGrows ==
  ASSUME NEW entries \in Seq(Lesson), NEW last, NEW later, NEW c, NEW m \in Nat,
         DaysWith(entries, later, c) = DaysWith(entries, last, c) \cup {m},
         \A n \in DaysWith(entries, last, c) : n < m
  PROVE  LongMean(entries, later, c)
           = Averaged(IF DaysWith(entries, last, c) = {} THEN DayMean(entries, m, c)
                      ELSE LongMean(entries, last, c), DayMean(entries, m, c))
<1> DEFINE D == DaysWith(entries, last, c)
           E == DaysWith(entries, later, c)
           N == Cardinality(D)
           M == N + 1
           a == InOrder(D)
           b == InOrder(E)
           of(d) == DayMean(entries, d, c)
<1>1. D \subseteq Nat /\ IsFiniteSet(D) /\ E \subseteq Nat /\ IsFiniteSet(E)
  BY DaysWithFacts
<1>2. E = D \cup {m} /\ E # {} /\ \A n \in D : n < m
  OBVIOUS
<1>3. PICK f : AveragesOf(f, entries, b, c) /\ LongMean(entries, later, c) = f[Len(b)]
  BY <1>2, MeanSteps
<1>4. D # {} => \E g : AveragesOf(g, entries, a, c) /\ LongMean(entries, last, c) = g[Len(a)]
  BY MeanSteps
<1> HIDE DEF D, E
<1>5. /\ N \in Nat /\ Cardinality(E) = M /\ b[M] = m
      /\ \A i \in 1 .. N : b[i] = a[i]
  BY <1>1, <1>2, InOrderMore
<1>6. Len(a) = N /\ Len(b) = M
  <2>1. a \in [1 .. N -> D] /\ b \in [1 .. M -> E]
    BY <1>1, <1>5, InOrderFacts
  <2> HIDE DEF a, b, N
  <2> QED
    BY <1>5, <2>1
<1>7. D = {} <=> N = 0
  BY <1>1, FS_EmptySet
<1> HIDE DEF N, a, b, of
<1>8. f[0] = of(b[1]) /\ \A n \in 1 .. M : f[n] = Averaged(f[n - 1], of(b[n]))
  BY <1>3, <1>6 DEF AveragesOf, of
<1>9. f[M] = Averaged(f[N], of(m))
  BY <1>5, <1>8
<1>10. f[N] = IF D = {} THEN of(m) ELSE LongMean(entries, last, c)
  <2>1. CASE D = {}
    <3>1. N = 0 /\ b[1] = m
      BY <1>5, <1>7, <2>1
    <3> QED
      BY <1>8, <2>1, <3>1
  <2>2. CASE D # {}
    <3>1. PICK g : AveragesOf(g, entries, a, c) /\ LongMean(entries, last, c) = g[N]
      BY <1>4, <1>6, <2>2
    <3>2. g[0] = of(a[1]) /\ \A n \in 1 .. N : g[n] = Averaged(g[n - 1], of(a[n]))
      BY <1>6, <3>1 DEF AveragesOf, of
    <3>3. 1 \in 1 .. N /\ \A n \in 1 .. N : n \in 1 .. M
      BY <1>5, <1>7, <2>2
    <3>4. Alike(g, f, N)
      BY <1>5, <1>8, <3>2, <3>3 DEF Alike
    <3>5. Same(g, f, N)
      BY <1>5, <3>4, StepsAgree
    <3> QED
      BY <1>5, <2>2, <3>1, <3>5 DEF Same
  <2> QED
    BY <2>1, <2>2
<1> QED
  BY <1>3, <1>6, <1>9, <1>10 DEF of, D

-----------------------------------------------------------------------------
(* What was learnt *)

\* The buffer of a baseline holds what was learnt on a day, its averages the days before.
Buffered(b, entries, day, c) ==
  /\ c \in DOMAIN b.sums <=> Shown(entries, day, c) # {}
  /\ c \in DOMAIN b.sums => /\ b.sums[c] = Total(entries, day, c)
                            /\ b.counts[c] = Cardinality(Shown(entries, day, c))
LongTerm(b, entries, day, c) ==
  IF DaysWith(entries, day, c) = {} THEN c \notin DOMAIN b.means
  ELSE c \in DOMAIN b.means /\ b.means[c] = LongMean(entries, day, c)
Learns(b, entries, day) ==
  /\ \A i \in 1 .. Len(entries) : entries[i].day \in 1 .. day
  /\ \A c : Buffered(b, entries, day, c) /\ LongTerm(b, entries, day, c)

\* What is shown is of one of the days.
LEMMA DaysWithIs ==
  ASSUME NEW entries \in Seq(Lesson), NEW last, NEW c
  PROVE  \A d : d \in DaysWith(entries, last, c) <=> d # last /\ Shown(entries, d, c) # {}
<1>1. DOMAIN entries = 1 .. Len(entries)
  OBVIOUS
<1>2. \A d : Shown(entries, d, c) # {} => d \in {e.day : e \in Range(entries)}
  BY DEF Shown, Range
<1> QED
  BY <1>2 DEF DaysWith

\* A new day, if there is one, starts with an empty buffer and the averages of all others.
LEMMA DayTurns ==
  ASSUME NEW b, BaselineType(b), NEW entries \in Seq(Lesson), today \in Nat \ {0},
         b.date \in 0 .. today, b.date = 0 => entries = <<>>, Learns(b, entries, b.date)
  PROVE  Learns(IF b.date \notin {0, today} THEN Merged(b) ELSE b, entries, today)
<1> DEFINE last == b.date
           at == Len(entries)
<1>1. at \in Nat /\ DOMAIN entries = 1 .. at /\ last \in Nat
  BY DEF BaselineType
<1>2. \A i \in 1 .. at : entries[i].day \in 1 .. last
  BY DEF Learns
<1>3. \A i \in 1 .. at : entries[i].day \in 1 .. today
  BY <1>1, <1>2
<1>4. CASE last = today
  BY <1>4
<1>5. CASE last = 0 /\ last # today
  <2>1. entries = <<>>
    BY <1>5
  <2>2. \A d, c : Shown(entries, d, c) = {}
    BY <2>1 DEF Shown
  <2>3. \A d, c : DaysWith(entries, d, c) = {}
    BY <2>2 DEF DaysWith
  <2>4. \A c : Buffered(b, entries, last, c) /\ LongTerm(b, entries, last, c)
    BY DEF Learns
  <2>5. \A c : Buffered(b, entries, today, c) /\ LongTerm(b, entries, today, c)
    BY <2>2, <2>3, <2>4 DEF Buffered, LongTerm
  <2> QED
    BY <1>3, <1>5, <2>5 DEF Learns
<1>6. CASE last \notin {0, today}
  <2> DEFINE new == Merged(b)
             mean(c) == b.sums[c] \div b.counts[c]
             old(c) == Entry(b.means, c, mean(c))
  <2>1. last < today
    BY <1>1, <1>6
  <2>2. /\ new.sums = <<>> /\ DOMAIN new.means = DOMAIN b.sums \cup DOMAIN b.means
        /\ \A c \in DOMAIN new.means :
             new.means[c] = IF c \in DOMAIN b.sums THEN Averaged(old(c), mean(c)) ELSE b.means[c]
    <3> DEFINE day == [c \in DOMAIN b.sums |-> b.sums[c] \div b.counts[c]]
               means == [c \in DOMAIN day \cup DOMAIN b.means |->
                          IF c \in DOMAIN day THEN Averaged(Entry(b.means, c, day[c]), day[c]) ELSE b.means[c]]
               stds == [c \in DOMAIN day \cup DOMAIN b.stds |->
                         IF c \notin DOMAIN day THEN b.stds[c]
                         ELSE Max({Averaged(Entry(b.stds, c, 10), Distance(day[c], means[c])),
                                   means[c] \div 4, 10})]
    <3>1. Merged(b) = [b EXCEPT !.means = means, !.stds = stds, !.sums = <<>>, !.counts = <<>>]
      BY DEF Merged
    <3>2. /\ DOMAIN day = DOMAIN b.sums /\ \A c \in DOMAIN b.sums : day[c] = mean(c)
      OBVIOUS
    <3>3. \A c \in DOMAIN b.sums : Entry(b.means, c, day[c]) = old(c)
      BY <3>2
    <3> HIDE DEF day, mean, old
    <3>4. /\ DOMAIN means = DOMAIN b.sums \cup DOMAIN b.means
          /\ \A c \in DOMAIN means :
               means[c] = IF c \in DOMAIN b.sums THEN Averaged(old(c), mean(c)) ELSE b.means[c]
      BY <3>2, <3>3
    <3> HIDE DEF means, stds
    <3>5. new.sums = <<>> /\ new.means = means
      BY <3>1 DEF BaselineType
    <3> QED
      BY <3>4, <3>5
  <2> HIDE DEF new
  <2>3. \A c : Buffered(new, entries, today, c)
    <3>1. \A c : Shown(entries, today, c) = {}
      BY <1>1, <1>2, <2>1 DEF Shown
    <3>2. DOMAIN new.sums = {}
      BY <2>2
    <3> QED
      BY <3>1, <3>2 DEF Buffered
  <2>4. ASSUME NEW c PROVE LongTerm(new, entries, today, c)
    <3> DEFINE D == DaysWith(entries, last, c)
               E == DaysWith(entries, today, c)
    <3>1. Buffered(b, entries, last, c) /\ LongTerm(b, entries, last, c)
      BY DEF Learns
    <3>2. \A d : d \in D <=> d # last /\ Shown(entries, d, c) # {}
      BY DaysWithIs
    <3>3. \A d : d \in E <=> d # today /\ Shown(entries, d, c) # {}
      BY DaysWithIs
    <3>4. \A d : Shown(entries, d, c) # {} => d \in 1 .. last
      BY <1>1, <1>2 DEF Shown
    <3>5. \A d \in D : d \in Nat /\ d < last
      BY <1>1, <3>2, <3>4
    <3>6. \A d \in E : d # today
      BY <3>3
    <3> HIDE DEF D, E
    <3>7. \A d : Shown(entries, d, c) # {} => d # today
      BY <1>1, <2>1, <3>4
    <3>8. CASE Shown(entries, last, c) = {}
      <4>1. E = D
        BY <3>2, <3>3, <3>7, <3>8
      <4>2. LongMean(entries, today, c) = LongMean(entries, last, c)
        BY <4>1 DEF LongMean, D, E
      <4>3. c \notin DOMAIN b.sums
        BY <3>1, <3>8 DEF Buffered
      <4>4. /\ c \in DOMAIN new.means <=> c \in DOMAIN b.means
            /\ c \in DOMAIN b.means => new.means[c] = b.means[c]
        BY <2>2, <4>3
      <4> QED
        BY <3>1, <4>1, <4>2, <4>4 DEF LongTerm, D, E
    <3>9. CASE Shown(entries, last, c) # {}
      <4>1. E = D \cup {last}
        BY <3>2, <3>3, <3>7, <3>9
      <4>2. /\ c \in DOMAIN b.sums /\ b.sums[c] = Total(entries, last, c)
            /\ b.counts[c] = Cardinality(Shown(entries, last, c))
        BY <3>1, <3>9 DEF Buffered
      <4>3. mean(c) = DayMean(entries, last, c)
        BY <4>2 DEF DayMean
      <4>4. old(c) = IF D = {} THEN DayMean(entries, last, c) ELSE LongMean(entries, last, c)
        BY <3>1, <4>3 DEF LongTerm, Entry, D
      <4> HIDE DEF mean, old
      <4>5. c \in DOMAIN new.means /\ new.means[c] = Averaged(old(c), mean(c))
        BY <2>2, <4>2
      <4>6. LongMean(entries, today, c)
              = Averaged(IF D = {} THEN DayMean(entries, last, c) ELSE LongMean(entries, last, c),
                         DayMean(entries, last, c))
        <5> HIDE DEF last
        <5>1. last \in Nat /\ E = D \cup {last} /\ \A n \in D : n < last
          BY <1>1, <3>5, <4>1
        <5>2. /\ DaysWith(entries, today, c) = DaysWith(entries, last, c) \cup {last}
              /\ \A n \in DaysWith(entries, last, c) : n < last
          BY <5>1 DEF D, E
        <5> QED
          BY <5>1, <5>2, MeanGrows DEF D
      <4> HIDE DEF last
      <4>7. new.means[c] = LongMean(entries, today, c) /\ E # {}
        BY <4>1, <4>3, <4>4, <4>5, <4>6
      <4> QED
        BY <4>5, <4>7 DEF LongTerm, E
    <3> QED
      BY <3>8, <3>9
  <2> QED
    BY <1>3, <1>6, <2>3, <2>4 DEF Learns, new
<1> QED
  BY <1>4, <1>5, <1>6

\* A payload that is learnt joins the buffer of its day and leaves the averages.
LEMMA LessonJoins ==
  ASSUME NEW b, BaselineType(b), NEW entries \in Seq(Lesson), today \in Nat \ {0},
         Learns(b, entries, today), NEW f, [day |-> today, features |-> f] \in Lesson
  PROVE  Learns([b EXCEPT !.count = @ + 1, !.date = today, !.sums = Plus(@, f),
                          !.counts = Plus(@, [c \in DOMAIN f |-> 1])],
                Append(entries, [day |-> today, features |-> f]), today)
<1> DEFINE e == [day |-> today, features |-> f]
           longer == Append(entries, e)
           at == Len(entries)
           ones == [c \in DOMAIN f |-> 1]
           new == [b EXCEPT !.count = @ + 1, !.date = today, !.sums = Plus(@, f), !.counts = Plus(@, ones)]
<1>1. /\ new.means = b.means /\ new.sums = Plus(b.sums, f) /\ new.counts = Plus(b.counts, ones)
      /\ DOMAIN b.counts = DOMAIN b.sums
  BY DEF BaselineType
<1>2. e.day = today /\ e.features = f /\ e \in Lesson
  OBVIOUS
<1>3. at \in Nat /\ longer \in Seq(Lesson) /\ Len(longer) = at + 1 /\ longer[at + 1] = e
      /\ \A i \in 1 .. at : longer[i] = entries[i]
  BY <1>2
<1>4. \A i \in 1 .. at : entries[i].day \in 1 .. today
  BY DEF Learns
<1>5. DOMAIN ones = DOMAIN f /\ \A c \in DOMAIN f : ones[c] = 1
  OBVIOUS
<1> HIDE DEF e, longer, new, ones, at
<1>6. \A i \in 1 .. Len(longer) : longer[i].day \in 1 .. today
  <2> SUFFICES ASSUME NEW i \in 1 .. at + 1 PROVE longer[i].day \in 1 .. today
    BY <1>3
  <2>1. i \in 1 .. at \/ i = at + 1
    BY <1>3
  <2>2. today \in 1 .. today
    OBVIOUS
  <2> QED
    BY <1>2, <1>3, <1>4, <2>1, <2>2
<1>7. ASSUME NEW c PROVE Buffered(new, longer, today, c)
  <2> DEFINE S == Shown(entries, today, c)
             T == Shown(longer, today, c)
             sum == Total(entries, today, c)
  <2>1. /\ c \in DOMAIN b.sums <=> S # {}
        /\ c \in DOMAIN b.sums => b.sums[c] = sum /\ b.counts[c] = Cardinality(S)
    BY DEF Learns, Buffered
  <2>2. IsFiniteSet(S) /\ S \subseteq 1 .. at /\ T = IF c \in DOMAIN f THEN S \cup {at + 1} ELSE S
    BY <1>2, ShownAppend DEF longer, at
  <2>3. sum \in Nat /\ Total(longer, today, c) = IF c \in DOMAIN f THEN sum + f[c] ELSE sum
    BY <1>2, TotalAppend DEF longer
  <2>4. c \in DOMAIN f => f[c] \in Nat
    BY <1>2, LessonFacts DEF LessonFeatures
  <2>5. /\ DOMAIN new.sums = DOMAIN b.sums \cup DOMAIN f
        /\ c \in DOMAIN new.sums =>
             /\ new.sums[c] = Entry(b.sums, c, 0) + Entry(f, c, 0)
             /\ new.counts[c] = Entry(b.counts, c, 0) + Entry(ones, c, 0)
    BY <1>1, <1>5 DEF Plus
  <2> HIDE DEF S, T, sum
  <2>6. Cardinality(S) \in Nat /\ (S = {} => sum = 0 /\ Cardinality(S) = 0)
    <3>1. S = {} => sum = 0
      BY NothingShown DEF S, sum
    <3> QED
      BY <2>2, <3>1, FS_CardinalityType, FS_EmptySet
  <2>7. Cardinality(T) = IF c \in DOMAIN f THEN Cardinality(S) + 1 ELSE Cardinality(S)
    <3>1. at + 1 \notin S
      BY <1>3, <2>2
    <3>2. Cardinality(S \cup {at + 1}) = Cardinality(S) + 1
      BY <2>2, <3>1, FS_AddElement
    <3> QED
      BY <2>2, <3>2
  <2>8. CASE c \in DOMAIN f
    <3>1. Entry(f, c, 0) = f[c] /\ Entry(ones, c, 0) = 1
      BY <1>5, <2>8 DEF Entry
    <3>2. Entry(b.sums, c, 0) = sum /\ Entry(b.counts, c, 0) = Cardinality(S)
      BY <1>1, <2>1, <2>6 DEF Entry
    <3>3. c \in DOMAIN new.sums /\ T # {}
      BY <2>2, <2>5, <2>8
    <3>4. new.sums[c] = Total(longer, today, c) /\ new.counts[c] = Cardinality(T)
      BY <2>3, <2>5, <2>7, <2>8, <3>1, <3>2, <3>3
    <3> QED
      BY <3>3, <3>4 DEF Buffered, T
  <2>9. CASE c \notin DOMAIN f
    <3>1. Entry(f, c, 0) = 0 /\ Entry(ones, c, 0) = 0
      BY <1>5, <2>9 DEF Entry
    <3>2. c \in DOMAIN b.sums => Entry(b.sums, c, 0) = sum /\ Entry(b.counts, c, 0) = Cardinality(S)
      BY <1>1, <2>1 DEF Entry
    <3>3. T = S /\ (c \in DOMAIN new.sums <=> c \in DOMAIN b.sums)
      BY <2>2, <2>5, <2>9
    <3>4. c \in DOMAIN new.sums => new.sums[c] = sum /\ new.counts[c] = Cardinality(S)
      BY <2>3, <2>5, <2>6, <3>1, <3>2, <3>3
    <3>5. Total(longer, today, c) = sum
      BY <2>3, <2>9
    <3> QED
      BY <2>1, <3>3, <3>4, <3>5 DEF Buffered, T
  <2> QED
    BY <2>8, <2>9
<1>8. ASSUME NEW c PROVE LongTerm(new, longer, today, c)
  <2> DEFINE D == DaysWith(entries, today, c)
  <2>1. \A d : d # today => /\ Shown(longer, d, c) = Shown(entries, d, c)
                            /\ DayMean(longer, d, c) = DayMean(entries, d, c)
    BY <1>2, DayMeanFacts DEF longer
  <2>2. \A d : d \in D <=> d # today /\ Shown(entries, d, c) # {}
    BY DaysWithIs
  <2>3. \A d : d \in DaysWith(longer, today, c) <=> d # today /\ Shown(longer, d, c) # {}
    BY <1>3, DaysWithIs
  <2> HIDE DEF D
  <2>4. DaysWith(longer, today, c) = D /\ \A d \in D : DayMean(longer, d, c) = DayMean(entries, d, c)
    BY <2>1, <2>2, <2>3
  <2>5. D # {} => LongMean(longer, today, c) = LongMean(entries, today, c)
    BY <1>3, <2>4, MeanSame DEF D
  <2>6. LongTerm(b, entries, today, c)
    BY DEF Learns
  <2> QED
    BY <1>1, <2>4, <2>5, <2>6 DEF LongTerm, D
<1> QED
  BY <1>6, <1>7, <1>8 DEF Learns, new, ones, longer, e

\* The baseline is what was learnt from, day by day.
LearntInv ==
  /\ baseline.date \in 0 .. today /\ (baseline.date = 0 => learnt = <<>>)
  /\ Learns(baseline, learnt, baseline.date)

\* The verdict that is saved is learnt from on the day it is saved.
LEMMA StepLearns ==
  ASSUME ServingInv, LearntInv, Finish
  PROVE  LearntInv'
<1> DEFINE f == LearntOf[stored[verdict.of].kind]
           e == [day |-> today, features |-> f]
           base == IF baseline.date \notin {0, today} THEN Merged(baseline) ELSE baseline
<1>1. ServingType /\ VerdictType
  BY DEF ServingInv
<1>2. today \in Nat \ {0} /\ BaselineType(baseline) /\ learnt \in Seq(Lesson)
  BY <1>1, Constants DEF ServingType
<1>3. today' = today /\ verdict # NoVerdict
  BY DEF Finish, Free
<1>4. e \in Lesson
  <2>1. verdict.of \in 1 .. Len(stored) /\ stored \in Seq(Payload)
    BY <1>1, <1>3 DEF VerdictType, ServingType
  <2>2. stored[verdict.of] \in Payload
    BY <2>1
  <2>3. stored[verdict.of].kind \in Kinds
    BY <2>2, PayloadFacts
  <2> QED
    BY <1>2, <2>3 DEF Lesson
<1>5. \/ UNCHANGED <<baseline, learnt>>
      \/ baseline' = Updated(baseline, f) /\ learnt' = Append(learnt, e)
  BY DEF Finish
<1> HIDE DEF f
<1>6. CASE UNCHANGED <<baseline, learnt>>
  BY <1>3, <1>6 DEF LearntInv
<1>7. CASE baseline' = Updated(baseline, f) /\ learnt' = Append(learnt, e)
  <2>1. Learns(base, learnt, today) /\ BaselineType(base)
    BY <1>2, DayTurns, MergedFacts DEF LearntInv
  <2>2. baseline' = [base EXCEPT !.count = @ + 1, !.date = today, !.sums = Plus(@, f),
                                 !.counts = Plus(@, [c \in DOMAIN f |-> 1])]
    BY <1>7 DEF Updated
  <2> HIDE DEF base
  <2>3. Learns(baseline', learnt', today)
    <3>1. [day |-> today, features |-> f] \in Lesson
      BY <1>4
    <3> DEFINE new == [base EXCEPT !.count = @ + 1, !.date = today, !.sums = Plus(@, f),
                                   !.counts = Plus(@, [c \in DOMAIN f |-> 1])]
    <3>2. Learns(new, Append(learnt, [day |-> today, features |-> f]), today)
      BY <1>2, <2>1, <3>1, LessonJoins
    <3>3. baseline' = new /\ learnt' = Append(learnt, [day |-> today, features |-> f])
      BY <1>7, <2>2
    <3> HIDE DEF new
    <3> QED
      BY <3>2, <3>3
  <2>4. baseline'.date = today
    BY <2>1, <2>2 DEF BaselineType
  <2> HIDE DEF e
  <2>5. today \in 0 .. today /\ today # 0
    BY <1>2
  <2> QED
    BY <1>3, <2>3, <2>4, <2>5 DEF LearntInv
<1> QED
  BY <1>5, <1>6, <1>7

\* So it is in every state.
LEMMA LearntInductive == Spec => []LearntInv
<1>1. Init => LearntInv
  <2> SUFFICES ASSUME Init PROVE LearntInv
    OBVIOUS
  <2>1. /\ today = 1 /\ learnt = <<>> /\ baseline.date = 0
        /\ DOMAIN baseline.sums = {} /\ DOMAIN baseline.means = {}
    BY DEF Init, ServingInit, NoBaseline
  <2>2. \A d, c : Shown(learnt, d, c) = {}
    BY <2>1 DEF Shown
  <2>3. \A d, c : DaysWith(learnt, d, c) = {}
    BY <2>2 DEF DaysWith
  <2>4. Learns(baseline, learnt, baseline.date)
    BY <2>1, <2>2, <2>3 DEF Learns, Buffered, LongTerm
  <2> QED
    BY <2>1, <2>4 DEF LearntInv
<1>2. ServingInv /\ LearntInv /\ [Next]_vars => LearntInv'
  <2> SUFFICES ASSUME ServingInv, LearntInv, [Next]_vars PROVE LearntInv'
    OBVIOUS
  <2>1. CASE Finish
    BY <2>1, StepLearns
  <2>2. CASE NextDay
    <3>1. today \in Nat /\ today' = today + 1 /\ UNCHANGED <<baseline, learnt>>
      BY <2>2, Constants DEF NextDay, ServingInv, ServingType
    <3>2. baseline.date \in 0 .. today'
      BY <3>1 DEF LearntInv
    <3> QED
      BY <3>1, <3>2 DEF LearntInv
  <2>3. CASE UNCHANGED <<today, baseline, learnt>>
    BY <2>3 DEF LearntInv
  <2>4. Finish \/ NextDay \/ UNCHANGED <<today, baseline, learnt>>
    BY DEF Next, ServingNext, vars, serving, Start, Store, HoursPass, Restart, JudgeIdle, Judge
  <2> QED
    BY <2>1, <2>2, <2>3, <2>4
<1> QED
  BY <1>1, <1>2, ServingInductive, PTL DEF Spec

\* The averages a payload is measured against are those of the days before the last one
\* learnt on: every value that was learnt counts once, in the mean of its day.
THEOREM AveragesOfEarlierDays == Spec => []MeansOfEarlierDays
<1>1. LearntInv => MeansOfEarlierDays
  BY DEF LearntInv, Learns, LongTerm, MeansOfEarlierDays
<1> QED
  BY <1>1, LearntInductive, PTL

-----------------------------------------------------------------------------
(* The numbers of the training *)

\* The columns of each domain are finitely many.
LEMMA ColumnsAreFinite ==
  /\ IsFiniteSet(Columns.logon) /\ IsFiniteSet(Columns.file)
  /\ IsFiniteSet(Columns.device) /\ IsFiniteSet(Columns.http)
<1> DEFINE three(a, b, c) == {a} \cup {b} \cup {c}
<1>1. \A a, b, c : IsFiniteSet(three(a, b, c))
  BY FS_Singleton, FS_Union
<1> HIDE DEF three
<1>2. Columns.file = three("file_access_count", "daily_unique_filename_count", "daily_new_filename_count")
  BY DEF Columns, three
<1>3. Columns.device = three("usb_connect_count", "usb_disconnect_count", "after_hours_usb_usage")
        \cup three("daily_device_connect_count", "daily_device_usage_flag", "first_usb_usage_time")
  BY DEF Columns, three
<1>4. Columns.logon = three("logon_count", "logoff_count", "unique_pc_count")
        \cup three("daily_unique_pc_count", "after_hours_logon", "daily_after_hours_logon_ratio")
        \cup three("first_logon_time", "last_logoff_time", "weekend_logon")
  BY DEF Columns, three
<1>5. Columns.http = three("http_count", "daily_http_request_count", "unique_url_count")
        \cup three("suspicious_url_count", "file_sharing_site_visits", "job_search_site_visits")
        \cup three("http_after_hours", "daily_unique_domain_count", "daily_new_domain_count")
        \cup three("daily_external_domain_ratio", "daily_external_domain_ratio", "daily_external_domain_ratio")
  BY DEF Columns, three
<1>6. ASSUME NEW S, NEW T, NEW U, NEW V,
             IsFiniteSet(S), IsFiniteSet(T), IsFiniteSet(U), IsFiniteSet(V)
      PROVE  /\ IsFiniteSet(S \cup T) /\ IsFiniteSet(S \cup T \cup U)
             /\ IsFiniteSet(S \cup T \cup U \cup V)
  <2>1. IsFiniteSet(S \cup T)
    BY <1>6, FS_Union
  <2>2. IsFiniteSet((S \cup T) \cup U)
    BY <1>6, <2>1, FS_Union
  <2>3. IsFiniteSet(((S \cup T) \cup U) \cup V)
    BY <1>6, <2>2, FS_Union
  <2> QED
    BY <2>1, <2>2, <2>3
<1>8. IsFiniteSet(Columns.file)
  BY <1>1, <1>2, Zenon
<1>9. IsFiniteSet(Columns.device)
  <2> DEFINE a == three("usb_connect_count", "usb_disconnect_count", "after_hours_usb_usage")
             b == three("daily_device_connect_count", "daily_device_usage_flag", "first_usb_usage_time")
  <2>1. IsFiniteSet(a) /\ IsFiniteSet(b)
    BY <1>1
  <2>2. Columns.device = a \cup b
    BY <1>3
  <2> HIDE DEF a, b
  <2> QED
    BY <1>6, <2>1, <2>2
<1>10. IsFiniteSet(Columns.logon)
  <2> DEFINE a == three("logon_count", "logoff_count", "unique_pc_count")
             b == three("daily_unique_pc_count", "after_hours_logon", "daily_after_hours_logon_ratio")
             c == three("first_logon_time", "last_logoff_time", "weekend_logon")
  <2>1. IsFiniteSet(a) /\ IsFiniteSet(b) /\ IsFiniteSet(c)
    BY <1>1
  <2>2. Columns.logon = a \cup b \cup c
    BY <1>4
  <2> HIDE DEF a, b, c
  <2> QED
    BY <1>6, <2>1, <2>2
<1>11. IsFiniteSet(Columns.http)
  <2> DEFINE a == three("http_count", "daily_http_request_count", "unique_url_count")
             b == three("suspicious_url_count", "file_sharing_site_visits", "job_search_site_visits")
             c == three("http_after_hours", "daily_unique_domain_count", "daily_new_domain_count")
             d == three("daily_external_domain_ratio", "daily_external_domain_ratio", "daily_external_domain_ratio")
  <2>1. IsFiniteSet(a) /\ IsFiniteSet(b) /\ IsFiniteSet(c) /\ IsFiniteSet(d)
    BY <1>1
  <2>2. Columns.http = a \cup b \cup c \cup d
    BY <1>5
  <2> HIDE DEF a, b, c, d
  <2> QED
    BY <1>6, <2>1, <2>2
<1> QED
  BY <1>8, <1>9, <1>10, <1>11

\* A row's risk is between the smallest and the largest its domains allow.
LEMMA WeightedFacts ==
  \E bound \in Nat : \A table, k : Weighted(table, k) \in Nat \ {0} /\ Weighted(table, k) <= bound
<1> DEFINE most(columns) == 100 * (1 + Cardinality(columns))
           F == most(Columns.file)
           D == most(Columns.device)
           H == most(Columns.http)
           L == most(Columns.logon)
           bound == (174 * F + 25 * D + 614 * H + 187 * L) \div 1000
<1>1. ASSUME NEW columns, IsFiniteSet(columns)
      PROVE  /\ most(columns) \in Nat
             /\ \A table, k : Forest(table, k, columns) \in 100 .. most(columns)
  <2> SUFFICES ASSUME NEW table, NEW k
               PROVE  most(columns) \in Nat /\ Forest(table, k, columns) \in 100 .. most(columns)
    OBVIOUS
  <2> DEFINE out == {c \in columns : table[k][c] * Cardinality(DOMAIN table)
                                       > MapThenSumSet(LAMBDA x : table[x][c], DOMAIN table)}
  <2>1. out \in SUBSET columns
    OBVIOUS
  <2>2. Forest(table, k, columns) = 100 * (1 + Cardinality(out))
    BY DEF Forest
  <2> HIDE DEF out
  <2>3. Cardinality(out) \in Nat /\ Cardinality(columns) \in Nat /\ Cardinality(out) <= Cardinality(columns)
    BY <1>1, <2>1, FS_Subset, FS_CardinalityType
  <2> QED
    BY <2>2, <2>3
<1>2. F \in Nat /\ D \in Nat /\ H \in Nat /\ L \in Nat
  BY <1>1, ColumnsAreFinite
<1>3. bound \in Nat
  <2> HIDE DEF F, D, H, L
  <2> QED
    BY <1>2
<1>4. ASSUME NEW table, NEW k
      PROVE  Weighted(table, k) \in Nat \ {0} /\ Weighted(table, k) <= bound
  <2> DEFINE f == Forest(table, k, Columns.file)
             d == Forest(table, k, Columns.device)
             h == Forest(table, k, Columns.http)
             l == Forest(table, k, Columns.logon)
  <2>1. f \in 100 .. F /\ d \in 100 .. D /\ h \in 100 .. H /\ l \in 100 .. L
    BY <1>1, ColumnsAreFinite
  <2>2. Weighted(table, k) = (174 * f + 25 * d + 614 * h + 187 * l) \div 1000
    BY DEF Weighted
  <2> HIDE DEF f, d, h, l, F, D, H, L
  <2> QED
    BY <1>2, <2>1, <2>2
<1> HIDE DEF bound
<1> QED
  BY <1>3, <1>4

\* With one row of a train user the risks are in thousandths.
LEMMA RisksInRange ==
  ASSUME NEW table, NEW users, \E k \in DOMAIN table : k[1] \in users
  PROVE  Range(OverallRisk(table, users)) \subseteq 0 .. 1000
<1> DEFINE all == {Weighted(table, k) : k \in {x \in DOMAIN table : x[1] \in users}}
           most == Max(all)
           risks == OverallRisk(table, users)
<1>1. PICK bound \in Nat : \A t, k : Weighted(t, k) \in Nat \ {0} /\ Weighted(t, k) <= bound
  BY WeightedFacts
<1>2. all \subseteq Nat \ {0} /\ all # {} /\ \A y \in all : y <= bound
  BY <1>1
<1>3. most \in Nat \ {0}
  <2> HIDE DEF all
  <2>1. all \subseteq Nat
    BY <1>2
  <2>2. most \in all
    BY <1>2, <2>1, GreatestOne
  <2> QED
    BY <1>2, <2>2
<1>4. risks = [k \in DOMAIN table |-> Min({1000, (1000 * Weighted(table, k)) \div most})]
  BY DEF OverallRisk
<1> HIDE DEF most, risks
<1>5. \A k \in DOMAIN table : risks[k] \in 0 .. 1000
  <2> SUFFICES ASSUME NEW k \in DOMAIN table PROVE risks[k] \in 0 .. 1000
    OBVIOUS
  <2> DEFINE w == Weighted(table, k)
             share == (1000 * w) \div most
  <2>1. w \in Nat
    BY <1>1
  <2> HIDE DEF w
  <2>2. share \in Nat
    BY <1>3, <2>1
  <2>3. risks[k] = Min({1000, share})
    BY <1>4 DEF w
  <2> HIDE DEF share
  <2>4. Min({1000, share}) = IF 1000 <= share THEN 1000 ELSE share
    BY <2>2, SmallerOf
  <2> QED
    BY <2>2, <2>3, <2>4
<1>6. DOMAIN risks = DOMAIN table
  BY <1>4
<1>7. Range(risks) \subseteq 0 .. 1000
  BY <1>5, <1>6 DEF Range
<1> QED
  BY <1>7 DEF risks

\* The reported length of the queue is a number.
LEMMA LengthIsNat ==
  ASSUME NEW queue
  PROVE  OptimalK(queue) \in Nat
<1> DEFINE full == {k \in 1 .. Len(queue) : /\ k % Step = 0
                                            /\ Found(queue, k) = Found(queue, Len(queue))}
<1>1. full \subseteq Nat
  OBVIOUS
<1>2. OptimalK(queue) = IF Found(queue, Len(queue)) = 0 \/ full = {} THEN 2 * Step ELSE Min(full)
  BY DEF OptimalK
<1> HIDE DEF full
<1>3. full # {} => Min(full) \in Nat
  BY <1>1, LeastOne
<1>4. 2 * Step \in Nat
  BY TrainingAssumption DEF TrainingAssumption
<1> QED
  BY <1>2, <1>3, <1>4

TrainingType ==
  /\ stage \in {"start", "extracted", "split", "fitted", "ranked", "reviewed", "served"}
  /\ train \subseteq DOMAIN Scenario /\ Range(risk) \subseteq 0 .. 1000
  /\ optimal \in Nat /\ Range(ranked) \subseteq DOMAIN Scenario

\* Every stage of the training keeps its numbers in range.
LEMMA TrainingTyped == Spec => []TrainingType
<1>0. Range(<<>>) = {}
  BY DEF Range
<1>1. Init => TrainingType
  <2> SUFFICES ASSUME Init PROVE TrainingType
    OBVIOUS
  <2>1. stage = "start" /\ train = {} /\ risk = <<>> /\ ranked = <<>> /\ optimal = 0
    BY DEF Init, TrainingInit
  <2>2. Range(risk) = {} /\ Range(ranked) = {}
    BY <1>0, <2>1
  <2> QED
    BY <2>1, <2>2 DEF TrainingType
<1>2. ASSUME TrainingType, [Next]_vars
      PROVE  TrainingType'
  <2>1. CASE SplitUsers
    <3>1. /\ train' \subseteq DOMAIN Scenario /\ stage' = "split"
          /\ risk' = OverallRisk(rows, train') /\ \E k \in DOMAIN rows : k[1] \in train'
          /\ UNCHANGED <<optimal, ranked>>
      BY <2>1 DEF SplitUsers
    <3>2. Range(risk') \subseteq 0 .. 1000
      BY <3>1, RisksInRange
    <3> QED
      BY <1>2, <3>1, <3>2 DEF TrainingType
  <2>2. CASE RankUsers
    <3> DEFINE users == {s.user : s \in Sequences(rows, Test)}
    <3>1. ranked' \in SetToSeqs(users) /\ stage' = "ranked" /\ UNCHANGED <<train, risk, optimal>>
      BY <2>2 DEF RankUsers
    <3>2. users \subseteq DOMAIN Scenario
      <4>1. \A s \in Sequences(rows, Test) : s.user \in Test
        BY DEF Sequences
      <4> QED
        BY <4>1 DEF Test
    <3>3. Range(ranked') \subseteq users
      <4> HIDE DEF users
      <4> QED
        BY <3>1 DEF SetToSeqs, Range
    <3> QED
      BY <1>2, <3>1, <3>2, <3>3 DEF TrainingType
  <2>3. CASE ReviewQueue
    <3>1. optimal' \in Nat
      BY <2>3, LengthIsNat DEF ReviewQueue
    <3> QED
      BY <1>2, <2>3, <3>1 DEF TrainingType, ReviewQueue
  <2>4. CASE ExtractFeatures \/ FitModels \/ NewLogs
    BY <1>2, <2>4 DEF TrainingType, ExtractFeatures, FitModels, NewLogs
  <2>5. CASE Die \/ Start
    <3>1. stage' \in {"start", "served"} /\ train' = {} /\ risk' = <<>> /\ ranked' = <<>> /\ optimal' = 0
      BY <2>5 DEF Die, Start, Deploy, Forget
    <3>2. Range(risk') = {} /\ Range(ranked') = {}
      BY <1>0, <3>1
    <3> QED
      BY <3>1, <3>2 DEF TrainingType
  <2>6. CASE UNCHANGED pipeline
    BY <1>2, <2>6 DEF TrainingType, pipeline
  <2>7. ServingNext => UNCHANGED pipeline
    BY DEF ServingNext, Store, NextDay, HoursPass, Finish, Restart, JudgeIdle, Judge, Served
  <2> QED
    BY <1>2, <2>1, <2>2, <2>3, <2>4, <2>5, <2>6, <2>7 DEF Next, vars
<1> QED
  BY <1>1, <1>2, PTL DEF Spec

\* The numbers of the training and of the serving stay in their ranges: risks and scores
\* are scores, deviations have their floor, and each lesson counts once.
THEOREM NumbersInRange == Spec => []TypeOK
<1>1. ServingInv /\ TrainingType => TypeOK
  <2> SUFFICES ASSUME ServingInv, TrainingType PROVE TypeOK
    OBVIOUS
  <2>1. /\ artifacts \in {"none", "columns", "all"} /\ today \in 1 .. MaxDay
        /\ waiting \subseteq 1 .. Len(stored) /\ faults \in 0 .. MaxFaults
        /\ baseline.count = Len(learnt)
    BY DEF ServingInv, ServingType
  <2>2. /\ DOMAIN baseline.sums = DOMAIN baseline.counts /\ DOMAIN baseline.means = DOMAIN baseline.stds
        /\ \A c \in DOMAIN baseline.stds : baseline.stds[c] >= 10
    BY DEF ServingInv, ServingType, BaselineType
  <2>3. verdict.score \in 0 .. 1000
    BY DEF ServingInv, VerdictType, Score
  <2>4. Range(recent) \subseteq 0 .. 1000
    <3>1. recent \in Seq(Score)
      BY DEF ServingInv, ServingType
    <3>2. \A i \in DOMAIN recent : recent[i] \in Score
      BY <3>1
    <3> QED
      BY <3>2 DEF Range, Score
  <2> QED
    BY <2>1, <2>2, <2>3, <2>4 DEF TrainingType, TypeOK
<1> QED
  BY <1>1, ServingInductive, TrainingTyped, PTL

-----------------------------------------------------------------------------
(* What the training learns from *)

\* The rows of a log are a finite set of users with a day.
KeyType(k) == k = <<k[1], k[2]>> /\ k[2] \in Nat

\* The lines of one table.
LEMMA KeysOfLines ==
  ASSUME NEW lines \in Seq(LogLine)
  PROVE  IsFiniteSet(Keys(lines)) /\ \A k \in Keys(lines) : KeyType(k)
<1> DEFINE key == [i \in 1 .. Len(lines) |-> Key(lines[i])]
<1>1. Len(lines) \in Nat /\ DOMAIN lines = 1 .. Len(lines) /\ \A i \in 1 .. Len(lines) : lines[i] \in LogLine
  OBVIOUS
<1>2. Keys(lines) = {Key(lines[i]) : i \in 1 .. Len(lines)}
  BY <1>1 DEF Keys, Range
<1>3. key \in Surjection(1 .. Len(lines), Keys(lines))
  BY <1>2 DEF Surjection
<1>4. IsFiniteSet(1 .. Len(lines))
  BY <1>1, FS_Interval
<1>5. IsFiniteSet(Keys(lines))
  <2> HIDE DEF key
  <2> QED
    BY <1>3, <1>4, FS_Surjection
<1>6. \A e \in LogLine : KeyType(Key(e))
  BY DEF KeyType, Key, LogLine
<1> QED
  BY <1>1, <1>2, <1>5, <1>6

\* The four tables together.
LEMMA RowsOfLogs ==
  ASSUME NEW logs \in Logs
  PROVE  IsFiniteSet(DOMAIN Extract(logs)) /\ \A k \in DOMAIN Extract(logs) : KeyType(k)
<1> DEFINE tables == [logon |-> LogonFeatures(logs.logon), file |-> FileFeatures(logs.file),
                      device |-> DeviceFeatures(logs.device), http |-> HttpFeatures(logs.http)]
<1>1. /\ logs.logon \in Seq(LogLine) /\ logs.file \in Seq(LogLine)
      /\ logs.device \in Seq(LogLine) /\ logs.http \in Seq(LogLine)
  <2>1. logs \in [logon : Seq(LogLine), file : Seq(LogLine), device : Seq(LogLine), http : Seq(LogLine)]
    BY TrainingAssumption DEF TrainingAssumption
  <2> QED
    BY <2>1
<1>2. /\ DOMAIN LogonFeatures(logs.logon) = Keys(logs.logon)
      /\ DOMAIN FileFeatures(logs.file) = Keys(logs.file)
      /\ DOMAIN DeviceFeatures(logs.device) = Keys(logs.device)
      /\ DOMAIN HttpFeatures(logs.http) = Keys(logs.http)
  BY DEF LogonFeatures, FileFeatures, DeviceFeatures, HttpFeatures
<1>3. DOMAIN Extract(logs) = UNION {DOMAIN tables[d] : d \in DOMAIN tables}
  BY DEF Extract
<1>4. UNION {DOMAIN tables[d] : d \in DOMAIN tables}
        = Keys(logs.logon) \cup Keys(logs.file) \cup Keys(logs.device) \cup Keys(logs.http)
  BY <1>2
<1> HIDE DEF tables
<1>5. /\ IsFiniteSet(Keys(logs.logon)) /\ IsFiniteSet(Keys(logs.file))
      /\ IsFiniteSet(Keys(logs.device)) /\ IsFiniteSet(Keys(logs.http))
  BY <1>1, KeysOfLines
<1>6. IsFiniteSet(Keys(logs.logon) \cup Keys(logs.file) \cup Keys(logs.device) \cup Keys(logs.http))
  <2>1. IsFiniteSet(Keys(logs.logon) \cup Keys(logs.file))
    BY <1>5, FS_Union
  <2>2. IsFiniteSet((Keys(logs.logon) \cup Keys(logs.file)) \cup Keys(logs.device))
    BY <1>5, <2>1, FS_Union
  <2> QED
    BY <1>5, <2>2, FS_Union
<1>7. \A k \in Keys(logs.logon) \cup Keys(logs.file) \cup Keys(logs.device) \cup Keys(logs.http) : KeyType(k)
  BY <1>1, KeysOfLines
<1> QED
  BY <1>3, <1>4, <1>6, <1>7

\* What a row has that no earlier row of its user has.
NewOf(items, k) ==
  {x \in items[k] : \A j \in DOMAIN items : j[1] = k[1] /\ j[2] < k[2] => x \notin items[j]}

\* Whatever order the days of the users are given in, what is new in it is what the earlier
\* days did not show, provided the order is that of the days.
LEMMA NewInOrder ==
  ASSUME NEW items, \A k \in DOMAIN items : KeyType(k),
         NEW order, NEW k \in DOMAIN items,
         \A i, j \in DOMAIN order[k[1]] : i < j <=> order[k[1]][i] < order[k[1]][j],
         \A i \in DOMAIN order[k[1]] : <<k[1], order[k[1]][i]>> \in DOMAIN items,
         \A x \in DOMAIN items : x[1] = k[1] => \E i \in DOMAIN order[k[1]] : order[k[1]][i] = x[2]
  PROVE  NewItems(order, items)[k] = Cardinality(NewOf(items, k))
<1> DEFINE days == order[k[1]]
           before == {x \in items[k] : \A i, j \in DOMAIN days :
                        i < j /\ days[j] = k[2] => x \notin items[<<k[1], days[i]>>]}
<1>1. /\ \A i, j \in DOMAIN days : i < j <=> days[i] < days[j]
      /\ \A i \in DOMAIN days : <<k[1], days[i]>> \in DOMAIN items
      /\ \A x \in DOMAIN items : x[1] = k[1] => \E i \in DOMAIN days : days[i] = x[2]
  OBVIOUS
<1>2. NewItems(order, items)[k] = Cardinality(before)
  BY DEF NewItems
<1> HIDE DEF days
<1>3. ASSUME NEW x \in before PROVE x \in NewOf(items, k)
  <2> SUFFICES ASSUME NEW j \in DOMAIN items, j[1] = k[1], j[2] < k[2] PROVE x \notin items[j]
    BY DEF NewOf
  <2>1. PICK a \in DOMAIN days : days[a] = j[2]
    BY <1>1
  <2>2. PICK b \in DOMAIN days : days[b] = k[2]
    BY <1>1
  <2>3. a < b
    BY <1>1, <2>1, <2>2
  <2>4. x \notin items[<<k[1], days[a]>>]
    BY <2>2, <2>3
  <2>5. j = <<j[1], j[2]>>
    BY DEF KeyType
  <2> QED
    BY <2>1, <2>4, <2>5
<1>4. ASSUME NEW x \in NewOf(items, k) PROVE x \in before
  <2> SUFFICES ASSUME NEW a \in DOMAIN days, NEW b \in DOMAIN days, a < b, days[b] = k[2]
               PROVE  x \notin items[<<k[1], days[a]>>]
    BY DEF NewOf
  <2>1. days[a] < k[2] /\ <<k[1], days[a]>> \in DOMAIN items
    BY <1>1
  <2> QED
    BY <2>1 DEF NewOf
<1>5. before = NewOf(items, k)
  BY <1>3, <1>4
<1> QED
  BY <1>2, <1>5

\* groupby takes the days of a user in order, and all of them.
LEMMA ByDayFacts ==
  ASSUME NEW lines \in Seq(LogLine), NEW k \in Keys(lines)
  PROVE  LET days == ByDay(lines)[k[1]] IN
         /\ \A i, j \in DOMAIN days : i < j <=> days[i] < days[j]
         /\ \A i \in DOMAIN days : <<k[1], days[i]>> \in Keys(lines)
         /\ \A x \in Keys(lines) : x[1] = k[1] => \E i \in DOMAIN days : days[i] = x[2]
<1> DEFINE u == k[1]
           K == {x \in Keys(lines) : x[1] = u}
           D == {x[2] : x \in K}
           day == [x \in K |-> x[2]]
           days == InOrder(D)
<1>1. IsFiniteSet(Keys(lines)) /\ \A x \in Keys(lines) : x = <<x[1], x[2]>> /\ x[2] \in Nat
  BY KeysOfLines DEF KeyType
<1>2. IsFiniteSet(K)
  BY <1>1, FS_Subset
<1>3. \A x \in K : x \in Keys(lines) /\ x = <<u, x[2]>> /\ x[2] \in Nat
  BY <1>1
<1>4. ByDay(lines)[u] = days
  <2>1. u \in UsersIn(lines)
    BY DEF UsersIn, Keys, Key
  <2> QED
    BY <2>1 DEF ByDay
<1>5. \A x \in Keys(lines) : x[1] = u => x \in K
  OBVIOUS
<1> HIDE DEF K, u
<1>6. day \in Surjection(K, D)
  BY DEF Surjection
<1>7. \A x \in K : x[2] \in D
  OBVIOUS
<1>8. D \subseteq Nat /\ \A d \in D : <<u, d>> \in K
  BY <1>3
<1> HIDE DEF D, day
<1>9. IsFiniteSet(D)
  BY <1>2, <1>6, FS_Surjection
<1> DEFINE N == Cardinality(D)
<1>10. /\ N \in Nat /\ days \in [1 .. N -> D]
       /\ \A i, j \in 1 .. N : i < j => days[i] < days[j]
       /\ \A n \in D : \E i \in 1 .. N : days[i] = n
  BY <1>8, <1>9, InOrderFacts
<1> HIDE DEF days, N
<1>11. \A i \in 1 .. N : days[i] \in D /\ days[i] \in Nat
  BY <1>8, <1>10
<1>12. \A i, j \in 1 .. N : i < j <=> days[i] < days[j]
  <2> SUFFICES ASSUME NEW i \in 1 .. N, NEW j \in 1 .. N, days[i] < days[j] PROVE i < j
    BY <1>10
  <2>1. i = j => days[i] = days[j]
    OBVIOUS
  <2>2. j < i => days[j] < days[i]
    BY <1>10
  <2>3. days[i] \in Nat /\ days[j] \in Nat /\ i \in Nat /\ j \in Nat
    BY <1>10, <1>11
  <2> QED
    BY <2>1, <2>2, <2>3
<1>13. DOMAIN days = 1 .. N
  BY <1>10
<1>14. \A i \in 1 .. N : <<u, days[i]>> \in Keys(lines)
  BY <1>3, <1>8, <1>11
<1>15. \A x \in Keys(lines) : x[1] = u => \E i \in 1 .. N : days[i] = x[2]
  BY <1>5, <1>7, <1>10
<1> QED
  BY <1>4, <1>12, <1>13, <1>14, <1>15 DEF u

\* The line that first shows a row of the log.
LEMMA FirstLineFacts ==
  ASSUME NEW lines \in Seq(LogLine), NEW k \in Keys(lines)
  PROVE  /\ FirstLine(lines, k) \in 1 .. Len(lines)
         /\ Key(lines[FirstLine(lines, k)]) = k
         /\ \A i \in 1 .. Len(lines) : Key(lines[i]) = k => FirstLine(lines, k) <= i
<1> DEFINE S == {i \in DOMAIN lines : Key(lines[i]) = k}
<1>1. DOMAIN lines = 1 .. Len(lines) /\ Len(lines) \in Nat
  OBVIOUS
<1>2. S \subseteq Nat /\ S # {}
  BY <1>1 DEF Keys, Range
<1>3. \A i \in S : i \in 1 .. Len(lines) /\ Key(lines[i]) = k
  BY <1>1
<1>4. \A i \in 1 .. Len(lines) : Key(lines[i]) = k => i \in S
  BY <1>1
<1>5. FirstLine(lines, k) = Min(S)
  BY DEF FirstLine
<1> HIDE DEF S
<1>6. Min(S) \in S /\ \A i \in S : Min(S) <= i
  BY <1>2, LeastOne
<1> QED
  BY <1>3, <1>4, <1>5, <1>6

\* When the lines are in order of time, a user's rows are met in the order of their days.
LEMMA AsMetFacts ==
  ASSUME NEW lines \in Seq(LogLine), Chronological(lines), NEW k \in Keys(lines)
  PROVE  LET days == AsMet(lines)[k[1]] IN
         /\ \A i, j \in DOMAIN days : i < j <=> days[i] < days[j]
         /\ \A i \in DOMAIN days : <<k[1], days[i]>> \in Keys(lines)
         /\ \A x \in Keys(lines) : x[1] = k[1] => \E i \in DOMAIN days : days[i] = x[2]
<1> DEFINE u == k[1]
           K == {x \in Keys(lines) : x[1] = u}
           F == {FirstLine(lines, x) : x \in K}
           first == [x \in K |-> FirstLine(lines, x)]
           starts == InOrder(F)
           days == [n \in DOMAIN starts |-> lines[starts[n]].day]
<1>1. IsFiniteSet(Keys(lines)) /\ \A x \in Keys(lines) : x = <<x[1], x[2]>> /\ x[2] \in Nat
  BY KeysOfLines DEF KeyType
<1>2. IsFiniteSet(K)
  BY <1>1, FS_Subset
<1>3. \A x \in K : x \in Keys(lines) /\ x = <<u, x[2]>> /\ x[2] \in Nat
  BY <1>1
<1>4. AsMet(lines)[u] = days
  <2>1. u \in UsersIn(lines)
    BY DEF UsersIn, Keys, Key
  <2> QED
    BY <2>1 DEF AsMet
<1>5. \A x \in Keys(lines) : x[1] = u => x \in K
  OBVIOUS
<1> HIDE DEF K, u
<1>6. first \in Surjection(K, F)
  BY DEF Surjection
<1>7. \A x \in K : FirstLine(lines, x) \in F
  OBVIOUS
<1>8. \A n \in F : \E x \in K : n = FirstLine(lines, x)
  OBVIOUS
<1> HIDE DEF F, first
<1>9. IsFiniteSet(F)
  BY <1>2, <1>6, FS_Surjection
<1>10. \A i \in 1 .. Len(lines) : lines[i] \in LogLine
  OBVIOUS
<1>11. \A x \in K : /\ FirstLine(lines, x) \in 1 .. Len(lines)
                    /\ lines[FirstLine(lines, x)].user = u /\ lines[FirstLine(lines, x)].day = x[2]
  <2> SUFFICES ASSUME NEW x \in K
               PROVE  /\ FirstLine(lines, x) \in 1 .. Len(lines)
                      /\ lines[FirstLine(lines, x)].user = u /\ lines[FirstLine(lines, x)].day = x[2]
    OBVIOUS
  <2>1. FirstLine(lines, x) \in 1 .. Len(lines) /\ Key(lines[FirstLine(lines, x)]) = x
    BY <1>3, FirstLineFacts
  <2> QED
    BY <1>3, <2>1 DEF Key
<1>12. F \subseteq Nat
  BY <1>8, <1>11
<1> DEFINE N == Cardinality(F)
<1>13. /\ N \in Nat /\ starts \in [1 .. N -> F]
       /\ \A i, j \in 1 .. N : i < j => starts[i] < starts[j]
       /\ \A n \in F : \E i \in 1 .. N : starts[i] = n
  BY <1>9, <1>12, InOrderFacts
<1> HIDE DEF starts, N
<1>14. DOMAIN days = 1 .. N /\ \A i \in 1 .. N : days[i] = lines[starts[i]].day
  BY <1>13
<1> HIDE DEF days
<1>15. ASSUME NEW i \in 1 .. N
       PROVE  \E x \in K : starts[i] = FirstLine(lines, x) /\ days[i] = x[2]
  <2>1. PICK x \in K : starts[i] = FirstLine(lines, x)
    BY <1>8, <1>13
  <2> QED
    BY <1>11, <1>14, <2>1
<1>16. ASSUME NEW i \in 1 .. N, NEW j \in 1 .. N, i < j PROVE days[i] < days[j]
  <2>1. PICK x \in K : starts[i] = FirstLine(lines, x) /\ days[i] = x[2]
    BY <1>15
  <2>2. PICK y \in K : starts[j] = FirstLine(lines, y) /\ days[j] = y[2]
    BY <1>15
  <2>3. FirstLine(lines, x) < FirstLine(lines, y)
    BY <1>13, <1>16, <2>1, <2>2
  <2>4. x[2] <= y[2]
    BY <1>11, <2>3 DEF Chronological
  <2>5. x[2] # y[2]
    <3> SUFFICES ASSUME x[2] = y[2] PROVE FALSE
      OBVIOUS
    <3>1. x = y
      BY <1>3
    <3>2. FirstLine(lines, x) \in Nat
      BY <1>11
    <3> QED
      BY <2>3, <3>1, <3>2
  <2>6. x[2] \in Nat /\ y[2] \in Nat
    BY <1>3
  <2> QED
    BY <2>1, <2>2, <2>4, <2>5, <2>6
<1>17. \A i \in 1 .. N : days[i] \in Nat
  BY <1>3, <1>15
<1>18. \A i, j \in 1 .. N : i < j <=> days[i] < days[j]
  <2> SUFFICES ASSUME NEW i \in 1 .. N, NEW j \in 1 .. N, days[i] < days[j] PROVE i < j
    BY <1>16
  <2>1. i = j => days[i] = days[j]
    OBVIOUS
  <2>2. j < i => days[j] < days[i]
    BY <1>16
  <2>3. days[i] \in Nat /\ days[j] \in Nat /\ i \in Nat /\ j \in Nat
    BY <1>13, <1>17
  <2> QED
    BY <2>1, <2>2, <2>3
<1>19. \A i \in 1 .. N : <<u, days[i]>> \in Keys(lines)
  <2> SUFFICES ASSUME NEW i \in 1 .. N PROVE <<u, days[i]>> \in Keys(lines)
    OBVIOUS
  <2>1. PICK x \in K : days[i] = x[2]
    BY <1>15
  <2> QED
    BY <1>3, <2>1
<1>20. \A x \in Keys(lines) : x[1] = u => \E i \in 1 .. N : days[i] = x[2]
  <2> SUFFICES ASSUME NEW x \in Keys(lines), x[1] = u PROVE \E i \in 1 .. N : days[i] = x[2]
    OBVIOUS
  <2>1. x \in K
    BY <1>5
  <2>2. PICK i \in 1 .. N : starts[i] = FirstLine(lines, x)
    BY <1>7, <1>13, <2>1
  <2>3. days[i] = x[2]
    BY <1>11, <1>14, <2>1, <2>2
  <2> QED
    BY <2>3
<1> QED
  BY <1>4, <1>14, <1>18, <1>19, <1>20 DEF u

\* A row of the merged table has the columns of each table that has the row.
LEMMA MergedColumns ==
  ASSUME NEW logs
  PROVE  /\ \A k \in Keys(logs.file) : Extract(logs)[k]["daily_new_filename_count"]
              = NewItems(ByDay(logs.file), [x \in Keys(logs.file) |-> Whats(logs.file, x)])[k]
         /\ \A k \in Keys(logs.http) : Extract(logs)[k]["daily_new_domain_count"]
              = NewItems(AsMet(logs.http), [x \in Keys(logs.http) |-> Domains(logs.http, x)])[k]
<1> DEFINE tables == [logon |-> LogonFeatures(logs.logon), file |-> FileFeatures(logs.file),
                      device |-> DeviceFeatures(logs.device), http |-> HttpFeatures(logs.http)]
           of(c) == CHOOSE x \in DOMAIN Columns : c \in Columns[x]
           row(k) == [c \in UNION Range(Columns) |->
                       IF k \in DOMAIN tables[of(c)] THEN tables[of(c)][k][c] ELSE 0]
           all == UNION {DOMAIN tables[d] : d \in DOMAIN tables}
<1>1. Extract(logs) = [k \in all |-> row(k)]
  BY DEF Extract
<1>2. /\ DOMAIN tables.file = Keys(logs.file) /\ DOMAIN tables.http = Keys(logs.http)
      /\ tables["file"] = FileFeatures(logs.file) /\ tables["http"] = HttpFeatures(logs.http)
  BY DEF FileFeatures, HttpFeatures
<1>3. Keys(logs.file) \subseteq all /\ Keys(logs.http) \subseteq all
  BY <1>2
<1>4. \A k \in Keys(logs.file) : FileFeatures(logs.file)[k]["daily_new_filename_count"]
        = NewItems(ByDay(logs.file), [x \in Keys(logs.file) |-> Whats(logs.file, x)])[k]
  BY DEF FileFeatures
<1>5. \A k \in Keys(logs.http) : HttpFeatures(logs.http)[k]["daily_new_domain_count"]
        = NewItems(AsMet(logs.http), [x \in Keys(logs.http) |-> Domains(logs.http, x)])[k]
  BY DEF HttpFeatures
<1>6. /\ "daily_new_filename_count" \in UNION Range(Columns)
      /\ "daily_new_domain_count" \in UNION Range(Columns)
      /\ of("daily_new_filename_count") = "file" /\ of("daily_new_domain_count") = "http"
  <2>1. DOMAIN Columns = {"logon", "file", "device", "http"}
    BY DEF Columns
  <2>2. /\ "daily_new_filename_count" \in Columns["file"] /\ "daily_new_domain_count" \in Columns["http"]
        /\ \A x \in DOMAIN Columns : "daily_new_filename_count" \in Columns[x] => x = "file"
        /\ \A x \in DOMAIN Columns : "daily_new_domain_count" \in Columns[x] => x = "http"
    BY DEF Columns
  <2> QED
    BY <2>1, <2>2 DEF Range
<1> HIDE DEF tables, all, of
<1>7. \A k \in Keys(logs.file) : Extract(logs)[k]["daily_new_filename_count"]
        = FileFeatures(logs.file)[k]["daily_new_filename_count"]
  <2> SUFFICES ASSUME NEW k \in Keys(logs.file)
               PROVE  Extract(logs)[k]["daily_new_filename_count"] = FileFeatures(logs.file)[k]["daily_new_filename_count"]
    OBVIOUS
  <2>1. Extract(logs)[k] = row(k)
    BY <1>1, <1>3
  <2>2. row(k)["daily_new_filename_count"] = IF k \in DOMAIN tables["file"] THEN tables["file"][k]["daily_new_filename_count"] ELSE 0
    BY <1>6
  <2> QED
    BY <1>2, <2>1, <2>2
<1>8. \A k \in Keys(logs.http) : Extract(logs)[k]["daily_new_domain_count"]
        = HttpFeatures(logs.http)[k]["daily_new_domain_count"]
  <2> SUFFICES ASSUME NEW k \in Keys(logs.http)
               PROVE  Extract(logs)[k]["daily_new_domain_count"] = HttpFeatures(logs.http)[k]["daily_new_domain_count"]
    OBVIOUS
  <2>1. Extract(logs)[k] = row(k)
    BY <1>1, <1>3
  <2>2. row(k)["daily_new_domain_count"] = IF k \in DOMAIN tables["http"] THEN tables["http"][k]["daily_new_domain_count"] ELSE 0
    BY <1>6
  <2> QED
    BY <1>2, <2>1, <2>2
<1> QED
  BY <1>4, <1>5, <1>7, <1>8

\* What the extractors count as new is what the user's earlier days did not have.
LEMMA ExtractCountsNew ==
  ASSUME NEW logs \in Logs
  PROVE  /\ \A k \in Keys(logs.file) : Extract(logs)[k]["daily_new_filename_count"]
              = Cardinality(NewTo(k, logs.file, LAMBDA x : Whats(logs.file, x)))
         /\ Chronological(logs.http) =>
              \A k \in Keys(logs.http) : Extract(logs)[k]["daily_new_domain_count"]
                = Cardinality(NewTo(k, logs.http, LAMBDA x : Domains(logs.http, x)))
<1>1. logs.file \in Seq(LogLine) /\ logs.http \in Seq(LogLine)
  <2>1. logs \in [logon : Seq(LogLine), file : Seq(LogLine), device : Seq(LogLine), http : Seq(LogLine)]
    BY TrainingAssumption DEF TrainingAssumption
  <2> QED
    BY <2>1
<1>2. ASSUME NEW k \in Keys(logs.file)
      PROVE  Extract(logs)[k]["daily_new_filename_count"]
               = Cardinality(NewTo(k, logs.file, LAMBDA x : Whats(logs.file, x)))
  <2> DEFINE K == Keys(logs.file)
             items == [x \in K |-> Whats(logs.file, x)]
             order == ByDay(logs.file)
  <2>1. DOMAIN items = K /\ \A x \in DOMAIN items : KeyType(x)
    BY <1>1, KeysOfLines
  <2>2. /\ \A i, j \in DOMAIN order[k[1]] : i < j <=> order[k[1]][i] < order[k[1]][j]
        /\ \A i \in DOMAIN order[k[1]] : <<k[1], order[k[1]][i]>> \in DOMAIN items
        /\ \A x \in DOMAIN items : x[1] = k[1] => \E i \in DOMAIN order[k[1]] : order[k[1]][i] = x[2]
    BY <1>1, <1>2, ByDayFacts
  <2>3. NewTo(k, logs.file, LAMBDA x : Whats(logs.file, x)) = NewOf(items, k)
    BY <1>2 DEF NewTo, NewOf
  <2>4. Extract(logs)[k]["daily_new_filename_count"] = NewItems(order, items)[k]
    BY <1>2, MergedColumns
  <2>5. k \in DOMAIN items
    BY <1>2
  <2> HIDE DEF K, items, order
  <2>6. NewItems(order, items)[k] = Cardinality(NewOf(items, k))
    BY <2>1, <2>2, <2>5, NewInOrder
  <2> QED
    BY <2>3, <2>4, <2>6
<1>3. ASSUME Chronological(logs.http), NEW k \in Keys(logs.http)
      PROVE  Extract(logs)[k]["daily_new_domain_count"]
               = Cardinality(NewTo(k, logs.http, LAMBDA x : Domains(logs.http, x)))
  <2> DEFINE K == Keys(logs.http)
             items == [x \in K |-> Domains(logs.http, x)]
             order == AsMet(logs.http)
  <2>1. DOMAIN items = K /\ \A x \in DOMAIN items : KeyType(x)
    BY <1>1, KeysOfLines
  <2>2. /\ \A i, j \in DOMAIN order[k[1]] : i < j <=> order[k[1]][i] < order[k[1]][j]
        /\ \A i \in DOMAIN order[k[1]] : <<k[1], order[k[1]][i]>> \in DOMAIN items
        /\ \A x \in DOMAIN items : x[1] = k[1] => \E i \in DOMAIN order[k[1]] : order[k[1]][i] = x[2]
    BY <1>1, <1>3, AsMetFacts
  <2>3. NewTo(k, logs.http, LAMBDA x : Domains(logs.http, x)) = NewOf(items, k)
    BY <1>3 DEF NewTo, NewOf
  <2>4. Extract(logs)[k]["daily_new_domain_count"] = NewItems(order, items)[k]
    BY <1>3, MergedColumns
  <2>5. k \in DOMAIN items
    BY <1>3
  <2> HIDE DEF K, items, order
  <2>6. NewItems(order, items)[k] = Cardinality(NewOf(items, k))
    BY <2>1, <2>2, <2>5, NewInOrder
  <2> QED
    BY <2>3, <2>4, <2>6
<1> QED
  BY <1>2, <1>3

TableType(table) == IsFiniteSet(DOMAIN table) /\ \A k \in DOMAIN table : KeyType(k)
RowsFrom(table, user) == {k \in DOMAIN table : k[1] = user}

\* The days of a user are in order, as many as the user has rows, and each the day of one.
LEMMA DaysFacts ==
  ASSUME NEW table, TableType(table), NEW user
  PROVE  LET N == Cardinality(RowsFrom(table, user))
             days == DaysOf(table, user) IN
         /\ N \in Nat /\ days \in [1 .. N -> Nat] /\ Len(days) = N
         /\ \A i, j \in 1 .. N : i < j => days[i] < days[j]
         /\ \A i \in 1 .. N : <<user, days[i]>> \in DOMAIN table
         /\ \A k \in RowsFrom(table, user) : \E i \in 1 .. N : k = <<user, days[i]>>
<1> DEFINE K == RowsFrom(table, user)
           D == {k[2] : k \in K}
           day == [k \in K |-> k[2]]
           days == InOrder(D)
<1>1. K \subseteq DOMAIN table /\ \A k \in K : k = <<user, k[2]>> /\ k[2] \in Nat
  BY DEF TableType, RowsFrom, KeyType
<1>2. IsFiniteSet(K)
  BY <1>1, FS_Subset DEF TableType
<1>3. DaysOf(table, user) = days
  BY DEF DaysOf, RowsFrom
<1> HIDE DEF K
<1>4. day \in Bijection(K, D)
  <2>1. \A k, l \in K : k[2] = l[2] => k = l
    BY <1>1
  <2> QED
    BY <2>1 DEF Bijection, Injection, Surjection, IsInjective
<1>5. D \subseteq Nat
  BY <1>1
<1>6. \A d \in D : <<user, d>> \in K
  BY <1>1
<1>7. \A k \in K : k[2] \in D /\ k = <<user, k[2]>>
  BY <1>1
<1> HIDE DEF D, day
<1>8. IsFiniteSet(D) /\ Cardinality(D) = Cardinality(K)
  BY <1>2, <1>4, FS_Bijection DEF ExistsBijection
<1> DEFINE N == Cardinality(K)
<1>9. /\ N \in Nat /\ days \in [1 .. N -> D]
      /\ \A i, j \in 1 .. N : i < j => days[i] < days[j]
      /\ \A n \in D : \E i \in 1 .. N : days[i] = n
  BY <1>5, <1>8, InOrderFacts
<1> HIDE DEF days, N
<1>10. days \in [1 .. N -> Nat] /\ Len(days) = N
  <2>1. \A i \in 1 .. N : days[i] \in Nat
    BY <1>5, <1>9
  <2>2. days = [i \in 1 .. N |-> days[i]]
    BY <1>9
  <2>3. days \in [1 .. N -> Nat]
    BY <2>1, <2>2
  <2> QED
    BY <1>9, <2>3
<1>11. \A i \in 1 .. N : <<user, days[i]>> \in DOMAIN table
  BY <1>1, <1>6, <1>9
<1>12. \A k \in K : \E i \in 1 .. N : k = <<user, days[i]>>
  <2> SUFFICES ASSUME NEW k \in K PROVE \E i \in 1 .. N : k = <<user, days[i]>>
    OBVIOUS
  <2>1. PICK i \in 1 .. N : days[i] = k[2]
    BY <1>7, <1>9
  <2> QED
    BY <1>7, <2>1
<1> QED
  BY <1>3, <1>9, <1>10, <1>11, <1>12 DEF N, K

\* A sequence holds the Window rows before its target, all of them earlier.
LEMMA SequenceFacts ==
  ASSUME NEW table, TableType(table), NEW users, NEW s \in Sequences(table, users)
  PROVE  /\ s.user \in users
         /\ \A i \in 1 .. Window : s.days[i] < s.target
         /\ Cardinality({k \in DOMAIN table : k[1] = s.user /\ k[2] >= s.days[1] /\ k[2] < s.target}) = Window
<1>1. PICK u \in users :
        LET days == DaysOf(table, u) IN
        \E i \in Window + 1 .. Len(days) :
          s = [user |-> u, days |-> SubSeq(days, i - Window, i - 1), target |-> days[i]]
  BY DEF Sequences
<1> DEFINE days == DaysOf(table, u)
           N == Cardinality(RowsFrom(table, u))
<1>2. PICK i \in Window + 1 .. Len(days) :
        s = [user |-> u, days |-> SubSeq(days, i - Window, i - 1), target |-> days[i]]
  BY <1>1
<1>3. /\ N \in Nat /\ days \in [1 .. N -> Nat] /\ Len(days) = N
      /\ \A a, b \in 1 .. N : a < b => days[a] < days[b]
      /\ \A a \in 1 .. N : <<u, days[a]>> \in DOMAIN table
      /\ \A k \in RowsFrom(table, u) : \E a \in 1 .. N : k = <<u, days[a]>>
  BY DaysFacts
<1> HIDE DEF days, N
<1>4. Window \in Nat \ {0} /\ i \in Nat /\ N \in Nat /\ i <= N /\ i >= Window + 1
  BY <1>2, <1>3, Constants
<1> DEFINE first == i - Window
           part == SubSeq(days, first, i - 1)
<1>5. first \in 1 .. i - 1 /\ i - 1 <= N /\ first + Window = i
  BY <1>4
<1>6. \A a \in 1 .. Window : part[a] = days[first + a - 1]
  <2>1. \A a \in first .. i - 1 : days[a] \in Nat
    BY <1>3, <1>4, <1>5
  <2>2. first \in Int /\ i - 1 \in Int /\ i - 1 - first + 1 = Window
    BY <1>4, <1>5
  <2> DEFINE m == i - 1
  <2> HIDE DEF first, m
  <2>3. \A a \in 1 .. m - first + 1 : SubSeq(days, first, m)[a] = days[first + a - 1]
    BY <2>1, <2>2, SubSeqProperties DEF m
  <2> QED
    BY <2>2, <2>3 DEF m, first
<1>7. s.user = u /\ s.days = part /\ s.target = days[i]
  BY <1>2
<1> HIDE DEF part, first
<1>8. \A a \in 1 .. Window : first + a - 1 \in 1 .. N /\ first + a - 1 < i
  BY <1>4, <1>5
<1>9. \A a \in 1 .. Window : s.days[a] < s.target
  <2> SUFFICES ASSUME NEW a \in 1 .. Window PROVE s.days[a] < s.target
    OBVIOUS
  <2>1. first + a - 1 \in 1 .. N /\ i \in 1 .. N /\ first + a - 1 < i
    BY <1>4, <1>8
  <2>2. days[first + a - 1] < days[i]
    BY <1>3, <2>1
  <2>3. s.days[a] = days[first + a - 1]
    BY <1>6, <1>7
  <2> QED
    BY <1>7, <2>2, <2>3
<1>10. part[1] = days[first]
  BY <1>4, <1>5, <1>6
<1> DEFINE window == {k \in DOMAIN table : k[1] = u /\ k[2] >= days[first] /\ k[2] < days[i]}
           row == [a \in first .. i - 1 |-> <<u, days[a]>>]
<1>11. \A a \in first .. i - 1 : a \in 1 .. N /\ a >= first /\ a < i
  BY <1>4, <1>5
<1>12. \A a \in first .. i - 1 : days[a] >= days[first] /\ days[a] < days[i]
  <2> SUFFICES ASSUME NEW a \in first .. i - 1 PROVE days[a] >= days[first] /\ days[a] < days[i]
    OBVIOUS
  <2>1. a \in 1 .. N /\ first \in 1 .. N /\ i \in 1 .. N /\ a < i /\ (a = first \/ first < a)
    BY <1>4, <1>5, <1>11
  <2>2. days[a] \in Nat /\ days[first] \in Nat
    BY <1>3, <2>1
  <2> QED
    BY <1>3, <2>1, <2>2
<1>13. \A a \in first .. i - 1 : <<u, days[a]>> \in window
  BY <1>3, <1>11, <1>12
<1>14. \A k \in window : \E a \in first .. i - 1 : k = <<u, days[a]>>
  <2> SUFFICES ASSUME NEW k \in window PROVE \E a \in first .. i - 1 : k = <<u, days[a]>>
    OBVIOUS
  <2>1. PICK a \in 1 .. N : k = <<u, days[a]>>
    BY <1>3 DEF RowsFrom
  <2>2. days[a] >= days[first] /\ days[a] < days[i]
    BY <2>1
  <2>3. first \in 1 .. N /\ i \in 1 .. N
    BY <1>4, <1>5
  <2>4. days[a] \in Nat /\ days[first] \in Nat /\ days[i] \in Nat
    BY <1>3, <2>3
  <2>5. ~(a < first) /\ ~(i < a) /\ a # i
    BY <1>3, <2>2, <2>3, <2>4
  <2>6. a \in first .. i - 1
    BY <1>4, <2>3, <2>5
  <2> QED
    BY <2>1, <2>6
<1>15. row \in Bijection(first .. i - 1, window)
  <2>1. \A a, b \in first .. i - 1 : days[a] = days[b] => a = b
    <3> SUFFICES ASSUME NEW a \in first .. i - 1, NEW b \in first .. i - 1, days[a] = days[b]
                 PROVE  a = b
      OBVIOUS
    <3>1. a \in 1 .. N /\ b \in 1 .. N
      BY <1>11
    <3>2. days[a] \in Nat /\ days[b] \in Nat
      BY <1>3, <3>1
    <3>3. ~(a < b) /\ ~(b < a)
      BY <1>3, <3>1, <3>2
    <3> QED
      BY <3>1, <3>3
  <2>2. \A a, b \in first .. i - 1 : <<u, days[a]>> = <<u, days[b]>> => a = b
    BY <2>1
  <2> HIDE DEF window
  <2> QED
    BY <1>13, <1>14, <2>2 DEF Bijection, Injection, Surjection, IsInjective
<1>16. Cardinality(window) = Window
  <2>1. IsFiniteSet(first .. i - 1) /\ Cardinality(first .. i - 1) = Window
    <3>1. first \in Int /\ i - 1 \in Int /\ ~(first > i - 1) /\ (i - 1) - first + 1 = Window
      BY <1>4, <1>5
    <3> DEFINE m == i - 1
    <3> HIDE DEF m
    <3>2. IsFiniteSet(first .. m) /\ Cardinality(first .. m) = IF first > m THEN 0 ELSE m - first + 1
      BY <3>1, FS_Interval DEF m
    <3> QED
      BY <3>1, <3>2 DEF m
  <2> HIDE DEF row, window
  <2> QED
    BY <1>15, <2>1, FS_Bijection DEF ExistsBijection
<1> QED
  BY <1>7, <1>9, <1>10, <1>16

\* A scenario with two users or more is trained and tested.
LEMMA BothSides ==
  ASSUME NEW users \in SUBSET DOMAIN Scenario, NEW s,
         Cardinality(users \cap UsersOf(s)) = SplitSize(Cardinality(UsersOf(s))),
         Cardinality(UsersOf(s)) >= 2
  PROVE  UsersOf(s) \cap users # {} /\ UsersOf(s) \cap (DOMAIN Scenario \ users) # {}
<1> DEFINE U == UsersOf(s)
           n == Cardinality(U)
<1>1. U \in SUBSET DOMAIN Scenario
  BY DEF UsersOf
<1> HIDE DEF U
<1>2. IsFiniteSet(U) /\ n \in Nat
  BY <1>1, TrainingAssumption, FS_Subset, FS_CardinalityType DEF TrainingAssumption
<1>3. Cardinality(users \cap U) = (4 * n) \div 5 /\ n >= 2
  BY DEF SplitSize, U
<1> HIDE DEF n
<1>4. (4 * n) \div 5 >= 1 /\ (4 * n) \div 5 < n
  BY <1>2, <1>3
<1>5. U \cap users # {}
  <2> SUFFICES ASSUME U \cap users = {} PROVE FALSE
    OBVIOUS
  <2>1. users \cap U = {}
    OBVIOUS
  <2>2. Cardinality(users \cap U) = 0
    BY <2>1, FS_EmptySet, Zenon
  <2> QED
    BY <1>2, <1>3, <1>4, <2>2
<1>6. U \cap (DOMAIN Scenario \ users) # {}
  <2> SUFFICES ASSUME U \cap (DOMAIN Scenario \ users) = {} PROVE FALSE
    OBVIOUS
  <2>1. users \cap U = U
    BY <1>1
  <2>2. Cardinality(users \cap U) = n
    BY <2>1 DEF n
  <2> QED
    BY <1>2, <1>3, <1>4, <2>2
<1> QED
  BY <1>5, <1>6 DEF U

\* The largest multiple of the step up to a length is one.
LEMMA LastFullStep ==
  ASSUME NEW n \in Nat, NEW step \in Nat \ {0}
  PROVE  LET m == (n \div step) * step IN m \in 0 .. n /\ m % step = 0
<1> DEFINE q == n \div step
           m == q * step
           p == m \div step
           r == m % step
<1>1. q \in Nat /\ m <= n
  BY Whole
<1> HIDE DEF q
<1>2. m \in Nat
  BY <1>1
<1> HIDE DEF m
<1>3. p \in Nat /\ r \in 0 .. step - 1 /\ m = step * p + r
  BY <1>2
<1> HIDE DEF p, r
<1>4. q * step = step * p + r
  BY <1>3 DEF m
<1>5. (q - p) * step = r
  BY <1>1, <1>3, <1>4
<1> DEFINE d == q - p
<1>6. d \in Int
  BY <1>1, <1>3
<1> HIDE DEF d
<1>7. d * step = r
  BY <1>5 DEF d
<1>8. d >= 1 => d * step >= step
  BY <1>6
<1>9. d <= -1 => d * step <= -step
  BY <1>6
<1>10. d = 0
  BY <1>3, <1>6, <1>7, <1>8, <1>9
<1>11. r = 0
  BY <1>7, <1>10
<1> QED
  BY <1>1, <1>2, <1>11 DEF r, m, q

\* The queue of the reported length holds the insiders that are ranked, or has its default
\* length for want of a full step that holds them.
LEMMA QueueFacts ==
  ASSUME NEW users, IsFiniteSet(users), NEW queue \in SetToSeqs(users), NEW u \in users \cap Insiders
  PROVE  \/ u \in Range(SubSeq(queue, 1, Min({OptimalK(queue), Len(queue)})))
         \/ /\ OptimalK(queue) = 2 * Step
            /\ Found(queue, (Len(queue) \div Step) * Step) < Found(queue, Len(queue))
<1> DEFINE n == Cardinality(users)
           in(k) == {i \in 1 .. k : queue[i] \in Insiders}
           full == {k \in 1 .. Len(queue) : k % Step = 0 /\ Found(queue, k) = Found(queue, Len(queue))}
<1>1. n \in Nat
  BY FS_CardinalityType
<1>2. queue \in [1 .. n -> users] /\ \A i, j \in 1 .. n : i # j => queue[i] # queue[j]
  BY DEF SetToSeqs
<1>3. queue \in Injection(1 .. n, users)
  BY <1>2 DEF Injection, IsInjective
<1>4. Cardinality(1 .. n) = n /\ IsFiniteSet(1 .. n)
  BY <1>1, FS_Interval
<1>5. queue \in Surjection(1 .. n, users)
  BY <1>3, <1>4, FS_Injection
<1>6. PICK j \in 1 .. n : queue[j] = u
  BY <1>5 DEF Surjection
<1>7. Len(queue) = n
  BY <1>1, <1>2
<1> HIDE DEF n
<1>8. \A k : Found(queue, k) = Cardinality(in(k))
  BY DEF Found
<1>9. j \in in(n)
  BY <1>6
<1>10. \A k \in 0 .. n : /\ in(k) \in SUBSET in(n) /\ IsFiniteSet(in(n))
                         /\ Cardinality(in(k)) \in Nat /\ Cardinality(in(n)) \in Nat
                         /\ Cardinality(in(k)) <= Cardinality(in(n))
                         /\ Cardinality(in(n)) = Cardinality(in(k)) => in(n) = in(k)
  <2> SUFFICES ASSUME NEW k \in 0 .. n
               PROVE  /\ in(k) \in SUBSET in(n) /\ IsFiniteSet(in(n))
                      /\ Cardinality(in(k)) \in Nat /\ Cardinality(in(n)) \in Nat
                      /\ Cardinality(in(k)) <= Cardinality(in(n))
                      /\ Cardinality(in(n)) = Cardinality(in(k)) => in(n) = in(k)
    OBVIOUS
  <2>1. in(n) \in SUBSET (1 .. n) /\ in(k) \in SUBSET in(n)
    BY <1>1
  <2> HIDE DEF in
  <2>2. IsFiniteSet(in(n))
    BY <1>4, <2>1, FS_Subset
  <2> QED
    BY <2>1, <2>2, FS_Subset, FS_CardinalityType
<1>11. \A k : j \in in(k) => j \in 1 .. k
  OBVIOUS
<1>12. in(0) = {}
  OBVIOUS
<1> HIDE DEF in
<1>13. Found(queue, n) # 0
  <2>1. n \in 0 .. n
    BY <1>1
  <2>2. IsFiniteSet(in(n)) /\ in(n) # {}
    BY <1>9, <1>10, <2>1
  <2> QED
    BY <1>8, <2>2, FS_EmptySet
<1>14. OptimalK(queue) = IF Found(queue, Len(queue)) = 0 \/ full = {} THEN 2 * Step ELSE Min(full)
  BY DEF OptimalK
<1>15. CASE full = {}
  <2> DEFINE m == (n \div Step) * Step
  <2>1. Step \in Nat \ {0}
    BY TrainingAssumption DEF TrainingAssumption
  <2>2. m \in 0 .. n /\ m % Step = 0
    BY <1>1, <2>1, LastFullStep
  <2> HIDE DEF m
  <2>3. Found(queue, m) # Found(queue, n)
    <3>1. CASE m = 0
      <4>1. Found(queue, m) = 0
        BY <1>8, <1>12, <3>1, FS_EmptySet
      <4> QED
        BY <1>13, <4>1
    <3>2. CASE m # 0
      <4>1. m \in 1 .. n
        BY <1>1, <2>2, <3>2
      <4> QED
        BY <1>7, <1>15, <2>2, <4>1
    <3> QED
      BY <3>1, <3>2
  <2>4. Found(queue, m) < Found(queue, n)
    <3>1. /\ Found(queue, m) \in Nat /\ Found(queue, n) \in Nat
          /\ Found(queue, m) <= Found(queue, n)
      BY <1>8, <1>10, <2>2
    <3> QED
      BY <2>3, <3>1
  <2> QED
    BY <1>7, <1>14, <1>15, <2>4 DEF m
<1>16. CASE full # {}
  <2> DEFINE k == Min(full)
  <2>1. full \subseteq Nat
    OBVIOUS
  <2>2. k \in full
    <3> HIDE DEF full
    <3> QED
      BY <1>16, <2>1, LeastOne
  <2> HIDE DEF k
  <2>3. k \in 1 .. n /\ Found(queue, k) = Found(queue, n)
    BY <1>7, <2>2
  <2>4. j \in in(k)
    <3>1. k \in 0 .. n
      BY <1>1, <2>3
    <3>2. Cardinality(in(n)) = Cardinality(in(k))
      BY <1>8, <2>3
    <3> QED
      BY <1>9, <1>10, <3>1, <3>2
  <2>5. j \in 1 .. k
    BY <1>11, <2>4
  <2>6. OptimalK(queue) = k
    BY <1>7, <1>13, <1>14, <1>16 DEF k
  <2>7. Min({k, n}) = k
    BY <1>1, <2>3, SmallerOf
  <2> DEFINE part == SubSeq(queue, 1, k)
  <2>8. part \in Seq(users) /\ Len(part) = k /\ part[j] = u
    <3>1. \A i \in 1 .. k : queue[i] \in users
      BY <1>1, <1>2, <2>3
    <3>2. 1 \in Int /\ k \in Int /\ 1 <= k /\ k - 1 + 1 = k
      BY <1>1, <2>3
    <3>3. /\ part \in Seq(users) /\ Len(part) = IF 1 <= k THEN k - 1 + 1 ELSE 0
          /\ \A i \in 1 .. k - 1 + 1 : part[i] = queue[1 + i - 1]
      <4> DEFINE one == 1
      <4>1. one \in Int /\ \A i \in one .. k : queue[i] \in users
        BY <3>1
      <4> HIDE DEF one, part
      <4>2. /\ SubSeq(queue, one, k) \in Seq(users)
            /\ Len(SubSeq(queue, one, k)) = IF one <= k THEN k - one + 1 ELSE 0
            /\ \A i \in 1 .. k - one + 1 : SubSeq(queue, one, k)[i] = queue[one + i - 1]
        BY <3>2, <4>1, SubSeqProperties
      <4> QED
        BY <4>2 DEF one, part
    <3> HIDE DEF part
    <3>4. part[j] = queue[1 + j - 1] /\ 1 + j - 1 = j
      BY <2>5, <3>2, <3>3
    <3> QED
      BY <1>6, <3>2, <3>3, <3>4
  <2> HIDE DEF part
  <2>9. u \in Range(part)
    <3>1. j \in DOMAIN part
      BY <2>5, <2>8
    <3> QED
      BY <2>8, <3>1 DEF Range
  <2> QED
    BY <1>7, <2>6, <2>7, <2>9 DEF part
<1> QED
  BY <1>15, <1>16

Splits ==
  {users \in SUBSET DOMAIN Scenario :
     \A s \in Range(Scenario) : Cardinality(users \cap UsersOf(s)) = SplitSize(Cardinality(UsersOf(s)))}
Past == {"fitted", "ranked", "reviewed"}

\* What each stage found is what the stages before it left.
TrainingInv ==
  /\ TrainingType
  /\ saved = NoFile \/ \E logs \in Logs : saved = <<[of |-> logs, rows |-> Extract(logs)]>>
  /\ rows # NoRows => saved # NoFile /\ rows = saved[1].rows
  /\ stage # "served" => log \in Logs
  /\ stage \in Past \cup {"extracted", "split"} => TableType(rows)
  /\ stage \in Past \cup {"split"} => train \in Splits
  /\ IF stage \in Past THEN fitted = Sequences(rows, train) ELSE fitted = {}
  /\ stage \in {"ranked", "reviewed"} => ranked \in SetToSeqs({s.user : s \in Sequences(rows, Test)})
  /\ stage = "reviewed" => optimal = OptimalK(ranked)

\* Every stage keeps that, whatever the server does.
LEMMA TrainingInductive == Spec => []TrainingInv
<1>1. Init => TrainingInv
  <2> SUFFICES ASSUME Init PROVE TrainingInv
    OBVIOUS
  <2>1. stage = "start" /\ log \in Logs /\ saved = NoFile /\ fitted = {} /\ train = {}
        /\ risk = <<>> /\ ranked = <<>> /\ optimal = 0 /\ rows = NoRows
    BY DEF Init, TrainingInit
  <2>2. TrainingType
    <3>1. Range(<<>>) = {}
      BY DEF Range
    <3>2. Range(risk) = {} /\ Range(ranked) = {}
      BY <2>1, <3>1
    <3> QED
      BY <2>1, <3>2 DEF TrainingType
  <2> QED
    BY <2>1, <2>2 DEF TrainingInv, Past
<1>2. ASSUME TrainingInv, TrainingType', [Next]_vars
      PROVE  TrainingInv'
  <2>1. CASE ExtractFeatures
    <3>1. /\ stage = "start" /\ stage' = "extracted"
          /\ saved' = IF saved = NoFile THEN <<[of |-> log, rows |-> Extract(log)]>> ELSE saved
          /\ rows' = saved'[1].rows /\ UNCHANGED <<log, train, fitted, ranked, optimal>>
      BY <2>1 DEF ExtractFeatures
    <3>2. log \in Logs /\ fitted = {}
      BY <1>2, <3>1 DEF TrainingInv, Past
    <3>3. PICK logs \in Logs : saved' = <<[of |-> logs, rows |-> Extract(logs)]>>
      BY <1>2, <3>1, <3>2 DEF TrainingInv
    <3>4. TableType(rows')
      <4>1. rows' = Extract(logs)
        BY <3>1, <3>3
      <4> QED
        BY <4>1, RowsOfLogs DEF TableType
    <3>5. rows' = saved'[1].rows /\ saved' # NoFile
      BY <3>1, <3>3 DEF NoFile
    <3> QED
      BY <1>2, <3>1, <3>2, <3>3, <3>4, <3>5 DEF TrainingInv, Past
  <2>2. CASE SplitUsers
    <3>1. /\ stage = "extracted" /\ stage' = "split" /\ train' \in Splits
          /\ UNCHANGED <<log, saved, rows, fitted, ranked, optimal>>
      BY <2>2 DEF SplitUsers, Splits
    <3> QED
      BY <1>2, <3>1 DEF TrainingInv, Past
  <2>3. CASE FitModels
    <3>1. /\ stage = "split" /\ stage' = "fitted" /\ fitted' = Sequences(rows, train)
          /\ UNCHANGED <<log, saved, rows, train, ranked, optimal>>
      BY <2>3 DEF FitModels
    <3>2. fitted' = Sequences(rows, train)'
      BY <3>1 DEF Sequences, DaysOf
    <3> QED
      BY <1>2, <3>1, <3>2 DEF TrainingInv, Past
  <2>4. CASE RankUsers
    <3>1. /\ stage = "fitted" /\ stage' = "ranked"
          /\ ranked' \in SetToSeqs({s.user : s \in Sequences(rows, Test)})
          /\ UNCHANGED <<log, saved, rows, train, fitted, optimal>>
      BY <2>4 DEF RankUsers
    <3>2. /\ Sequences(rows, train)' = Sequences(rows, train) /\ Test' = Test
          /\ Sequences(rows, Test)' = Sequences(rows, Test)
      BY <3>1 DEF Sequences, DaysOf, Test
    <3> QED
      BY <1>2, <3>1, <3>2 DEF TrainingInv, Past
  <2>5. CASE ReviewQueue
    <3>1. /\ stage = "ranked" /\ stage' = "reviewed" /\ optimal' = OptimalK(ranked)
          /\ UNCHANGED <<log, saved, rows, train, fitted, ranked>>
      BY <2>5 DEF ReviewQueue
    <3>2. /\ Sequences(rows, train)' = Sequences(rows, train)
          /\ Sequences(rows, Test)' = Sequences(rows, Test)
          /\ OptimalK(ranked)' = OptimalK(ranked)
      BY <3>1 DEF Sequences, DaysOf, Test, OptimalK, Found
    <3> QED
      BY <1>2, <3>1, <3>2 DEF TrainingInv, Past
  <2>6. CASE NewLogs
    <3>1. /\ stage = "start" /\ log' \in Logs
          /\ UNCHANGED <<stage, saved, rows, train, fitted, ranked, optimal>>
      BY <2>6 DEF NewLogs
    <3> QED
      BY <1>2, <3>1 DEF TrainingInv, Past
  <2>7. CASE Die
    <3>1. /\ stage # "served" /\ stage' = "start" /\ fitted' = {} /\ rows' = NoRows
          /\ UNCHANGED <<log, saved>>
      BY <2>7 DEF Die, Forget
    <3> QED
      BY <1>2, <3>1 DEF TrainingInv, Past
  <2>8. CASE Start
    <3>1. stage' = "served" /\ fitted' = {} /\ saved' = NoFile /\ rows' = NoRows
      BY <2>8 DEF Start, Deploy, Forget
    <3> QED
      BY <1>2, <3>1 DEF TrainingInv, Past
  <2>9. CASE UNCHANGED pipeline
    <3>1. UNCHANGED <<stage, log, saved, rows, train, fitted, ranked, optimal>>
      BY <2>9 DEF pipeline
    <3>2. /\ Sequences(rows, train)' = Sequences(rows, train)
          /\ Sequences(rows, Test)' = Sequences(rows, Test)
          /\ OptimalK(ranked)' = OptimalK(ranked)
      BY <3>1 DEF Sequences, DaysOf, Test, OptimalK, Found
    <3> QED
      BY <1>2, <3>1, <3>2 DEF TrainingInv
  <2>10. ServingNext => UNCHANGED pipeline
    BY DEF ServingNext, Store, NextDay, HoursPass, Finish, Restart, JudgeIdle, Judge, Served
  <2> QED
    BY <1>2, <2>1, <2>2, <2>3, <2>4, <2>5, <2>6, <2>7, <2>8, <2>9, <2>10 DEF Next, vars
<1> QED
  BY <1>1, <1>2, TrainingTyped, PTL DEF Spec

\* The models are fitted on the rows before each target and on train users only, and a
\* scenario with two users or more is trained and tested.
THEOREM ModelsSeeThePast == Spec => []TrainedOnThePast
<1>1. TrainingInv => TrainedOnThePast
  <2> SUFFICES ASSUME TrainingInv PROVE TrainedOnThePast
    OBVIOUS
  <2>1. ASSUME NEW s \in fitted
        PROVE  /\ s.user \in train /\ s.user \notin Test
               /\ \A i \in 1 .. Window : s.days[i] < s.target
               /\ Cardinality({k \in DOMAIN rows : k[1] = s.user /\ k[2] >= s.days[1] /\ k[2] < s.target}) = Window
    <3>1. TableType(rows) /\ s \in Sequences(rows, train)
      BY <2>1 DEF TrainingInv, Past
    <3> QED
      BY <3>1, SequenceFacts DEF Test
  <2>2. ASSUME stage = "split", NEW s \in Range(Scenario), Cardinality(UsersOf(s)) >= 2
        PROVE  UsersOf(s) \cap train # {} /\ UsersOf(s) \cap Test # {}
    <3>1. train \in Splits
      BY <2>2 DEF TrainingInv
    <3>2. /\ train \in SUBSET DOMAIN Scenario
          /\ Cardinality(train \cap UsersOf(s)) = SplitSize(Cardinality(UsersOf(s)))
      BY <3>1 DEF Splits
    <3> QED
      BY <2>2, <3>2, BothSides DEF Test
  <2> QED
    BY <2>1, <2>2 DEF TrainedOnThePast
<1> QED
  BY <1>1, TrainingInductive, PTL

\* Every insider of the test users is in the queue of the reported length, has too short a
\* history, or comes after the last full step.
THEOREM InsidersAreQueued == Spec => []QueueHoldsInsiders
<1>1. TrainingInv => QueueHoldsInsiders
  <2> SUFFICES ASSUME TrainingInv, stage = "reviewed", NEW u \in Insiders \cap Test,
                      Cardinality({k \in DOMAIN rows : k[1] = u}) > Window
               PROVE  \/ u \in Range(SubSeq(ranked, 1, Min({optimal, Len(ranked)})))
                      \/ /\ optimal = 2 * Step
                         /\ Found(ranked, (Len(ranked) \div Step) * Step) < Found(ranked, Len(ranked))
    <3>1. ASSUME TrainingInv, stage = "reviewed", NEW u \in Insiders \cap Test,
                 ~(Cardinality({k \in DOMAIN rows : k[1] = u}) > Window)
          PROVE  Cardinality({k \in DOMAIN rows : k[1] = u}) <= Window
      <4>1. TableType(rows)
        BY <3>1 DEF TrainingInv, Past
      <4>2. Cardinality(RowsFrom(rows, u)) \in Nat
        BY <4>1, DaysFacts
      <4> QED
        BY <3>1, <4>2, Constants DEF RowsFrom
    <3> QED
      BY <3>1 DEF QueueHoldsInsiders
  <2> DEFINE users == {s.user : s \in Sequences(rows, Test)}
             days == DaysOf(rows, u)
  <2>1. TableType(rows) /\ ranked \in SetToSeqs(users) /\ optimal = OptimalK(ranked)
    BY DEF TrainingInv, Past
  <2>2. Len(days) = Cardinality(RowsFrom(rows, u)) /\ Len(days) \in Nat
    BY <2>1, DaysFacts
  <2>3. Window + 1 \in Window + 1 .. Len(days)
    BY <2>2, Constants DEF RowsFrom
  <2>4. u \in users
    <3> DEFINE At(user, i) == [user |-> user, days |-> SubSeq(DaysOf(rows, user), i - Window, i - 1),
                               target |-> DaysOf(rows, user)[i]]
               Of(user) == {At(user, i) : i \in Window + 1 .. Len(DaysOf(rows, user))}
               s == At(u, Window + 1)
    <3>1. Sequences(rows, Test) = UNION {Of(user) : user \in Test}
      BY DEF Sequences
    <3>2. s.user = u
      OBVIOUS
    <3> HIDE DEF At
    <3>3. s \in Of(u)
      BY <2>3
    <3> HIDE DEF Of, s
    <3>4. u \in Test
      OBVIOUS
    <3>5. s \in Sequences(rows, Test)
      BY <3>1, <3>3, <3>4
    <3> QED
      BY <3>2, <3>5
  <2>5. IsFiniteSet(users)
    <3>1. users \in SUBSET DOMAIN Scenario
      <4>1. \A s \in Sequences(rows, Test) : s.user \in Test
        BY DEF Sequences
      <4> QED
        BY <4>1 DEF Test
    <3> HIDE DEF users
    <3> QED
      BY <3>1, TrainingAssumption, FS_Subset DEF TrainingAssumption
  <2> HIDE DEF users
  <2>6. u \in users \cap Insiders
    BY <2>4
  <2> QED
    BY <2>1, <2>5, <2>6, QueueFacts
<1> QED
  BY <1>1, TrainingInductive, PTL

\* The features in use are those of one log, and count as new what the user's earlier days did
\* not show; the models are fitted on the past, and the queue holds the insiders.
THEOREM LogsAreUsedRightly == Spec => []TrainedOnTheLogs
<1>1. TrainingInv => FeaturesOfALog
  <2> SUFFICES ASSUME TrainingInv, rows # NoRows PROVE FeaturesOfALog
    BY DEF FeaturesOfALog
  <2>1. PICK logs \in Logs : saved = <<[of |-> logs, rows |-> Extract(logs)]>>
    BY DEF TrainingInv
  <2>2. saved[1].of = logs /\ rows = Extract(logs)
    BY <2>1 DEF TrainingInv
  <2> QED
    BY <2>2, ExtractCountsNew DEF FeaturesOfALog
<1> QED
  BY <1>1, TrainingInductive, ModelsSeeThePast, InsidersAreQueued, PTL DEF TrainedOnTheLogs
=============================================================================
