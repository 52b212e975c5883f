-------------------------- MODULE AlgorithmsProofs --------------------------
(***************************************************************************)
(* Proofs about Algorithms: what Scoring, Fingerprint and Notifier compute *)
(* for every diagnosis, every payload and every course of the posts; and,  *)
(* from the lemmas of RepairProofs, what becomes of an answer.             *)
(***************************************************************************)
EXTENDS RepairProofs, FiniteSetTheorems

-----------------------------------------------------------------------------
(* Scores, for diagnoses with any number of pieces of evidence and of code locations *)

AnyDiagnosis == UNION {Diagnoses(e, l) : e \in Nat, l \in Nat}

\* engine.go: the least score of a report that is reused, if none is configured.
DefaultMinScore == 80

LEMMA Shape ==
  ASSUME NEW d \in AnyDiagnosis
  PROVE  /\ d.label \in Labels /\ d.evidence \in Nat
         /\ d.insufficient \in BOOLEAN /\ d.detailed \in BOOLEAN /\ d.code \in BOOLEAN
         /\ d.autoFixed \in BOOLEAN
         /\ d.steps \in Wordings /\ d.remediations \in Wordings /\ d.nonCode \in Wordings
         /\ d.evidence = 0 => ~d.detailed /\ ~d.code
         /\ \E n \in Nat : d.locations \in [1 .. n -> Findings]
<1>1. PICK e \in Nat, l \in Nat : d \in Diagnoses(e, l)
  BY DEF AnyDiagnosis
<1>2. d.locations \in UNION {[1 .. n -> Findings] : n \in 0 .. l}
  BY <1>1 DEF Diagnoses
<1> QED
  BY <1>1, <1>2 DEF Diagnoses

\* A share of 20 points is one.
LEMMA Share ==
  ASSUME NEW n \in Nat \ {0}, NEW k \in 0 .. n
  PROVE  (20 * k) \div n \in 0 .. 20
<1> DEFINE q == (20 * k) \div n
<1>1. q \in Int /\ q * n <= 20 * k /\ 20 * k < (q + 1) * n
  OBVIOUS
<1> HIDE DEF q
<1>2. CASE q >= 21
  <2>1. q * n >= 21 * n
    BY <1>1, <1>2
  <2> QED
    BY <1>1, <2>1
<1>3. CASE q <= -1
  <2>1. (q + 1) * n <= 0
    BY <1>1, <1>3
  <2> QED
    BY <1>1, <2>1
<1> QED
  BY <1>1, <1>2, <1>3 DEF q

LEMMA LocationPoints ==
  ASSUME NEW d \in AnyDiagnosis
  PROVE  /\ d.locations = <<>> => VerifyCodeLocations(d) = NotApplicable
         /\ d.locations # <<>> => VerifyCodeLocations(d) \in 0 .. 20
<1>1. PICK n \in Nat : d.locations \in [1 .. n -> Findings]
  BY Shape
<1> DEFINE verified == {i \in DOMAIN d.locations : d.locations[i] = "lines"}
<1>2. CASE d.locations # <<>>
  <2>1. n # 0
    BY <1>1, <1>2
  <2>2. Len(d.locations) = n /\ DOMAIN d.locations = 1 .. n
    BY <1>1
  <2>3. IsFiniteSet(1 .. n) /\ Cardinality(1 .. n) = n
    BY FS_Interval
  <2>4. verified \subseteq 1 .. n
    BY <2>2
  <2>5. Cardinality(verified) \in 0 .. n
    BY <2>3, <2>4, FS_Subset, FS_CardinalityType
  <2>6. (20 * Cardinality(verified)) \div n \in 0 .. 20
    BY <2>1, <2>5, Share
  <2> QED
    BY <1>2, <2>2, <2>6 DEF VerifyCodeLocations
<1> QED
  BY <1>2 DEF VerifyCodeLocations

\* What each dimension can be, and which ones count.
LEMMA Dimensions ==
  ASSUME NEW d \in AnyDiagnosis
  PROVE  /\ ScoreSchema(d) \in {18, 20} /\ ScoreEvidence(d) \in {0, 10, 20}
         /\ ScoreCoherence(d) \in {8, 15} /\ ScoreActionable(d) \in {0, 8, 15}
         /\ IF d.locations = <<>>
            THEN /\ ScoreNonCodePath(d) \in {0, 5, 10}
                 /\ CodeVerify(d) = IF d.code THEN 0 ELSE NotApplicable
            ELSE /\ ScoreNonCodePath(d) = NotApplicable
                 /\ CodeVerify(d) = VerifyCodeLocations(d) /\ CodeVerify(d) \in 0 .. 20
<1> USE Shape DEF If
<1>1. ScoreSchema(d) \in {18, 20}
  BY DEF ScoreSchema
<1>2. ScoreEvidence(d) \in {0, 10, 20}
  BY DEF ScoreEvidence, ForTexts, Wordings
<1>3. ScoreCoherence(d) \in {8, 15}
  BY DEF ScoreCoherence
<1>4. ScoreActionable(d) \in {0, 8, 15}
  BY DEF ScoreActionable, ForTexts, Wordings
<1>5. CASE d.locations = <<>>
  BY <1>1, <1>2, <1>3, <1>4, <1>5, LocationPoints
     DEF ScoreNonCodePath, ForTexts, Wordings, CodeVerify
<1>6. CASE d.locations # <<>>
  <2>1. VerifyCodeLocations(d) \in 0 .. 20 /\ NotApplicable = -1
    BY <1>6, LocationPoints DEF NotApplicable
  <2>2. CodeVerify(d) = VerifyCodeLocations(d)
    BY <2>1 DEF CodeVerify
  <2> QED
    BY <1>1, <1>2, <1>3, <1>4, <1>6, <2>1, <2>2 DEF ScoreNonCodePath
<1> QED
  BY <1>5, <1>6

\* What counts for every diagnosis, and the total and its bound in the three cases there are.
Common(d) == ScoreSchema(d) + ScoreEvidence(d) + ScoreCoherence(d) + ScoreActionable(d)

LEMMA Sums ==
  ASSUME NEW d \in AnyDiagnosis
  PROVE  /\ Common(d) \in 0 .. 70
         /\ \/ /\ d.locations = <<>> /\ ~d.code /\ MaxPossible(d) = 80
               /\ Total(d) = Common(d) + ScoreNonCodePath(d)
            \/ /\ d.locations = <<>> /\ d.code /\ MaxPossible(d) = 100
               /\ Total(d) = Common(d) + ScoreNonCodePath(d)
            \/ /\ d.locations # <<>> /\ MaxPossible(d) = 90
               /\ Total(d) = Common(d) + CodeVerify(d)
<1>1. NotApplicable = -1 /\ d.code \in BOOLEAN
  BY Shape DEF NotApplicable
<1>2. /\ ScoreSchema(d) \in {18, 20} /\ ScoreEvidence(d) \in {0, 10, 20}
      /\ ScoreCoherence(d) \in {8, 15} /\ ScoreActionable(d) \in {0, 8, 15}
  BY Dimensions
<1>3. Common(d) \in 0 .. 70
  BY <1>2 DEF Common
<1>4. ASSUME NEW c \in Int, NEW n \in Int, CodeVerify(d) = c, ScoreNonCodePath(d) = n
      PROVE  /\ Total(d) = Common(d) + (IF c >= 0 THEN c ELSE 0) + (IF n >= 0 THEN n ELSE 0)
             /\ MaxPossible(d) = 70 + (IF c >= 0 THEN 20 ELSE 0) + (IF n >= 0 THEN 10 ELSE 0)
  <2>1. Points(c) = (IF c >= 0 THEN c ELSE 0) /\ Points(n) = (IF n >= 0 THEN n ELSE 0)
    BY DEF Points, If
  <2>2. Points(c) \in Int /\ Points(n) \in Int
    BY <2>1
  <2>3. Total(d) = ScoreSchema(d) + ScoreEvidence(d) + Points(c) + ScoreCoherence(d)
                 + ScoreActionable(d) + Points(n)
    BY <1>4 DEF Total
  <2>4. Total(d) = Common(d) + Points(c) + Points(n)
    BY <1>2, <2>2, <2>3 DEF Common
  <2>5. MaxPossible(d) = 20 + 20 + (IF c >= 0 THEN 20 ELSE 0) + 15 + 15
                       + (IF n >= 0 THEN 10 ELSE 0)
    BY <1>4 DEF MaxPossible, If
  <2> QED
    BY <2>1, <2>4, <2>5
<1>5. CASE d.locations = <<>> /\ ~d.code
  <2>1. ScoreNonCodePath(d) \in {0, 5, 10} /\ CodeVerify(d) = -1
    BY <1>1, <1>5, Dimensions
  <2>2. MaxPossible(d) = 80 /\ Total(d) = Common(d) + ScoreNonCodePath(d)
    BY <1>3, <1>4, <2>1
  <2> QED
    BY <1>3, <1>5, <2>2
<1>6. CASE d.locations = <<>> /\ d.code
  <2>1. ScoreNonCodePath(d) \in {0, 5, 10} /\ CodeVerify(d) = 0
    BY <1>1, <1>6, Dimensions
  <2>2. MaxPossible(d) = 100 /\ Total(d) = Common(d) + ScoreNonCodePath(d)
    BY <1>3, <1>4, <2>1
  <2> QED
    BY <1>3, <1>6, <2>2
<1>7. CASE d.locations # <<>>
  <2>1. ScoreNonCodePath(d) = -1 /\ CodeVerify(d) \in 0 .. 20
    BY <1>1, <1>7, Dimensions
  <2>2. MaxPossible(d) = 90 /\ Total(d) = Common(d) + CodeVerify(d)
    BY <1>3, <1>4, <2>1
  <2> QED
    BY <1>3, <1>7, <2>2
<1> QED
  BY <1>1, <1>5, <1>6, <1>7

\* What is lost without evidence.
LEMMA WithoutEvidence ==
  ASSUME NEW d \in AnyDiagnosis, ~d.insufficient, d.evidence = 0
  PROVE  Common(d) <= 50
<1>1. ScoreEvidence(d) = 0
  BY Shape DEF ScoreEvidence, If
<1>2. ScoreSchema(d) \in 18 .. 20 /\ ScoreCoherence(d) \in 8 .. 15 /\ ScoreActionable(d) \in 0 .. 15
  BY Dimensions
<1> QED
  BY <1>1, <1>2 DEF Common

\* NormalizeScore: whichever dimensions are left out, the score of a diagnosis is a percentage.
THEOREM ScoreIsPercentage == \A d \in AnyDiagnosis : Normalized(d) \in 0 .. 100
<1> SUFFICES ASSUME NEW d \in AnyDiagnosis PROVE Normalized(d) \in 0 .. 100
  OBVIOUS
<1>1. Common(d) \in 0 .. 70
  BY Sums
<1>2. CASE d.locations = <<>>
  <2>1. ScoreNonCodePath(d) \in 0 .. 10
    BY <1>2, Dimensions
  <2>2. Total(d) = Common(d) + ScoreNonCodePath(d)
    BY <1>2, Sums
  <2>3. Total(d) \in 0 .. 80
    BY <1>1, <2>1, <2>2
  <2>4. MaxPossible(d) = 80 \/ MaxPossible(d) = 100
    BY <1>2, Sums
  <2> QED
    BY <2>3, <2>4 DEF Normalized
<1>3. CASE d.locations # <<>>
  <2>1. CodeVerify(d) \in 0 .. 20
    BY <1>3, Dimensions
  <2>2. Total(d) = Common(d) + CodeVerify(d) /\ MaxPossible(d) = 90
    BY <1>3, Sums
  <2>3. Total(d) \in 0 .. 90
    BY <1>1, <2>1, <2>2
  <2> QED
    BY <2>2, <2>3 DEF Normalized
<1> QED
  BY <1>2, <1>3

\* canReuse, with the default limit or a higher one: a report that is reused has evidence, and
\* if that is code of which nothing was confirmed, it is without a flaw in everything else
\* and names no location: one that names some, however many, needs a confirmed one.
THEOREM ReuseNeedsSupport ==
  \A d \in AnyDiagnosis, minScore \in Nat :
    minScore >= DefaultMinScore /\ WorthReuse(d, minScore) =>
      /\ d.evidence > 0
      /\ d.code /\ VerifyCodeLocations(d) <= 0 => d.locations = <<>> /\ Common(d) = 70
<1> SUFFICES ASSUME NEW d \in AnyDiagnosis, NEW minScore \in Nat,
                    minScore >= DefaultMinScore, WorthReuse(d, minScore)
             PROVE  /\ d.evidence > 0
                    /\ d.code /\ VerifyCodeLocations(d) <= 0 => d.locations = <<>> /\ Common(d) = 70
  OBVIOUS
<1>1. Normalized(d) >= 80 /\ ~d.insufficient
  <2>1. Normalized(d) \in 0 .. 100
    BY ScoreIsPercentage
  <2>2. Normalized(d) >= minScore /\ ~d.insufficient
    BY DEF WorthReuse
  <2> QED
    BY <2>1, <2>2 DEF DefaultMinScore
<1>2. Common(d) \in 0 .. 70 /\ d.evidence \in Nat /\ d.code \in BOOLEAN
  BY Sums, Shape
<1>3. CASE d.locations = <<>>
  <2>1. ScoreNonCodePath(d) \in 0 .. 10
    BY <1>3, Dimensions
  <2>2. Total(d) = Common(d) + ScoreNonCodePath(d)
    BY <1>3, Sums
  <2>3. Total(d) \in Int /\ Total(d) <= Common(d) + 10
    BY <1>2, <2>1, <2>2
  <2>4. CASE d.code
    <3>1. MaxPossible(d) = 100
      BY <1>3, <2>4, Sums
    <3>2. Total(d) >= 80
      BY <1>1, <2>3, <3>1 DEF Normalized
    <3>3. Common(d) = 70
      BY <1>2, <2>3, <3>2
    <3>4. d.evidence # 0
      BY <2>4, Shape
    <3> QED
      BY <1>2, <1>3, <3>3, <3>4
  <2>5. CASE ~d.code
    <3>1. MaxPossible(d) = 80
      BY <1>3, <2>5, Sums
    <3>2. Total(d) >= 64
      BY <1>1, <2>3, <3>1 DEF Normalized
    <3>3. Common(d) > 50
      BY <1>2, <2>3, <3>2
    <3>4. d.evidence # 0
      BY <1>1, <1>2, <3>3, WithoutEvidence
    <3> QED
      BY <1>2, <2>5, <3>4
  <2> QED
    BY <1>2, <2>4, <2>5
<1>4. CASE d.locations # <<>>
  <2>1. CodeVerify(d) \in 0 .. 20 /\ CodeVerify(d) = VerifyCodeLocations(d)
    BY <1>4, Dimensions
  <2>2. Total(d) = Common(d) + CodeVerify(d) /\ MaxPossible(d) = 90
    BY <1>4, Sums
  <2>3. Total(d) \in Int /\ Total(d) >= 72
    <3>1. Total(d) \in Int
      BY <1>2, <2>1, <2>2
    <3> QED
      BY <1>1, <2>2, <3>1 DEF Normalized
  <2>4. CodeVerify(d) >= 2 /\ Common(d) > 50
    BY <1>2, <2>1, <2>2, <2>3
  <2>5. d.evidence # 0
    BY <1>1, <1>2, <2>4, WithoutEvidence
  <2> QED
    BY <1>2, <2>1, <2>4, <2>5
<1> QED
  BY <1>3, <1>4

-----------------------------------------------------------------------------
(* Fingerprints *)

\* Picked keeps what is wanted and nothing else.
LEMMA PickedElements ==
  ASSUME NEW A, NEW s \in Seq(A), NEW wanted
  PROVE  /\ Picked(s, wanted) \in Seq(A)
         /\ ToSet(Picked(s, wanted)) = {x \in ToSet(s) : x \in wanted}
<1> DEFINE N == Len(s)
           Body(f) == [i \in 0 .. N |->
                         IF i = 0 THEN <<>>
                         ELSE IF s[i] \in wanted THEN Append(f[i - 1], s[i]) ELSE f[i - 1]]
           picked == CHOOSE f : f = Body(f)
           F == [i \in 1 .. N |-> [q \in Seq(A) |-> IF s[i] \in wanted THEN Append(q, s[i]) ELSE q]]
<1>1. N \in Nat /\ \A i \in 1 .. N : s[i] \in A
  OBVIOUS
<1>2. Picked(s, wanted) = picked[N]
  BY DEF Picked
<1>3. F \in [1 .. N -> [Seq(A) -> Seq(A)]]
  <2>1. ASSUME NEW i \in 1 .. N, NEW q \in Seq(A)
        PROVE  (IF s[i] \in wanted THEN Append(q, s[i]) ELSE q) \in Seq(A)
    BY <1>1
  <2> QED
    BY <2>1
<1>4. <<>> \in Seq(A)
  OBVIOUS
<1>5. PICK f \in [0 .. N -> Seq(A)] : f[0] = <<>> /\ \A i \in 1 .. N : f[i] = F[i][f[i - 1]]
  <2> DEFINE S == Seq(A)
             base == <<>>
  <2>1. N \in Nat /\ F \in [1 .. N -> [S -> S]] /\ base \in S
    BY <1>1, <1>3, <1>4
  <2> HIDE DEF F, N, S, base
  <2>2. \E f \in [0 .. N -> S] : f[0] = base /\ \A i \in 1 .. N : f[i] = F[i][f[i - 1]]
    BY <2>1, Recursion
  <2> QED
    BY <2>2 DEF S, base
<1>6. \A i \in 1 .. N : f[i] = IF s[i] \in wanted THEN Append(f[i - 1], s[i]) ELSE f[i - 1]
  <2>1. \A i \in 1 .. N : f[i - 1] \in Seq(A)
    BY <1>1, <1>5
  <2> QED
    BY <1>5, <2>1
<1>7. f = Body(f)
  <2> HIDE DEF F, N
  <2>1. \A i \in 0 .. N : i # 0 => i \in 1 .. N
    BY <1>1
  <2>2. \A i \in 0 .. N : f[i] = Body(f)[i]
    BY <1>5, <1>6, <2>1
  <2>3. f = [i \in 0 .. N |-> f[i]]
    BY <1>5
  <2> QED
    BY <2>2, <2>3
<1>8. picked = Body(picked)
  <2> HIDE DEF Body
  <2> QED
    BY <1>7
<1>9. /\ picked[0] = <<>>
      /\ \A i \in 1 .. N : picked[i] = IF s[i] \in wanted THEN Append(picked[i - 1], s[i])
                                       ELSE picked[i - 1]
  <2> HIDE DEF picked, N
  <2>1. \A i \in 0 .. N : picked[i] = Body(picked)[i]
    BY <1>8
  <2> QED
    BY <1>1, <2>1
<1> DEFINE Good(n) == /\ picked[n] \in Seq(A)
                      /\ ToSet(picked[n]) = {s[i] : i \in {j \in 1 .. n : s[j] \in wanted}}
           T == {n \in Nat : n <= N => Good(n)}
<1> HIDE DEF picked
<1>10. 0 \in T
  <2>1. ToSet(<<>>) = {}
    BY DEF ToSet
  <2>2. {s[i] : i \in {j \in 1 .. 0 : s[j] \in wanted}} = {}
    OBVIOUS
  <2>3. Good(0)
    BY <1>4, <1>9, <2>1, <2>2
  <2> QED
    BY <2>3
<1>11. ASSUME NEW n \in Nat, n \in T PROVE n + 1 \in T
  <2> SUFFICES ASSUME n + 1 <= N PROVE Good(n + 1)
    OBVIOUS
  <2>1. Good(n) /\ n + 1 \in 1 .. N /\ s[n + 1] \in A /\ n + 1 - 1 = n
    BY <1>1, <1>11
  <2>6. picked[n + 1] = IF s[n + 1] \in wanted THEN Append(picked[n], s[n + 1]) ELSE picked[n]
    <3> HIDE DEF N
    <3> QED
      BY <1>9, <2>1
  <2>2. \A j \in 1 .. n + 1 : j \in 1 .. n \/ j = n + 1
    BY <2>1
  <2>3. 1 .. n \subseteq 1 .. n + 1 /\ n + 1 \in 1 .. n + 1
    OBVIOUS
  <2>4. CASE s[n + 1] \in wanted
    <3>1. picked[n + 1] = Append(picked[n], s[n + 1])
      BY <2>4, <2>6
    <3>2. picked[n + 1] \in Seq(A)
      BY <2>1, <3>1
    <3>3. ToSet(picked[n + 1]) = ToSet(picked[n]) \cup {s[n + 1]}
      <4> DEFINE q == picked[n]
                 e == s[n + 1]
      <4>1. q \in Seq(A) /\ e \in A
        BY <2>1
      <4> HIDE DEF q, e
      <4>2. ToSet(Append(q, e)) = ToSet(q) \cup {e}
        <5>1. /\ DOMAIN q = 1 .. Len(q) /\ DOMAIN Append(q, e) = 1 .. Len(q) + 1 /\ Len(q) \in Nat
              /\ Append(q, e)[Len(q) + 1] = e /\ \A i \in 1 .. Len(q) : Append(q, e)[i] = q[i]
          BY <4>1
        <5>2. 1 .. Len(q) + 1 = (1 .. Len(q)) \cup {Len(q) + 1}
          BY <5>1
        <5> QED
          BY <5>1, <5>2 DEF ToSet
      <4> QED
        BY <3>1, <4>2 DEF q, e
    <3>4. {s[i] : i \in {j \in 1 .. n + 1 : s[j] \in wanted}}
            = {s[i] : i \in {j \in 1 .. n : s[j] \in wanted}} \cup {s[n + 1]}
      BY <2>2, <2>3, <2>4
    <3> QED
      BY <2>1, <3>2, <3>3, <3>4
  <2>5. CASE s[n + 1] \notin wanted
    <3>1. picked[n + 1] = picked[n]
      BY <2>5, <2>6
    <3>2. {j \in 1 .. n + 1 : s[j] \in wanted} = {j \in 1 .. n : s[j] \in wanted}
      BY <2>2, <2>3, <2>5
    <3> QED
      BY <2>1, <3>1, <3>2
  <2> QED
    BY <2>4, <2>5
<1>12. Good(N)
  <2> HIDE DEF T, Good, N
  <2>1. N \in T
    BY <1>1, <1>10, <1>11, Induction
  <2> QED
    BY <1>1, <2>1 DEF T
<1> QED
  <2>1. DOMAIN s = 1 .. N
    OBVIOUS
  <2>2. {s[i] : i \in {j \in 1 .. N : s[j] \in wanted}} = {x \in ToSet(s) : x \in wanted}
    BY <2>1 DEF ToSet
  <2> QED
    BY <1>2, <1>12, <2>2

\* No two fields have one name.
Distinct(payload) ==
  \A i, j \in DOMAIN payload : payload[i].name = payload[j].name => i = j

LEMMA ValueAt ==
  ASSUME NEW A, NEW payload \in Seq(A), Distinct(payload), NEW i \in DOMAIN payload
  PROVE  ValueOf(payload, payload[i].name) = payload[i].value
<1> DEFINE name == payload[i].name
           I == {k \in 1 .. Len(payload) : payload[k].name = name}
<1>1. DOMAIN payload = 1 .. Len(payload) /\ Len(payload) \in Nat
  OBVIOUS
<1>2. I = {i}
  BY <1>1 DEF Distinct
<1>3. Min(I) = i /\ i # 0
  BY <1>1, <1>2 DEF Min
<1>4. SelectInSeq(payload, LAMBDA f : f.name = name) = i
  <2> HIDE DEF name
  <2> QED
    BY <1>2, <1>3 DEF SelectInSeq
<1> QED
  BY <1>3, <1>4 DEF ValueOf

LEMMA NoValue ==
  ASSUME NEW A, NEW payload \in Seq(A), NEW name, name \notin Names(payload)
  PROVE  ValueOf(payload, name) = Null
<1>1. DOMAIN payload = 1 .. Len(payload)
  OBVIOUS
<1>2. {k \in 1 .. Len(payload) : payload[k].name = name} = {}
  BY <1>1 DEF Names
<1>3. SelectInSeq(payload, LAMBDA f : f.name = name) = 0
  BY <1>2 DEF SelectInSeq
<1> QED
  BY <1>3 DEF ValueOf

\* Two payloads with the same fields in any order have the same values.
LEMMA SameValues ==
  ASSUME NEW A, NEW p \in Seq(A), NEW q \in Seq(A), Distinct(p), Distinct(q), Names(p) = Names(q),
         NEW name,
         \A i \in DOMAIN p, j \in DOMAIN q :
           p[i].name = name /\ q[j].name = name => p[i].value = q[j].value
  PROVE  ValueOf(p, name) = ValueOf(q, name)
<1>1. CASE name \in Names(p)
  <2>1. PICK i \in DOMAIN p : p[i].name = name
    BY <1>1 DEF Names
  <2>2. PICK j \in DOMAIN q : q[j].name = name
    BY <1>1 DEF Names
  <2>3. ValueOf(p, name) = p[i].value /\ ValueOf(q, name) = q[j].value
    BY <2>1, <2>2, ValueAt
  <2> QED
    BY <2>1, <2>2, <2>3
<1>2. CASE name \notin Names(p)
  BY <1>2, NoValue
<1> QED
  BY <1>1, <1>2

\* The fields in order have the names that were picked.
LEMMA InOrderOf ==
  ASSUME NEW A, NEW order \in Seq(A), NEW p, NEW q, NEW wanted,
         \A name \in ToSet(order) : name \in wanted => ValueOf(p, name) = ValueOf(q, name)
  PROVE  InOrder(p, order, wanted) = InOrder(q, order, wanted)
<1> DEFINE names == Picked(order, wanted)
<1>1. ToSet(names) = {x \in ToSet(order) : x \in wanted}
  BY PickedElements
<1> HIDE DEF names
<1>2. \A i \in DOMAIN names : names[i] \in ToSet(order) /\ names[i] \in wanted
  BY <1>1 DEF ToSet
<1>3. \A i \in DOMAIN names : ValueOf(p, names[i]) = ValueOf(q, names[i])
  BY <1>2
<1>4. [i \in DOMAIN names |-> Field(names[i], ValueOf(p, names[i]))]
        = [i \in DOMAIN names |-> Field(names[i], ValueOf(q, names[i]))]
  BY <1>3
<1> QED
  BY <1>4 DEF InOrder, names

-----------------------------------------------------------------------------
(* The inductive invariant: what an input can look like *)

Kinds == {"string", "number", "long", "nested", "null"}
ScalarKinds == {"string", "number", "long"}
Texts == {"some", "other", "object", ""}
Pieces == [name : ToSet(FieldOrder), text : Texts, dynamic : {0, 1}]
PayloadValues == [kind : Kinds, text : Texts, dynamic : {0, 1}, tail : Seq(Pieces)]
PayloadFields == {Field(name, value) : name \in ToSet(FieldOrder), value \in PayloadValues}

\* payload has the fields of origin, and the same error has their values, but for dynamic parts.
Resembles(payload, origin, other) ==
  /\ payload \in Seq(PayloadFields) /\ Distinct(payload)
  /\ origin \in Seq(PayloadFields) /\ Distinct(origin)
  /\ Names(payload) = Names(origin)
  /\ ~other =>
       \A i \in DOMAIN payload, j \in DOMAIN origin :
         payload[i].name = origin[j].name =>
           LET value == payload[i].value
               was == origin[j].value
           IN  /\ value.kind = was.kind /\ value.text = was.text /\ value.tail = was.tail
               /\ \/ was.kind \notin ScalarKinds
                  \/ origin[j].name \in ToSet(EnvironmentFields)
                  => value = was

\* Only the last post can have been accepted, and then Notify has returned.
Posted(exchanges, at) ==
  /\ exchanges \in Seq(Exchanges)
  /\ at.posts \in 0 .. Len(exchanges)
  /\ at.result = "posting" => at.posts = Len(exchanges)
  /\ \A i \in 1 .. at.posts :
       Accepted(exchanges[i].answer) => i = at.posts /\ at.result = "sent"

\* What the group of actions on answers makes of an object: a text that is the object, loosened
\* or not, or a beginning of it, with what was wrapped around it.  (Of a text that was loosened
\* and cut off nothing more is known.)
Sent(s, whole, loose, cut) ==
  /\ s \in Seq(Characters)
  /\ ~cut => Intact(s, whole)
  /\ ~cut /\ ~loose => s = whole
  /\ cut /\ ~loose => /\ s \in Seq(Tokens) /\ Begins(s, whole)
                     /\ Len(s) >= 1 /\ Len(s) < Len(whole)

AnswerShape ==
  \E whole \in Objects : \E s, loose, before, after, cut :
    /\ subject = [kind |-> "answer", whole |-> whole, raw |-> before \o s \o after,
                  loose |-> loose, before |-> before, after |-> after, cut |-> cut]
    /\ loose \in BOOLEAN /\ cut \in BOOLEAN
    /\ Envelope(before, after)
    /\ cut => after = <<>>
    /\ Sent(s, whole, loose, cut)
DiagnosisShape ==
  \E d \in Diagnoses(MaxEvidence, MaxLocations) : subject = [kind |-> "diagnosis", diagnosis |-> d]
EventShape ==
  \E origin, payload, later, other :
    /\ subject = [kind |-> "event", origin |-> origin, payload |-> payload,
                  later |-> later, other |-> other]
    /\ later \in BOOLEAN /\ other \in BOOLEAN
    /\ Resembles(payload, origin, other)
CardShape ==
  \E exchanges, posts, result :
    /\ subject = [kind |-> "card", exchanges |-> exchanges,
                  at |-> [posts |-> posts, result |-> result]]
    /\ Posted(exchanges, [posts |-> posts, result |-> result])

IInv == AnswerShape \/ DiagnosisShape \/ EventShape \/ CardShape

\* What is in a payload, and what it can be changed into.
LEMMA FieldsOf ==
  ASSUME NEW payload \in Seq(PayloadFields), NEW i \in DOMAIN payload
  PROVE  /\ payload[i] = [name |-> payload[i].name, value |-> payload[i].value]
         /\ payload[i].name \in ToSet(FieldOrder)
         /\ payload[i].value \in PayloadValues
<1>1. payload[i] \in PayloadFields
  OBVIOUS
<1> QED
  BY <1>1 DEF PayloadFields, Field

LEMMA ValuesAreValues ==
  /\ Values \subseteq PayloadValues
  /\ StringValue("other") \in PayloadValues
  /\ Null.kind = "null"
  /\ \A tail \in Seq(Pieces) : Barred("some", tail) \in PayloadValues
<1> DEFINE T == Seq(Pieces)
<1>1. <<>> \in T
  OBVIOUS
<1> HIDE DEF T
<1>2. \A kind \in Kinds, text \in Texts : FieldValue(kind, text, 0) \in
         [kind : Kinds, text : Texts, dynamic : {0, 1}, tail : T]
  BY <1>1 DEF FieldValue
<1>3. \A kind \in Kinds, text \in Texts : FieldValue(kind, text, 0) \in PayloadValues
  BY <1>2 DEF PayloadValues, T
<1>4. /\ StringValue("some") \in PayloadValues /\ StringValue("other") \in PayloadValues
      /\ NumberValue("some") \in PayloadValues /\ LongValue("some") \in PayloadValues
      /\ Nested \in PayloadValues /\ Null \in PayloadValues
  BY <1>3 DEF StringValue, NumberValue, LongValue, Nested, Null, Kinds, Texts
<1>5. Null.kind = "null"
  BY DEF Null, FieldValue
<1>6. ASSUME NEW tail \in Seq(Pieces) PROVE Barred("some", tail) \in PayloadValues
  <2>2. tail \in T
    BY <1>6 DEF T
  <2> DEFINE R == [kind : Kinds, text : Texts, dynamic : {0, 1}, tail : T]
  <2>3. \A v \in R : [v EXCEPT !.tail = tail] \in R
    BY <2>2
  <2>4. StringValue("some") \in R
    BY <1>4 DEF PayloadValues, T
  <2>5. Barred("some", tail) \in R
    BY <2>3, <2>4 DEF Barred
  <2> QED
    BY <2>5 DEF PayloadValues, T
<1> QED
  BY <1>4, <1>5, <1>6 DEF Values

LEMMA OrderedIsDistinct ==
  ASSUME NEW payload \in Payloads
  PROVE  payload \in Seq(PayloadFields) /\ Distinct(payload) /\ Resembles(payload, payload, FALSE)
<1> DEFINE Fields == {Field(name, value) : name \in ToSet(FieldOrder), value \in Values}
<1>1. PICK n \in 0 .. Len(FieldOrder) : payload \in [1 .. n -> Fields]
  BY DEF Payloads
<1>2. FieldOrder \in Seq(ToSet(FieldOrder))
  BY FingerprintAssumption
<1>3. n \in Nat
  BY <1>2
<1>4. Fields \subseteq PayloadFields
  BY ValuesAreValues DEF PayloadFields
<1>5. payload \in Seq(PayloadFields)
  <2>1. payload \in [1 .. n -> PayloadFields]
    BY <1>1, <1>4
  <2> QED
    BY <1>3, <2>1
<1>6. \A name \in ToSet(FieldOrder) : Place(name) \in Int
  <2>1. DOMAIN FieldOrder \subseteq Int
    BY <1>2
  <2> QED
    BY <2>1 DEF Place, ToSet
<1>7. DOMAIN payload = 1 .. n
  BY <1>1
<1>8. \A i \in 1 .. n : payload[i].name \in ToSet(FieldOrder) /\ payload[i].value \in Values
  BY <1>1 DEF Field
<1>9. Distinct(payload)
  <2> SUFFICES ASSUME NEW i \in 1 .. n, NEW j \in 1 .. n, payload[i].name = payload[j].name
               PROVE  i = j
    BY <1>7 DEF Distinct
  <2>1. Place(payload[i].name) \in Int /\ Place(payload[j].name) = Place(payload[i].name)
    BY <1>6, <1>8
  <2>2. /\ i < j => Place(payload[i].name) < Place(payload[j].name)
        /\ j < i => Place(payload[j].name) < Place(payload[i].name)
    BY <1>7 DEF Payloads
  <2> QED
    BY <1>3, <2>1, <2>2
<1>10. \A i \in DOMAIN payload, j \in DOMAIN payload :
         payload[i].name = payload[j].name => payload[i].value = payload[j].value
  BY <1>9 DEF Distinct
<1> QED
  BY <1>5, <1>9, <1>10 DEF Resembles

LEMMA LooseOrWhole ==
  ASSUME NEW whole \in Objects, NEW s, Intact(s, whole)
  PROVE  /\ s \in Seq(Characters)
         /\ s = whole => Sent(s, whole, FALSE, FALSE)
         /\ Sent(s, whole, TRUE, FALSE)
<1>1. whole \in Seq(Characters)
  <2>1. whole \in Seq(Tokens)
    BY ObjectsFollowed
  <2>2. whole \in Seq(Tokens \cup {"space"})
    BY <2>1
  <2> QED
    BY <2>2, InCharacters
<1>2. ASSUME NEW i \in Outside(whole, {"rbrace", "rbrack"}), s = LoosenedAt(whole, i)
      PROVE  s \in Seq(Characters)
  <2>1. whole \in Seq(Tokens)
    BY ObjectsFollowed
  <2>2. i \in 1 .. Len(whole)
    BY DEF Outside
  <2>3. s \in Seq(Tokens \cup {"space"})
    BY <1>2, <2>1, <2>2, LoosenedIs
  <2> QED
    BY <2>3, InCharacters
<1>3. s \in Seq(Characters)
  BY <1>1, <1>2 DEF Intact
<1> QED
  BY <1>3 DEF Sent

\* Nothing is around a text.
LEMMA Bare ==
  ASSUME NEW s \in Seq(Characters)
  PROVE  <<>> \o s \o <<>> = s
<1>1. <<>> \o s = s /\ s \o <<>> = s
  BY ConcatEmptySeq
<1> QED
  BY <1>1

LEMMA InitInvariant == Init => IInv
<1> SUFFICES ASSUME Init PROVE IInv
  OBVIOUS
<1>1. CASE \E whole \in Objects : subject = Answer(whole)
  <2>1. PICK whole \in Objects : subject = Answer(whole)
    BY <1>1
  <2>2. whole \in Seq(Characters) /\ Sent(whole, whole, FALSE, FALSE)
    BY LooseOrWhole DEF Intact
  <2>3. whole = <<>> \o whole \o <<>>
    BY <2>2, Bare
  <2>4. Envelope(<<>>, <<>>)
    BY DEF Envelope
  <2>5. AnswerShape
    BY <2>1, <2>2, <2>3, <2>4 DEF Answer, AnswerShape
  <2> QED
    BY <2>5 DEF IInv
<1>2. CASE \E d \in Diagnoses(MaxEvidence, MaxLocations) :
             subject = [kind |-> "diagnosis", diagnosis |-> d]
  BY <1>2 DEF IInv, DiagnosisShape
<1>3. CASE \E payload \in Payloads : subject = Event(payload)
  BY <1>3, OrderedIsDistinct DEF Event, IInv, EventShape
<1>4. CASE subject = Card
  <2>1. Posted(<<>>, [posts |-> 0, result |-> "posting"])
    BY DEF Posted
  <2> QED
    BY <1>4, <2>1 DEF Card, Begun, IInv, CardShape
<1> QED
  BY <1>1, <1>2, <1>3, <1>4 DEF Init

\* A payload whose fields come from another one, each from one of its own, has its names.
LEMMA SameFields ==
  ASSUME NEW p, NEW q, Distinct(p), DOMAIN q = DOMAIN p,
         NEW from \in [DOMAIN p -> DOMAIN p], \A k \in DOMAIN p : from[from[k]] = k,
         \A k \in DOMAIN p : q[k].name = p[from[k]].name
  PROVE  Distinct(q) /\ Names(q) = Names(p)
<1>1. Distinct(q)
  <2> SUFFICES ASSUME NEW i \in DOMAIN p, NEW j \in DOMAIN p, q[i].name = q[j].name
               PROVE  i = j
    BY DEF Distinct
  <2>1. from[i] = from[j]
    BY DEF Distinct
  <2> QED
    BY <2>1
<1>2. Names(q) \subseteq Names(p)
  BY DEF Names
<1>3. ASSUME NEW k \in DOMAIN p PROVE p[k].name \in Names(q)
  <2>1. from[k] \in DOMAIN q /\ q[from[k]].name = p[k].name
    OBVIOUS
  <2> QED
    BY <2>1 DEF Names
<1> QED
  BY <1>1, <1>2, <1>3 DEF Names

LEMMA ReorderKeeps ==
  ASSUME EventShape, Reorder PROVE EventShape'
<1>1. PICK origin, payload, later, other :
        /\ subject = [kind |-> "event", origin |-> origin, payload |-> payload,
                      later |-> later, other |-> other]
        /\ later \in BOOLEAN /\ other \in BOOLEAN
        /\ Resembles(payload, origin, other)
  BY DEF EventShape
<1>2. PICK i \in 1 .. (Len(payload) - 1) :
        subject' = [subject EXCEPT !.payload[i] = payload[i + 1], !.payload[i + 1] = payload[i]]
  BY <1>1 DEF Reorder
<1> DEFINE q == [[payload EXCEPT ![i] = payload[i + 1]] EXCEPT ![i + 1] = payload[i]]
           from == [k \in DOMAIN payload |-> IF k = i THEN i + 1 ELSE IF k = i + 1 THEN i ELSE k]
<1>3. subject' = [kind |-> "event", origin |-> origin, payload |-> q,
                  later |-> later, other |-> other]
  BY <1>1, <1>2
<1>4. payload \in Seq(PayloadFields) /\ DOMAIN payload = 1 .. Len(payload) /\ Len(payload) \in Nat
  BY <1>1 DEF Resembles
<1>5. i \in DOMAIN payload /\ i + 1 \in DOMAIN payload
  BY <1>4
<1>6. /\ from \in [DOMAIN payload -> DOMAIN payload]
      /\ \A k \in DOMAIN payload : from[from[k]] = k /\ q[k] = payload[from[k]]
  BY <1>4, <1>5
<1>7. q \in Seq(PayloadFields) /\ DOMAIN q = DOMAIN payload
  BY <1>4, <1>5
<1> HIDE DEF q, from
<1>8. Distinct(q) /\ Names(q) = Names(payload)
  <2>1. Distinct(payload)
    BY <1>1 DEF Resembles
  <2>2. \A k \in DOMAIN payload : from[from[k]] = k
    BY <1>6
  <2>3. \A k \in DOMAIN payload : q[k].name = payload[from[k]].name
    BY <1>6
  <2> QED
    BY <1>6, <1>7, <2>1, <2>2, <2>3, SameFields
<1>9. Resembles(q, origin, other)
  BY <1>1, <1>6, <1>7, <1>8 DEF Resembles
<1> QED
  BY <1>1, <1>3, <1>9 DEF EventShape

\* A payload in which the value of one field is changed.
LEMMA OneValue ==
  ASSUME NEW payload \in Seq(PayloadFields), Distinct(payload),
         NEW i \in DOMAIN payload, NEW value \in PayloadValues, NEW q,
         q = [payload EXCEPT ![i] = [name |-> payload[i].name, value |-> value]]
  PROVE  /\ q \in Seq(PayloadFields) /\ Distinct(q) /\ Names(q) = Names(payload)
         /\ DOMAIN q = DOMAIN payload
         /\ q[i].name = payload[i].name /\ q[i].value = value
         /\ \A k \in DOMAIN payload : k # i => q[k] = payload[k]
<1>1. payload \in Seq(PayloadFields) /\ DOMAIN payload = 1 .. Len(payload) /\ Distinct(payload)
  OBVIOUS
<1>2. payload[i].name \in ToSet(FieldOrder)
  BY FieldsOf
<1>3. [name |-> payload[i].name, value |-> value] \in PayloadFields
  BY <1>2 DEF PayloadFields, Field
<1>4. /\ q \in Seq(PayloadFields) /\ DOMAIN q = DOMAIN payload
      /\ q[i] = [name |-> payload[i].name, value |-> value]
      /\ \A k \in DOMAIN payload : k # i => q[k] = payload[k]
  BY <1>1, <1>3
<1> DEFINE from == [k \in DOMAIN payload |-> k]
<1>5. /\ from \in [DOMAIN payload -> DOMAIN payload]
      /\ \A k \in DOMAIN payload : from[from[k]] = k
      /\ \A k \in DOMAIN payload : q[k].name = payload[from[k]].name
  BY <1>4
<1> HIDE DEF from
<1>6. Distinct(q) /\ Names(q) = Names(payload)
  <2>1. Distinct(payload) /\ DOMAIN q = DOMAIN payload
    BY <1>1, <1>4
  <2>2. \A k \in DOMAIN payload : from[from[k]] = k
    BY <1>5
  <2>3. \A k \in DOMAIN payload : q[k].name = payload[from[k]].name
    BY <1>5
  <2> QED
    BY <1>5, <2>1, <2>2, <2>3, SameFields
<1> QED
  BY <1>4, <1>6

LEMMA RepeatKeeps ==
  ASSUME EventShape, Repeat PROVE EventShape'
<1>1. PICK origin, payload, later, other :
        /\ subject = [kind |-> "event", origin |-> origin, payload |-> payload,
                      later |-> later, other |-> other]
        /\ later \in BOOLEAN /\ other \in BOOLEAN
        /\ Resembles(payload, origin, other)
  BY DEF EventShape
<1>2. PICK i \in DOMAIN payload :
        /\ payload[i].name \notin ToSet(EnvironmentFields)
        /\ payload[i].value.kind \in ScalarKinds
        /\ subject' = [subject EXCEPT !.payload[i].value.dynamic = 1, !.later = TRUE]
  BY <1>1 DEF Repeat, ScalarKinds
<1> DEFINE value == [payload[i].value EXCEPT !.dynamic = 1]
           field == [name |-> payload[i].name, value |-> value]
           q == [payload EXCEPT ![i] = field]
<1>3. payload \in Seq(PayloadFields) /\ Distinct(payload)
  BY <1>1 DEF Resembles
<1>4. /\ payload[i] = [name |-> payload[i].name, value |-> payload[i].value]
      /\ payload[i].value \in PayloadValues
  BY <1>3, FieldsOf
<1>5. [payload[i] EXCEPT !.value.dynamic = 1] = field
  BY <1>4
<1>6. subject' = [kind |-> "event", origin |-> origin, payload |-> q,
                  later |-> TRUE, other |-> other]
  BY <1>1, <1>2, <1>5
<1>7. /\ value \in PayloadValues /\ value.kind = payload[i].value.kind
      /\ value.text = payload[i].value.text /\ value.tail = payload[i].value.tail
  BY <1>4 DEF PayloadValues
<1> HIDE DEF value
<1>8. /\ q \in Seq(PayloadFields) /\ Distinct(q) /\ Names(q) = Names(payload)
      /\ DOMAIN q = DOMAIN payload
      /\ q[i].name = payload[i].name /\ q[i].value = value
      /\ \A k \in DOMAIN payload : k # i => q[k] = payload[k]
  BY <1>3, <1>7, OneValue
<1> HIDE DEF q
<1>9. Resembles(q, origin, other)
  BY <1>1, <1>2, <1>7, <1>8 DEF Resembles
<1> QED
  BY <1>1, <1>6, <1>9 DEF EventShape

\* Another error has the names of the fields and any values.
LEMMA DifferKeeps ==
  ASSUME EventShape, Differ PROVE EventShape'
<1>1. PICK origin, payload, later, other :
        /\ subject = [kind |-> "event", origin |-> origin, payload |-> payload,
                      later |-> later, other |-> other]
        /\ later \in BOOLEAN /\ other \in BOOLEAN
        /\ Resembles(payload, origin, other)
  BY DEF EventShape
<1>2. PICK i \in DOMAIN payload, value \in Values \cup {StringValue("other")} :
        subject' = [subject EXCEPT !.payload[i].value = value, !.other = TRUE]
  BY <1>1 DEF Differ
<1> DEFINE field == [name |-> payload[i].name, value |-> value]
           q == [payload EXCEPT ![i] = field]
<1>3. payload \in Seq(PayloadFields) /\ Distinct(payload)
  BY <1>1 DEF Resembles
<1>4. payload[i] = [name |-> payload[i].name, value |-> payload[i].value]
  BY <1>3, FieldsOf
<1>5. [payload[i] EXCEPT !.value = value] = field
  BY <1>4
<1>6. subject' = [kind |-> "event", origin |-> origin, payload |-> q,
                  later |-> later, other |-> TRUE]
  BY <1>1, <1>2, <1>5
<1>7. value \in PayloadValues
  BY ValuesAreValues
<1>8. q \in Seq(PayloadFields) /\ Distinct(q) /\ Names(q) = Names(payload)
  BY <1>3, <1>7, OneValue
<1> HIDE DEF q
<1>9. Resembles(q, origin, TRUE)
  BY <1>1, <1>8 DEF Resembles
<1> QED
  BY <1>1, <1>6, <1>9 DEF EventShape

LEMMA WrittenPieces ==
  ASSUME NEW payload \in Seq(PayloadFields), NEW j \in DOMAIN payload
  PROVE  Written(payload[j]) \in Seq(Pieces)
<1> DEFINE value == payload[j].value
           dynamic == IF value.kind = "long" THEN 0 ELSE value.dynamic
<1>1. payload[j].name \in ToSet(FieldOrder) /\ value \in PayloadValues
  BY FieldsOf
<1>2. value.text \in Texts /\ value.dynamic \in {0, 1} /\ value.tail \in Seq(Pieces)
  BY <1>1 DEF PayloadValues
<1>3. Piece(payload[j].name, value.text, dynamic) \in Pieces
  BY <1>1, <1>2 DEF Piece, Pieces
<1> DEFINE piece == Piece(payload[j].name, value.text, dynamic)
           tail == value.tail
<1>4. Written(payload[j]) = <<piece>> \o tail
  BY DEF Written
<1> HIDE DEF piece, tail
<1>5. <<piece>> \o tail \in Seq(Pieces)
  BY <1>2, <1>3 DEF piece, tail
<1> QED
  BY <1>4, <1>5

LEMMA JoinKeeps ==
  ASSUME EventShape, Join PROVE EventShape'
<1>1. PICK origin, payload, later, other :
        /\ subject = [kind |-> "event", origin |-> origin, payload |-> payload,
                      later |-> later, other |-> other]
        /\ later \in BOOLEAN /\ other \in BOOLEAN
        /\ Resembles(payload, origin, other)
  BY DEF EventShape
<1>2. PICK i \in DOMAIN payload, j \in DOMAIN payload :
        /\ i # j
        /\ subject' = [subject EXCEPT !.payload[i].value = Barred("some", Written(payload[j])),
                                     !.payload[j].value = Null, !.other = TRUE]
  BY <1>1 DEF Join
<1> DEFINE value == Barred("some", Written(payload[j]))
           q == [payload EXCEPT ![i] = [name |-> payload[i].name, value |-> value]]
           r == [q EXCEPT ![j] = [name |-> q[j].name, value |-> Null]]
<1>3. payload \in Seq(PayloadFields) /\ Distinct(payload)
  BY <1>1 DEF Resembles
<1>4. /\ payload[i] = [name |-> payload[i].name, value |-> payload[i].value]
      /\ payload[j] = [name |-> payload[j].name, value |-> payload[j].value]
  BY <1>3, FieldsOf
<1>5. value \in PayloadValues /\ Null \in PayloadValues
  BY <1>3, WrittenPieces, ValuesAreValues DEF Values
<1> HIDE DEF value
<1>6. /\ q \in Seq(PayloadFields) /\ Distinct(q) /\ Names(q) = Names(payload)
      /\ DOMAIN q = DOMAIN payload /\ q[j] = payload[j]
  BY <1>2, <1>3, <1>5, OneValue
<1>7. r \in Seq(PayloadFields) /\ Distinct(r) /\ Names(r) = Names(payload)
  <2> DEFINE null == Null
  <2>1. q \in Seq(PayloadFields) /\ Distinct(q) /\ j \in DOMAIN q /\ null \in PayloadValues
    BY <1>5, <1>6
  <2> DEFINE t == [q EXCEPT ![j] = [name |-> q[j].name, value |-> null]]
  <2> HIDE DEF q, null
  <2>2. t \in Seq(PayloadFields) /\ Distinct(t) /\ Names(t) = Names(q)
    BY <2>1, OneValue
  <2> QED
    BY <1>6, <2>2 DEF null
<1>8. subject' = [kind |-> "event", origin |-> origin, payload |-> r,
                  later |-> later, other |-> TRUE]
  <2>1. [payload[i] EXCEPT !.value = value] = [name |-> payload[i].name, value |-> value]
    BY <1>4
  <2>2. [q[j] EXCEPT !.value = Null] = [name |-> q[j].name, value |-> Null]
    BY <1>4, <1>6
  <2>3. subject' = [kind |-> "event", origin |-> origin,
                    payload |-> [q EXCEPT ![j] = [q[j] EXCEPT !.value = Null]],
                    later |-> later, other |-> TRUE]
    BY <1>1, <1>2, <2>1 DEF value
  <2> QED
    BY <2>2, <2>3
<1> HIDE DEF r
<1>9. Resembles(r, origin, TRUE)
  BY <1>1, <1>7 DEF Resembles
<1> QED
  BY <1>1, <1>8, <1>9 DEF EventShape

LEMMA RespondKeeps ==
  ASSUME CardShape, Respond PROVE CardShape'
<1>1. PICK exchanges, posts, result :
        /\ subject = [kind |-> "card", exchanges |-> exchanges,
                      at |-> [posts |-> posts, result |-> result]]
        /\ Posted(exchanges, [posts |-> posts, result |-> result])
  BY DEF CardShape
<1> DEFINE at == [posts |-> posts, result |-> result]
<1>2. PICK exchange \in Exchanges :
        subject' = [subject EXCEPT !.exchanges = Append(exchanges, exchange),
                                   !.at = Posting(at, exchange)]
  BY <1>1 DEF Respond
<1>3. subject' = [kind |-> "card", exchanges |-> Append(exchanges, exchange),
                  at |-> Posting(at, exchange)]
  BY <1>1, <1>2
<1>4. /\ exchanges \in Seq(Exchanges) /\ result = "posting" /\ posts = Len(exchanges)
      /\ \A i \in 1 .. posts : ~Accepted(exchanges[i].answer)
  BY <1>1 DEF Respond, Posted
<1> DEFINE longer == Append(exchanges, exchange)
<1>5. /\ longer \in Seq(Exchanges) /\ Len(longer) = posts + 1 /\ posts \in Nat
      /\ longer[posts + 1] = exchange
      /\ \A i \in 1 .. posts : ~Accepted(longer[i].answer)
  BY <1>4
<1> HIDE DEF longer
<1>6. CASE exchange.answer = "cancelled" /\ posts > 0
  <2>1. Posting(at, exchange) = [posts |-> posts, result |-> "cancelled"]
    BY <1>6 DEF Posting
  <2>2. Posted(longer, [posts |-> posts, result |-> "cancelled"])
    BY <1>5 DEF Posted
  <2> QED
    BY <1>3, <2>1, <2>2 DEF CardShape, longer
<1>7. CASE ~(exchange.answer = "cancelled" /\ posts > 0)
  <2> DEFINE r == IF Accepted(exchange.answer) THEN "sent"
                  ELSE IF LastPost(posts + 1) THEN "failed" ELSE "posting"
  <2>1. Posting(at, exchange) = [posts |-> posts + 1, result |-> r]
    BY <1>7 DEF Posting
  <2>2. Accepted(exchange.answer) => r = "sent"
    OBVIOUS
  <2> HIDE DEF r
  <2>3. Posted(longer, [posts |-> posts + 1, result |-> r])
    BY <1>5, <2>2 DEF Posted
  <2> QED
    BY <1>3, <2>1, <2>3 DEF CardShape, longer
<1> QED
  BY <1>6, <1>7

LEMMA Unwrapped ==
  ASSUME NEW w \in Seq(Characters), NEW v \in Seq(Characters), w \o v = <<>>
  PROVE  w = <<>> /\ v = <<>>
BY ConcatEqualIffEmpty

\* The last token of an answer is the last of what is in it, if nothing is after that.
LEMMA FrontOf ==
  ASSUME NEW w \in Seq(Characters), NEW s \in Seq(Characters), Len(s) >= 1
  PROVE  /\ Front(s) \in Seq(Characters) /\ Len(Front(s)) = Len(s) - 1 /\ Begins(Front(s), s)
         /\ Front(w \o s \o <<>>) = w \o Front(s) \o <<>>
<1> DEFINE a == Len(w)
           n == Len(s)
           p == Front(s)
           v == <<>>
           raw == w \o s \o v
           c == Front(raw)
           d == w \o p \o v
<1>1. a \in Nat /\ n \in Nat /\ n >= 1 /\ v \in Seq(Characters) /\ Len(v) = 0
  BY NonEmpty
<1>2. n - 1 \in 0 .. n
  BY <1>1
<1>3. /\ p \in Seq(Characters) /\ Len(p) = n - 1 /\ Begins(p, s)
      /\ \A i \in 1 .. (n - 1) : p[i] = s[i]
  BY <1>2, Beginning DEF Front
<1> HIDE DEF v, p
<1>4. /\ raw \in Seq(Characters) /\ Len(raw) = a + n + 0
      /\ \A k \in 1 .. a : raw[k] = w[k]
      /\ \A k \in 1 .. n : raw[a + k] = s[k]
  <2>1. /\ raw \in Seq(Characters) /\ Len(raw) = Len(w) + Len(s) + Len(v)
        /\ \A k \in 1 .. Len(w) : raw[k] = w[k]
        /\ \A k \in 1 .. Len(s) : raw[Len(w) + k] = s[k]
    BY <1>1, AroundIs DEF Parts
  <2> QED
    BY <1>1, <2>1
<1>5. /\ d \in Seq(Characters) /\ Len(d) = a + (n - 1) + 0
      /\ \A k \in 1 .. a : d[k] = w[k]
      /\ \A k \in 1 .. (n - 1) : d[a + k] = p[k]
  <2>1. /\ d \in Seq(Characters) /\ Len(d) = Len(w) + Len(p) + Len(v)
        /\ \A k \in 1 .. Len(w) : d[k] = w[k]
        /\ \A k \in 1 .. Len(p) : d[Len(w) + k] = p[k]
    <3>1. p \in Seq(Characters) /\ v \in Seq(Characters) /\ d = w \o p \o v
      BY <1>1, <1>3
    <3> HIDE DEF d
    <3> QED
      BY <3>1, AroundIs DEF Parts
  <2> HIDE DEF d
  <2> QED
    BY <1>1, <1>3, <2>1
<1> HIDE DEF raw, d
<1>6. Len(raw) - 1 \in 0 .. Len(raw) /\ Len(raw) - 1 = a + n - 1 /\ Len(d) = a + n - 1
  <2> HIDE DEF a, n
  <2> QED
    BY <1>1, <1>4, <1>5
<1>7. /\ c \in Seq(Characters) /\ Len(c) = a + n - 1
      /\ \A i \in 1 .. a + n - 1 : c[i] = raw[i]
  <2>1. /\ SubSeq(raw, 1, Len(raw) - 1) \in Seq(Characters)
        /\ Len(SubSeq(raw, 1, Len(raw) - 1)) = Len(raw) - 1
        /\ \A i \in 1 .. Len(raw) - 1 : SubSeq(raw, 1, Len(raw) - 1)[i] = raw[i]
    BY <1>4, <1>6, Beginning
  <2> QED
    BY <1>6, <2>1 DEF Front
<1> HIDE DEF a, n, c
<1>8. ASSUME NEW k \in 1 .. a + n - 1 PROVE c[k] = d[k]
  <2>1. CASE k <= a
    <3>1. k \in 1 .. a
      BY <1>1, <2>1
    <3> QED
      BY <1>4, <1>5, <1>7, <3>1
  <2>2. CASE k > a
    <3> DEFINE j == k - a
    <3>1. j \in 1 .. (n - 1) /\ j \in 1 .. n /\ a + j = k
      BY <1>1, <2>2
    <3> HIDE DEF j
    <3>2. raw[a + j] = s[j] /\ d[a + j] = p[j] /\ p[j] = s[j]
      BY <1>3, <1>4, <1>5, <3>1
    <3> QED
      BY <1>7, <3>1, <3>2
  <2> QED
    BY <1>1, <2>1, <2>2
<1>9. c = d
  BY <1>5, <1>6, <1>7, <1>8, SeqEqual
<1> QED
  BY <1>3, <1>9 DEF c, d, raw, p, v, n

\* What comes after the text before.
LEMMA AfterIs ==
  ASSUME NEW w \in Seq(Characters), NEW s \in Seq(Characters)
  PROVE  SubSeq(w \o s \o <<>>, Len(w) + 1, Len(w \o s \o <<>>)) = s
<1> DEFINE a == Len(w)
           n == Len(s)
           v == <<>>
           raw == w \o s \o v
           c == SubSeq(raw, a + 1, Len(raw))
<1>1. a \in Nat /\ n \in Nat /\ v \in Seq(Characters) /\ Len(v) = 0
  BY NonEmpty
<1> HIDE DEF v
<1>2. /\ raw \in Seq(Characters) /\ Len(raw) = a + n + 0
      /\ \A k \in 1 .. n : raw[a + k] = s[k]
  <2>1. /\ raw \in Seq(Characters) /\ Len(raw) = Len(w) + Len(s) + Len(v)
        /\ \A k \in 1 .. Len(s) : raw[Len(w) + k] = s[k]
    BY <1>1, AroundIs DEF Parts
  <2> QED
    BY <1>1, <2>1
<1> HIDE DEF raw
<1>3. \A k \in (a + 1) .. Len(raw) : raw[k] \in Characters
  <2>1. \A k \in (a + 1) .. Len(raw) : k \in 1 .. Len(raw)
    BY <1>1, <1>2
  <2> QED
    BY <1>2, <2>1
<1> DEFINE b == a + 1
<1>4. b \in Int /\ Len(raw) \in Int /\ Len(raw) - b + 1 = n /\ (b <= Len(raw) \/ n = 0)
  BY <1>1, <1>2
<1>5. \A k \in 1 .. n : b + k - 1 = a + k
  BY <1>1
<1> HIDE DEF b
<1>6. /\ SubSeq(raw, b, Len(raw)) \in Seq(Characters) /\ Len(SubSeq(raw, b, Len(raw))) = n
      /\ \A k \in 1 .. n : SubSeq(raw, b, Len(raw))[k] = raw[b + k - 1]
  <2>1. /\ SubSeq(raw, b, Len(raw)) \in Seq(Characters)
        /\ Len(SubSeq(raw, b, Len(raw))) = IF b <= Len(raw) THEN Len(raw) - b + 1 ELSE 0
        /\ \A k \in 1 .. Len(raw) - b + 1 : SubSeq(raw, b, Len(raw))[k] = raw[b + k - 1]
    BY <1>3, <1>4, SubSeqProperties DEF b
  <2> QED
    BY <1>4, <2>1
<1>7. c \in Seq(Characters) /\ Len(c) = n /\ \A k \in 1 .. n : c[k] = s[k]
  BY <1>2, <1>5, <1>6 DEF b
<1> HIDE DEF c
<1>8. c = s
  BY <1>7, SeqEqual
<1> QED
  BY <1>8 DEF c, raw, v

LEMMA AnswerKeeps ==
  ASSUME AnswerShape, Loosen \/ Wrap \/ CutOff PROVE AnswerShape'
<1>0. PICK whole \in Objects : \E s, loose, before, after, cut :
        /\ subject = [kind |-> "answer", whole |-> whole, raw |-> before \o s \o after,
                      loose |-> loose, before |-> before, after |-> after, cut |-> cut]
        /\ loose \in BOOLEAN /\ cut \in BOOLEAN
        /\ Envelope(before, after)
        /\ cut => after = <<>>
        /\ Sent(s, whole, loose, cut)
  BY DEF AnswerShape
<1>1. PICK s, loose, before, after, cut :
        /\ subject = [kind |-> "answer", whole |-> whole, raw |-> before \o s \o after,
                      loose |-> loose, before |-> before, after |-> after, cut |-> cut]
        /\ loose \in BOOLEAN /\ cut \in BOOLEAN
        /\ Envelope(before, after)
        /\ cut => after = <<>>
        /\ Sent(s, whole, loose, cut)
  BY <1>0
<1>2. before \in Seq(Characters) /\ after \in Seq(Characters) /\ s \in Seq(Characters)
  BY <1>1, EnvelopeIs DEF Sent
<1>3. CASE Loosen
  <2>1. ~loose /\ ~cut /\ before \o after = <<>>
    BY <1>1, <1>3 DEF Loosen
  <2>2. before = <<>> /\ after = <<>> /\ s = whole
    BY <1>1, <1>2, <2>1, Unwrapped DEF Sent
  <2>3. subject.raw = whole
    BY <1>1, <1>2, <2>2, Bare
  <2>4. PICK i \in Outside(whole, {"rbrace", "rbrack"}) :
          subject' = [subject EXCEPT !.raw = LoosenedAt(whole, i), !.loose = TRUE]
    BY <1>3, <2>3 DEF Loosen, LoosenedAt
  <2> DEFINE l == LoosenedAt(whole, i)
  <2>5. subject' = [kind |-> "answer", whole |-> whole, raw |-> l,
                    loose |-> TRUE, before |-> before, after |-> after, cut |-> cut]
    BY <1>1, <2>4
  <2>6. Intact(l, whole)
    BY DEF Intact
  <2> HIDE DEF l
  <2>7. l \in Seq(Characters) /\ Sent(l, whole, TRUE, FALSE) /\ cut = FALSE
    BY <1>1, <2>1, <2>6, LooseOrWhole
  <2>8. l = before \o l \o after
    BY <2>2, <2>7, Bare
  <2> QED
    BY <1>1, <2>5, <2>7, <2>8 DEF AnswerShape
<1>4. CASE Wrap
  <2>1. ~cut /\ before \o after = <<>>
    BY <1>1, <1>4 DEF Wrap
  <2>2. subject.raw = s
    BY <1>1, <1>2, <2>1, Unwrapped, Bare
  <2>3. PICK w \in Wrappings :
          subject' = [subject EXCEPT !.raw = w[1] \o s \o w[2], !.before = w[1], !.after = w[2]]
    BY <1>4, <2>2 DEF Wrap
  <2>4. subject' = [kind |-> "answer", whole |-> whole, raw |-> w[1] \o s \o w[2],
                    loose |-> loose, before |-> w[1], after |-> w[2], cut |-> cut]
    BY <1>1, <2>3
  <2>5. Envelope(w[1], w[2])
    <3>1. w = <<w[1], w[2]>>
      BY AlgorithmsAssumption
    <3> QED
      BY <3>1 DEF Envelope
  <2> QED
    BY <1>1, <2>1, <2>4, <2>5 DEF AnswerShape
<1>5. CASE CutOff
  <2>1. after = <<>> /\ Len(subject.raw) > Len(before) + 1
    BY <1>1, <1>5 DEF CutOff
  <2>2. subject' = [kind |-> "answer", whole |-> whole, raw |-> Front(before \o s \o <<>>),
                    loose |-> loose, before |-> before, after |-> after, cut |-> TRUE]
    BY <1>1, <1>5, <2>1 DEF CutOff
  <2>3. Len(s) >= 2 /\ Len(s) >= 1 /\ Len(s) \in Nat
    <3>1. <<>> \in Seq(Characters) /\ Len(<<>>) = 0
      OBVIOUS
    <3>2. Len(subject.raw) = Len(before) + Len(s) + 0
      BY <1>1, <1>2, <2>1, <3>1, AroundIs DEF Parts
    <3>3. Len(before) \in Nat /\ Len(s) \in Nat
      BY <1>2, NonEmpty
    <3> QED
      BY <2>1, <3>2, <3>3
  <2> DEFINE p == Front(s)
  <2>4. /\ p \in Seq(Characters) /\ Len(p) = Len(s) - 1 /\ Begins(p, s)
        /\ Front(before \o s \o <<>>) = before \o p \o <<>>
    BY <1>2, <2>3, FrontOf
  <2> HIDE DEF p
  <2>5. ASSUME ~loose
        PROVE  p \in Seq(Tokens) /\ Begins(p, whole) /\ Len(p) >= 1 /\ Len(p) < Len(whole)
    <3>1. /\ s \in Seq(Tokens) /\ Begins(s, whole)
          /\ whole \in Seq(Tokens) /\ Len(whole) \in Nat
      BY <1>1, <2>5, ObjectsFollowed, NonEmpty, Itself DEF Sent
    <3>2. Len(p) \in Nat /\ Len(p) >= 1 /\ Len(p) < Len(s) /\ 1 .. Len(p) \subseteq 1 .. Len(s)
      BY <2>3, <2>4
    <3>3. \A i \in 1 .. Len(p) : p[i] = s[i] /\ s[i] \in Tokens /\ s[i] = whole[i]
      BY <2>4, <3>1, <3>2 DEF Begins
    <3>4. p \in Seq(Tokens)
      <4>1. \A i \in 1 .. Len(p) : p[i] \in Tokens
        BY <3>3
      <4>2. p \in [1 .. Len(p) -> Tokens]
        BY <2>4, <4>1
      <4> QED
        BY <3>2, <4>2
    <3>5. Len(p) < Len(whole) /\ Len(p) <= Len(whole)
      BY <2>3, <3>1, <3>2 DEF Begins
    <3> QED
      BY <3>2, <3>3, <3>4, <3>5 DEF Begins
  <2>6. Sent(p, whole, loose, TRUE)
    BY <2>4, <2>5 DEF Sent
  <2>7. subject' = [kind |-> "answer", whole |-> whole, raw |-> before \o p \o after,
                    loose |-> loose, before |-> before, after |-> after, cut |-> TRUE]
    BY <2>1, <2>2, <2>4
  <2> QED
    BY <1>1, <2>1, <2>6, <2>7 DEF AnswerShape
<1> QED
  BY <1>3, <1>4, <1>5

LEMMA KindShapes ==
  ASSUME IInv
  PROVE  /\ IsAnswer => AnswerShape
         /\ IsEvent => EventShape
         /\ IsCard => CardShape
         /\ IsDiagnosis => DiagnosisShape
<1>1. AnswerShape => subject.kind = "answer"
  BY DEF AnswerShape
<1>2. EventShape => subject.kind = "event"
  BY DEF EventShape
<1>3. CardShape => subject.kind = "card"
  BY DEF CardShape
<1>4. DiagnosisShape => subject.kind = "diagnosis"
  BY DEF DiagnosisShape
<1> QED
  BY <1>1, <1>2, <1>3, <1>4 DEF IInv, IsAnswer, IsEvent, IsCard, IsDiagnosis

LEMMA StepInvariant == IInv /\ [Next]_vars => IInv'
<1> SUFFICES ASSUME IInv, [Next]_vars PROVE IInv'
  OBVIOUS
<1>1. CASE Loosen \/ Wrap \/ CutOff
  <2>1. IsAnswer
    BY <1>1 DEF Loosen, Wrap, CutOff
  <2>2. AnswerShape'
    BY <1>1, <2>1, KindShapes, AnswerKeeps
  <2> QED
    BY <2>2 DEF IInv
<1>2. CASE Reorder
  <2>1. IsEvent
    BY <1>2 DEF Reorder
  <2>2. EventShape'
    BY <1>2, <2>1, KindShapes, ReorderKeeps
  <2> QED
    BY <2>2 DEF IInv
<1>3. CASE Repeat
  <2>1. IsEvent
    BY <1>3 DEF Repeat
  <2>2. EventShape'
    BY <1>3, <2>1, KindShapes, RepeatKeeps
  <2> QED
    BY <2>2 DEF IInv
<1>4. CASE Differ
  <2>1. IsEvent
    BY <1>4 DEF Differ
  <2>2. EventShape'
    BY <1>4, <2>1, KindShapes, DifferKeeps
  <2> QED
    BY <2>2 DEF IInv
<1>7. CASE Join
  <2>1. IsEvent
    BY <1>7 DEF Join
  <2>2. EventShape'
    BY <1>7, <2>1, KindShapes, JoinKeeps
  <2> QED
    BY <2>2 DEF IInv
<1>5. CASE Respond
  <2>1. IsCard
    BY <1>5 DEF Respond
  <2>2. CardShape'
    BY <1>5, <2>1, KindShapes, RespondKeeps
  <2> QED
    BY <2>2 DEF IInv
<1>6. CASE UNCHANGED vars
  BY <1>6 DEF vars, IInv, AnswerShape, DiagnosisShape, EventShape, CardShape
<1> QED
  BY <1>1, <1>2, <1>3, <1>4, <1>5, <1>6, <1>7 DEF Next

\* Every input that a behaviour makes has one of the four shapes; a payload is its origin in
\* another form, and no post follows one that was accepted.
THEOREM Invariance == Spec => []IInv
BY InitInvariant, StepInvariant, PTL DEF Spec

-----------------------------------------------------------------------------
(* The properties *)

\* canReuse, where no lower limit than the default is configured: what is reused has
\* evidence, and if nothing of the code it cites was confirmed, it has no other flaw.
THEOREM ReuseIsFounded ==
  ASSUME MinScore \in Nat, MinScore >= DefaultMinScore
  PROVE  Spec => []ReuseIsSupported
<1>1. ASSUME IInv, IsDiagnosis PROVE ReuseIsSupported
  <2>1. PICK d \in Diagnoses(MaxEvidence, MaxLocations) :
          subject = [kind |-> "diagnosis", diagnosis |-> d]
    BY <1>1, KindShapes DEF DiagnosisShape
  <2>2. d \in AnyDiagnosis
    BY AlgorithmsAssumption DEF AnyDiagnosis
  <2>3. ScoreSchema(d) + ScoreEvidence(d) + ScoreCoherence(d) + ScoreActionable(d) = Common(d)
    BY DEF Common
  <2> QED
    BY <2>1, <2>2, <2>3, ReuseNeedsSupport DEF ReuseIsSupported
<1>2. IInv => ReuseIsSupported
  BY <1>1 DEF ReuseIsSupported
<1> QED
  BY <1>2, Invariance, PTL

\* Notify: the group sees one card for one post whose answer came, or none, and one more for
\* each post whose answer was lost: an answer that says so ends the posts.
THEOREM CopiesAreLost == Spec => []CopiesAreLostAnswers
<1>1. ASSUME IInv, IsCard PROVE CopiesAreLostAnswers
  <2>1. PICK exchanges, posts, result :
          /\ subject = [kind |-> "card", exchanges |-> exchanges,
                        at |-> [posts |-> posts, result |-> result]]
          /\ Posted(exchanges, [posts |-> posts, result |-> result])
    BY <1>1, KindShapes DEF CardShape
  <2> DEFINE made == SubSeq(exchanges, 1, posts)
             seen == {i \in DOMAIN made : made[i].delivered}
             lost == {i \in seen : made[i].answer \in {"none", "status"}}
  <2>2. /\ exchanges \in Seq(Exchanges) /\ posts \in 0 .. Len(exchanges)
        /\ \A i \in 1 .. posts : Accepted(exchanges[i].answer) => i = posts
    BY <2>1 DEF Posted
  <2>3. /\ DOMAIN made = 1 .. posts
        /\ \A i \in 1 .. posts : made[i] = exchanges[i] /\ exchanges[i] \in Exchanges
    BY <2>2
  <2>4. \A exchange \in Exchanges :
          exchange.delivered => exchange.answer \in {"none", "status"} \/ Accepted(exchange.answer)
    BY DEF Exchanges, Exchange, Accepted
  <2>5. seen \subseteq lost \cup {posts}
    BY <2>2, <2>3, <2>4
  <2>6. IsFiniteSet(seen) /\ IsFiniteSet(lost)
    <3>1. IsFiniteSet(1 .. posts)
      BY <2>2, FS_Interval
    <3>2. seen \subseteq 1 .. posts /\ lost \subseteq 1 .. posts
      BY <2>3
    <3> QED
      BY <3>1, <3>2, FS_Subset
  <2> HIDE DEF lost, seen
  <2>7. Cardinality(seen) <= 1 + Cardinality(lost)
    <3>1. /\ IsFiniteSet(lost \cup {posts}) /\ Cardinality(lost) \in Nat
          /\ Cardinality(lost \cup {posts}) <= 1 + Cardinality(lost)
      <4>1. /\ IsFiniteSet(lost \cup {posts})
            /\ Cardinality(lost \cup {posts})
                 = IF posts \in lost THEN Cardinality(lost) ELSE Cardinality(lost) + 1
        BY <2>6, FS_AddElement
      <4>2. Cardinality(lost) \in Nat
        BY <2>6, FS_CardinalityType
      <4> QED
        BY <4>1, <4>2
    <3>2. /\ Cardinality(seen) <= Cardinality(lost \cup {posts})
          /\ Cardinality(seen) \in Nat /\ Cardinality(lost \cup {posts}) \in Nat
      BY <2>5, <3>1, FS_Subset, FS_CardinalityType
    <3> QED
      BY <3>1, <3>2
  <2> QED
    BY <2>1, <2>7 DEF CopiesAreLostAnswers, seen, lost
<1>2. IInv => CopiesAreLostAnswers
  BY <1>1 DEF CopiesAreLostAnswers
<1> QED
  BY <1>2, Invariance, PTL

\* A payload of which json.Unmarshal and the placeholders have settled the values.
Still(payload) ==
  [i \in DOMAIN payload |-> Field(payload[i].name, Settled(payload[i].value))]

LEMMA SettledValues ==
  ASSUME NEW value \in PayloadValues
  PROVE  /\ Settled(value) \in PayloadValues
         /\ Settled(value).kind = value.kind
         /\ Settled(value) # Null <=> value # Null
<1>1. /\ [value EXCEPT !.dynamic = 0] \in PayloadValues
      /\ [value EXCEPT !.dynamic = 0].kind = value.kind
  BY DEF PayloadValues
<1>2. Null.kind = "null"
  BY ValuesAreValues
<1>3. CASE value.kind \in {"string", "long"}
  <2>1. Settled(value) = [value EXCEPT !.dynamic = 0]
    BY <1>3 DEF Settled
  <2>2. value # Null /\ Settled(value) # Null
    BY <1>1, <1>2, <1>3, <2>1
  <2> QED
    BY <1>1, <2>1, <2>2
<1>4. CASE value.kind \notin {"string", "long"}
  BY <1>4 DEF Settled
<1> QED
  BY <1>3, <1>4

\* Values that differ in their dynamic parts settle alike, unless they are numbers.
LEMMA SettledAlike ==
  ASSUME NEW value \in PayloadValues, NEW was \in PayloadValues,
         value.kind = was.kind, value.text = was.text, value.tail = was.tail,
         was.kind \notin ScalarKinds => value = was,
         was.kind = "number" => value = was
  PROVE  Settled(value) = Settled(was)
<1>1. CASE was.kind \in {"string", "long"}
  <2>1. /\ Settled(value) = [value EXCEPT !.dynamic = 0]
        /\ Settled(was) = [was EXCEPT !.dynamic = 0]
    BY <1>1 DEF Settled
  <2>2. /\ value = [kind |-> value.kind, text |-> value.text, dynamic |-> value.dynamic,
                    tail |-> value.tail]
        /\ was = [kind |-> was.kind, text |-> was.text, dynamic |-> was.dynamic,
                  tail |-> was.tail]
    BY DEF PayloadValues
  <2> QED
    BY <2>1, <2>2
<1>2. CASE was.kind \notin {"string", "long"}
  BY <1>2 DEF ScalarKinds
<1> QED
  BY <1>1, <1>2

LEMMA StillFields ==
  ASSUME NEW payload \in Seq(PayloadFields), Distinct(payload)
  PROVE  /\ Still(payload) \in Seq(PayloadFields) /\ Distinct(Still(payload))
         /\ Names(Still(payload)) = Names(payload)
         /\ \A name : ValueOf(Still(payload), name) = Settled(ValueOf(payload, name))
<1>1. DOMAIN payload = 1 .. Len(payload) /\ Len(payload) \in Nat
  OBVIOUS
<1>2. DOMAIN Still(payload) = DOMAIN payload
  BY DEF Still
<1>3. \A i \in DOMAIN payload :
        /\ Still(payload)[i] \in PayloadFields
        /\ Still(payload)[i].name = payload[i].name
        /\ Still(payload)[i].value = Settled(payload[i].value)
  <2> TAKE i \in DOMAIN payload
  <2>1. Still(payload)[i] = Field(payload[i].name, Settled(payload[i].value))
    BY DEF Still
  <2>2. payload[i].name \in ToSet(FieldOrder) /\ Settled(payload[i].value) \in PayloadValues
    BY FieldsOf, SettledValues
  <2>3. Still(payload)[i] \in PayloadFields
    BY <2>1, <2>2 DEF PayloadFields
  <2> QED
    BY <2>1, <2>3 DEF Field
<1>4. Still(payload) \in Seq(PayloadFields)
  <2>1. Still(payload) \in [1 .. Len(payload) -> PayloadFields]
    BY <1>1, <1>3 DEF Still
  <2> QED
    BY <1>1, <2>1
<1>5. Distinct(Still(payload)) /\ Names(Still(payload)) = Names(payload)
  BY <1>2, <1>3 DEF Distinct, Names
<1>6. ASSUME NEW name PROVE ValueOf(Still(payload), name) = Settled(ValueOf(payload, name))
  <2>1. CASE name \in Names(payload)
    <3>1. PICK i \in DOMAIN payload : payload[i].name = name
      BY <2>1 DEF Names
    <3>2. ValueOf(payload, name) = payload[i].value
      BY <3>1, ValueAt
    <3>3. ValueOf(Still(payload), name) = Still(payload)[i].value
      BY <1>2, <1>3, <1>4, <1>5, <3>1, ValueAt
    <3> QED
      BY <1>3, <3>2, <3>3
  <2>2. CASE name \notin Names(payload)
    <3>1. ValueOf(payload, name) = Null /\ ValueOf(Still(payload), name) = Null
      BY <1>4, <1>5, <2>2, NoValue
    <3>2. Settled(Null) = Null
      BY ValuesAreValues DEF Settled
    <3> QED
      BY <3>1, <3>2
  <2> QED
    BY <2>1, <2>2
<1> QED
  BY <1>4, <1>5, <1>6

\* json.Marshal changes no value.
LEMMA MarshalValues ==
  ASSUME NEW payload \in Seq(PayloadFields), NEW name
  PROVE  ValueOf(Marshal(payload), name) = ValueOf(payload, name)
<1> DEFINE names == Picked(FieldOrder, Names(payload))
           ordered == [i \in DOMAIN names |-> Field(names[i], ValueOf(payload, names[i]))]
           I == {k \in 1 .. Len(ordered) : ordered[k].name = name}
<1>1. Marshal(payload) = ordered
  BY DEF Marshal, InOrder
<1>2. FieldOrder \in Seq(ToSet(FieldOrder))
  BY FingerprintAssumption
<1>3. /\ names \in Seq(ToSet(FieldOrder))
      /\ ToSet(names) = {x \in ToSet(FieldOrder) : x \in Names(payload)}
  BY <1>2, PickedElements
<1> HIDE DEF names
<1>4. DOMAIN names = 1 .. Len(names) /\ Len(names) \in Nat
  BY <1>3
<1>5. Len(ordered) = Len(names) /\ DOMAIN ordered = 1 .. Len(names)
  BY <1>4
<1>6. \A k \in 1 .. Len(names) :
        ordered[k].name = names[k] /\ ordered[k].value = ValueOf(payload, names[k])
  BY <1>4 DEF Field
<1> HIDE DEF ordered
<1>7. CASE I = {}
  <2>1. SelectInSeq(ordered, LAMBDA f : f.name = name) = 0
    BY <1>7 DEF SelectInSeq
  <2>2. ValueOf(ordered, name) = Null
    BY <2>1 DEF ValueOf
  <2>3. name \notin ToSet(names)
    BY <1>4, <1>5, <1>6, <1>7 DEF ToSet
  <2>4. name \notin Names(payload)
    <3>1. name \in Names(payload) => name \in ToSet(FieldOrder)
      BY FieldsOf DEF Names
    <3> QED
      BY <1>3, <2>3, <3>1
  <2> QED
    BY <1>1, <2>2, <2>4, NoValue
<1>8. CASE I # {}
  <2>1. I \in SUBSET Nat
    BY <1>4, <1>5
  <2>2. PICK m \in I : \A k \in I : m <= k
    BY <1>8, <2>1, Smallest
  <2>3. Min(I) = m
    <3>1. \A k \in I : k \in Int
      BY <2>1
    <3> HIDE DEF I
    <3> QED
      BY <2>2, <3>1 DEF Min
  <2>4. SelectInSeq(ordered, LAMBDA f : f.name = name) = m
    BY <1>8, <2>3 DEF SelectInSeq
  <2>5. m # 0 /\ m \in 1 .. Len(names) /\ ordered[m].name = name
    BY <1>4, <1>5, <2>2
  <2>6. ValueOf(ordered, name) = ordered[m].value
    BY <2>4, <2>5 DEF ValueOf
  <2> QED
    BY <1>1, <1>6, <2>5, <2>6
<1> QED
  BY <1>7, <1>8

\* A field of the same error has the same value when the payload is normalised, unless it is a
\* number that has moved.
LEMMA NormalizedValues ==
  ASSUME NEW payload, NEW origin, Resembles(payload, origin, FALSE), NEW name,
         \/ ValueOf(origin, name).kind # "number"
         \/ ValueOf(payload, name) = ValueOf(origin, name)
  PROVE  Settled(ValueOf(payload, name)) = Settled(ValueOf(origin, name))
<1>1. /\ payload \in Seq(PayloadFields) /\ Distinct(payload)
      /\ origin \in Seq(PayloadFields) /\ Distinct(origin)
      /\ Names(payload) = Names(origin)
  BY DEF Resembles
<1>2. CASE name \in Names(origin)
  <2>1. PICK i \in DOMAIN payload : payload[i].name = name
    BY <1>1, <1>2 DEF Names
  <2>2. PICK j \in DOMAIN origin : origin[j].name = name
    BY <1>2 DEF Names
  <2>3. ValueOf(payload, name) = payload[i].value /\ ValueOf(origin, name) = origin[j].value
    BY <1>1, <2>1, <2>2, ValueAt
  <2>4. payload[i].value \in PayloadValues /\ origin[j].value \in PayloadValues
    BY <1>1, FieldsOf
  <2>5. /\ payload[i].value.kind = origin[j].value.kind
        /\ payload[i].value.text = origin[j].value.text
        /\ payload[i].value.tail = origin[j].value.tail
        /\ origin[j].value.kind \notin ScalarKinds => payload[i].value = origin[j].value
    BY <2>1, <2>2 DEF Resembles
  <2>6. origin[j].value.kind = "number" => payload[i].value = origin[j].value
    BY <2>3
  <2> QED
    BY <2>3, <2>4, <2>5, <2>6, SettledAlike
<1>3. CASE name \notin Names(origin)
  BY <1>1, <1>3, NoValue
<1> QED
  BY <1>2, <1>3

\* normalizePayload: what is left of the same error, later and in another order, if it has no
\* number that has moved.
LEMMA NormalizedAlike ==
  ASSUME NEW payload, NEW origin, Resembles(payload, origin, FALSE),
         \A name \in Names(origin) : \/ ValueOf(origin, name).kind # "number"
                                     \/ ValueOf(payload, name) = ValueOf(origin, name)
  PROVE  Normalize(payload) = Normalize(origin)
<1> DEFINE p == Still(payload)
           q == Still(origin)
<1>1. /\ payload \in Seq(PayloadFields) /\ Distinct(payload)
      /\ origin \in Seq(PayloadFields) /\ Distinct(origin)
      /\ Names(payload) = Names(origin)
  BY DEF Resembles
<1>2. /\ Names(p) = Names(q) /\ Names(q) = Names(origin)
      /\ \A name : /\ ValueOf(p, name) = Settled(ValueOf(payload, name))
                   /\ ValueOf(q, name) = Settled(ValueOf(origin, name))
  BY <1>1, StillFields
<1> HIDE DEF p, q
<1>3. ASSUME NEW name \in Names(p) PROVE ValueOf(p, name) = ValueOf(q, name)
  <2>1. \/ ValueOf(origin, name).kind # "number"
        \/ ValueOf(payload, name) = ValueOf(origin, name)
    BY <1>2
  <2>2. Settled(ValueOf(payload, name)) = Settled(ValueOf(origin, name))
    BY <2>1, NormalizedValues
  <2> QED
    BY <1>2, <2>2
<1>4. Marshal(p) = Marshal(q)
  <2>1. FieldOrder \in Seq(ToSet(FieldOrder))
    BY FingerprintAssumption
  <2>2. InOrder(p, FieldOrder, Names(p)) = InOrder(q, FieldOrder, Names(p))
    BY <1>3, <2>1, InOrderOf
  <2> QED
    BY <1>2, <2>2 DEF Marshal
<1> QED
  BY <1>4 DEF Normalize, Still, p, q

\* extractEnvironment reads the payload as it came, of which the environment is the same.
LEMMA EnvironmentAlike ==
  ASSUME NEW payload, NEW origin, Resembles(payload, origin, FALSE)
  PROVE  ExtractEnvironment(payload) = ExtractEnvironment(origin)
<1> DEFINE Strings(p) == {f.name : f \in {g \in ToSet(p) : g.value.kind = "string"}}
<1>1. /\ payload \in Seq(PayloadFields) /\ Distinct(payload)
      /\ origin \in Seq(PayloadFields) /\ Distinct(origin)
      /\ Names(payload) = Names(origin)
  BY DEF Resembles
<1>2. \A p : Strings(p) = {p[i].name : i \in {j \in DOMAIN p : p[j].value.kind = "string"}}
  BY DEF ToSet
<1>3. \A i \in DOMAIN payload : \E j \in DOMAIN origin : payload[i].name = origin[j].name
  BY <1>1 DEF Names
<1>4. \A j \in DOMAIN origin : \E i \in DOMAIN payload : payload[i].name = origin[j].name
  BY <1>1 DEF Names
<1>5. \A i \in DOMAIN payload, j \in DOMAIN origin :
        payload[i].name = origin[j].name => payload[i].value.kind = origin[j].value.kind
  BY DEF Resembles
<1>6. Strings(payload) = Strings(origin)
  <2> DEFINE Held(p) == {p[i].name : i \in {j \in DOMAIN p : p[j].value.kind = "string"}}
  <2>1. ASSUME NEW x \in Held(payload) PROVE x \in Held(origin)
    <3>1. PICK i \in DOMAIN payload : payload[i].value.kind = "string" /\ x = payload[i].name
      OBVIOUS
    <3>2. PICK j \in DOMAIN origin : payload[i].name = origin[j].name
      BY <1>3
    <3> QED
      BY <1>5, <3>1, <3>2
  <2>2. ASSUME NEW x \in Held(origin) PROVE x \in Held(payload)
    <3>1. PICK j \in DOMAIN origin : origin[j].value.kind = "string" /\ x = origin[j].name
      OBVIOUS
    <3>2. PICK i \in DOMAIN payload : payload[i].name = origin[j].name
      BY <1>4
    <3> QED
      BY <1>5, <3>1, <3>2
  <2>3. Strings(payload) = Held(payload) /\ Strings(origin) = Held(origin)
    BY <1>2
  <2> HIDE DEF Held, Strings
  <2> QED
    BY <2>1, <2>2, <2>3
<1>7. ASSUME NEW name \in ToSet(EnvironmentFields)
      PROVE  ValueOf(payload, name) = ValueOf(origin, name)
  <2>1. \A i \in DOMAIN payload, j \in DOMAIN origin :
          payload[i].name = name /\ origin[j].name = name => payload[i].value = origin[j].value
    BY <1>7 DEF Resembles
  <2> QED
    BY <1>1, <2>1, SameValues
<1>8. EnvironmentFields \in Seq(ToSet(FieldOrder))
  BY FingerprintAssumption
<1> HIDE DEF Strings
<1>9. InOrder(payload, EnvironmentFields, Strings(payload))
        = InOrder(origin, EnvironmentFields, Strings(origin))
  BY <1>6, <1>7, <1>8, InOrderOf
<1> QED
  BY <1>9 DEF ExtractEnvironment, Strings

\* What is hashed one piece for each field is those pieces.
LEMMA OnePieceEach ==
  ASSUME NEW A, NEW s \in Seq(A)
  PROVE  FlattenSeq([i \in DOMAIN s |-> <<s[i]>>]) = s
<1> DEFINE N == Len(s)
           seqs == [i \in DOMAIN s |-> <<s[i]>>]
           Body(f) == [i \in 1 .. Len(seqs) |-> IF i = 1 THEN seqs[i] ELSE f[i - 1] \o seqs[i]]
           flatten == CHOOSE f : f = Body(f)
           g == [i \in 1 .. N |-> SubSeq(s, 1, i)]
<1>1. N \in Nat /\ DOMAIN s = 1 .. N /\ \A i \in 1 .. N : s[i] \in A
  OBVIOUS
<1>2. Len(seqs) = N /\ \A i \in 1 .. N : seqs[i] = <<s[i]>>
  BY <1>1
<1>3. FlattenSeq(seqs) = IF N = 0 THEN seqs ELSE flatten[N]
  BY <1>2 DEF FlattenSeq
<1>4. CASE N = 0
  <2>1. DOMAIN s = {} /\ s = [i \in DOMAIN s |-> s[i]]
    BY <1>1, <1>4
  <2>2. seqs = s
    BY <2>1
  <2> QED
    BY <1>3, <1>4, <2>2
<1>5. CASE N # 0
  <2>1. /\ 1 \in 1 .. N => SubSeq(s, 1, 1) = seqs[1]
        /\ \A i \in 1 .. N : i # 1 => SubSeq(s, 1, i) = SubSeq(s, 1, i - 1) \o seqs[i]
    <3>1. ASSUME NEW i \in 1 .. N
          PROVE  /\ i = 1 => SubSeq(s, 1, 1) = <<s[1]>>
                 /\ i # 1 => SubSeq(s, 1, i) = SubSeq(s, 1, i - 1) \o <<s[i]>>
      <4> DEFINE t == SubSeq(s, 1, i - 1)
                 e == s[i]
      <4>1. t \in Seq(A) /\ Len(t) = i - 1 /\ \A k \in 1 .. i - 1 : t[k] = s[k]
        BY <1>1
      <4>2. /\ SubSeq(s, 1, i) \in Seq(A) /\ Len(SubSeq(s, 1, i)) = i
            /\ \A k \in 1 .. i : SubSeq(s, 1, i)[k] = s[k]
        BY <1>1
      <4>3. e \in A /\ <<e>> \in Seq(A) /\ Len(<<e>>) = 1 /\ <<e>>[1] = e
        BY <1>1
      <4>4. \A k \in 1 .. i : k = i \/ k \in 1 .. i - 1
        OBVIOUS
      <4> HIDE DEF t
      <4>5. /\ t \o <<e>> \in Seq(A) /\ Len(t \o <<e>>) = i
            /\ \A k \in 1 .. i : (t \o <<e>>)[k] = s[k]
        <5>1. /\ t \o <<e>> \in Seq(A) /\ Len(t \o <<e>>) = Len(t) + 1
              /\ \A k \in 1 .. Len(t) + 1 : (t \o <<e>>)[k] = IF k <= Len(t) THEN t[k] ELSE e
          BY <4>1, <4>3
        <5>2. Len(t) + 1 = i /\ \A k \in 1 .. i : k <= Len(t) <=> k \in 1 .. i - 1
          BY <4>1
        <5> QED
          BY <4>1, <4>4, <5>1, <5>2
      <4>6. SubSeq(s, 1, i) = t \o <<e>>
        BY <4>2, <4>5, SeqEqual
      <4>7. i = 1 => SubSeq(s, 1, 1) = <<e>>
        <5> DEFINE u == SubSeq(s, 1, 1)
                   w == <<e>>
        <5>1. i = 1 => u \in Seq(A) /\ Len(u) = 1 /\ u[1] = e
          BY <4>2
        <5>2. w \in Seq(A) /\ Len(w) = 1 /\ w[1] = e
          BY <4>3
        <5>3. \A k \in 1 .. 1 : k = 1
          OBVIOUS
        <5> HIDE DEF u, w
        <5> QED
          BY <5>1, <5>2, <5>3, SeqEqual DEF u, w
      <4> QED
        BY <4>6, <4>7 DEF t
    <3> QED
      BY <1>2, <3>1
  <2> HIDE DEF seqs, N
  <2>2. g = Body(g)
    <3>1. \A i \in 1 .. N : g[i] = IF i = 1 THEN seqs[i] ELSE g[i - 1] \o seqs[i]
      <4> TAKE i \in 1 .. N
      <4>1. i # 1 => i - 1 \in 1 .. N
        BY <1>1
      <4> QED
        BY <2>1, <4>1
    <3> QED
      BY <1>2, <3>1
  <2>3. flatten = Body(flatten)
    <3> HIDE DEF Body, g
    <3> QED
      BY <2>2
  <2>4. \A i \in 1 .. N : flatten[i] = IF i = 1 THEN seqs[i] ELSE flatten[i - 1] \o seqs[i]
    <3> HIDE DEF flatten
    <3>1. \A i \in 1 .. N : flatten[i] = Body(flatten)[i]
      BY <2>3
    <3> QED
      BY <1>2, <3>1
  <2> HIDE DEF flatten
  <2> DEFINE T == {n \in Nat : n + 1 <= N => flatten[n + 1] = SubSeq(s, 1, n + 1)}
  <2>5. 0 \in T
    BY <1>1, <2>1, <2>4
  <2>6. ASSUME NEW n \in Nat, n \in T PROVE n + 1 \in T
    <3> SUFFICES ASSUME n + 1 + 1 <= N PROVE flatten[n + 1 + 1] = SubSeq(s, 1, n + 1 + 1)
      OBVIOUS
    <3>1. n + 1 + 1 \in 1 .. N /\ n + 1 + 1 # 1 /\ n + 1 + 1 - 1 = n + 1 /\ n + 1 <= N
      BY <1>1
    <3>2. flatten[n + 1] = SubSeq(s, 1, n + 1)
      BY <2>6, <3>1
    <3> DEFINE m == n + 1 + 1
    <3>3. m \in 1 .. N /\ m # 1 /\ flatten[m - 1] = SubSeq(s, 1, m - 1)
      BY <3>1, <3>2
    <3> HIDE DEF m
    <3>4. flatten[m] = flatten[m - 1] \o seqs[m] /\ SubSeq(s, 1, m) = SubSeq(s, 1, m - 1) \o seqs[m]
      BY <2>1, <2>4, <3>3
    <3>5. flatten[m] = SubSeq(s, 1, m)
      BY <3>3, <3>4
    <3> QED
      BY <3>5 DEF m
  <2>7. N - 1 \in T
    <3> HIDE DEF T
    <3>1. N - 1 \in Nat
      BY <1>1, <1>5
    <3> QED
      BY <2>5, <2>6, <3>1, Induction
  <2>8. flatten[N] = SubSeq(s, 1, N)
    BY <1>1, <1>5, <2>7
  <2>9. SubSeq(s, 1, N) = s
    BY <1>1 DEF N
  <2>10. FlattenSeq(seqs) = s
    BY <1>3, <1>5, <2>8, <2>9
  <2> QED
    BY <2>10 DEF seqs
<1> QED
  BY <1>4, <1>5

\* The fingerprint where a project has configured fields and one of them is there, or none.
LEMMA ProjectFingerprint ==
  ASSUME NEW payload, NEW fields, fields # <<>>
  PROVE  /\ ProjectMatches(payload, fields) # <<>> =>
              ComputeFingerprint(payload, fields)
                = [text |-> HashedText(ProjectMatches(payload, fields))]
         /\ ProjectMatches(payload, fields) = <<>> =>
              ComputeFingerprint(payload, fields) = [whole |-> payload]
<1> DEFINE match == ProjectMatches(payload, fields)
           matches == <<match>>
           I == {k \in 1 .. Len(matches) : matches[k] # <<>>}
           i == SelectInSeq(matches, LAMBDA fs : fs # <<>>)
<1>1. ComputeFingerprint(payload, fields)
        = IF i = 0 THEN [whole |-> payload] ELSE [text |-> HashedText(matches[i])]
  BY DEF ComputeFingerprint
<1> HIDE DEF match
<1>2. Len(matches) = 1 /\ matches[1] = match
  OBVIOUS
<1> HIDE DEF matches
<1>3. ASSUME match # <<>> PROVE i = 1
  <2>1. 1 \in I /\ \A k \in I : k \in Int /\ 1 <= k
    BY <1>2, <1>3
  <2> HIDE DEF I
  <2>2. Min(I) = 1 /\ I # {}
    BY <2>1 DEF Min
  <2> QED
    BY <2>2 DEF SelectInSeq, I
<1>4. ASSUME match = <<>> PROVE i = 0
  <2>1. I = {}
    BY <1>2, <1>4
  <2> QED
    BY <2>1 DEF SelectInSeq
<1> HIDE DEF i
<1> QED
  BY <1>1, <1>2, <1>3, <1>4 DEF match

\* The configured fields of a payload that are there.
LEMMA MatchesOf ==
  ASSUME NEW payload, NEW fields, fields \in Seq(ToSet(fields)),
         NEW names, names = Picked(fields, Present(payload, fields))
  PROVE  /\ names \in Seq(ToSet(fields)) /\ ToSet(names) = Present(payload, fields)
         /\ ProjectMatches(payload, fields)
              = [i \in DOMAIN names |-> Field(names[i], ValueOf(payload, names[i]))]
         /\ ProjectMatches(payload, fields) # <<>> <=> Found(payload, fields)
<1>1. /\ names \in Seq(ToSet(fields))
      /\ ToSet(names) = {x \in ToSet(fields) : x \in Present(payload, fields)}
  BY PickedElements
<1>2. ToSet(names) = Present(payload, fields)
  BY <1>1 DEF Present
<1> DEFINE match == [i \in DOMAIN names |-> Field(names[i], ValueOf(payload, names[i]))]
<1>3. ProjectMatches(payload, fields) = match
  BY DEF ProjectMatches, InOrder
<1>4. Found(payload, fields) <=> Present(payload, fields) # {}
  BY DEF Found, Present, ToSet
<1>5. DOMAIN match = DOMAIN names
  OBVIOUS
<1> HIDE DEF match
<1>6. match # <<>> <=> DOMAIN match # {}
  <2>1. match = <<>> => DOMAIN match = {}
    OBVIOUS
  <2>2. DOMAIN match = {} => match = <<>>
    <3>1. match = [i \in DOMAIN match |-> match[i]]
      BY DEF match
    <3> QED
      BY <3>1
  <2> QED
    BY <2>1, <2>2
<1>7. ToSet(names) # {} <=> DOMAIN names # {}
  BY DEF ToSet
<1> QED
  BY <1>1, <1>2, <1>3, <1>4, <1>5, <1>6, <1>7 DEF match

\* Events that read alike in the configured fields, of which one is there, have one fingerprint.
LEMMA AlikeIsSame ==
  ASSUME NEW p, NEW q, NEW fields, fields \in Seq(ToSet(fields)), Found(q, fields),
         \A i \in DOMAIN fields : ReadsAlike(p, q, fields[i])
  PROVE  ComputeFingerprint(p, fields) = ComputeFingerprint(q, fields)
<1> DEFINE names == Picked(fields, Present(q, fields))
           v == ProjectMatches(p, fields)
           w == ProjectMatches(q, fields)
<1>1. \A name \in ToSet(fields) :
        /\ ValueOf(p, name) = Null <=> ValueOf(q, name) = Null
        /\ Written(Field(name, ValueOf(p, name))) = Written(Field(name, ValueOf(q, name)))
  BY DEF ReadsAlike, ToSet
<1>2. Present(p, fields) = Present(q, fields)
  BY <1>1 DEF Present
<1>3. /\ names \in Seq(ToSet(fields)) /\ ToSet(names) = Present(q, fields)
      /\ v = [i \in DOMAIN names |-> Field(names[i], ValueOf(p, names[i]))]
      /\ w = [i \in DOMAIN names |-> Field(names[i], ValueOf(q, names[i]))]
      /\ v # <<>> /\ w # <<>>
  <2>1. Found(p, fields)
    BY <1>1 DEF Found, ToSet
  <2> QED
    BY <1>2, <2>1, MatchesOf
<1> HIDE DEF names, v, w
<1>4. \A i \in DOMAIN names : names[i] \in ToSet(fields)
  BY <1>3 DEF ToSet
<1>5. DOMAIN v = DOMAIN names /\ DOMAIN w = DOMAIN names
  BY <1>3
<1>6. \A i \in DOMAIN names : Written(v[i]) = Written(w[i])
  BY <1>1, <1>3, <1>4
<1>7. [i \in DOMAIN v |-> Written(v[i])] = [i \in DOMAIN w |-> Written(w[i])]
  BY <1>5, <1>6
<1>8. HashedText(v) = HashedText(w)
  BY <1>7 DEF HashedText
<1>9. fields # <<>>
  BY DEF Found
<1> QED
  BY <1>3, <1>8, <1>9, ProjectFingerprint DEF v, w

\* What is hashed of fields whose strings have no bars: a piece of each, under its name.
PieceOf(f) == Piece(f.name, f.value.text, IF f.value.kind = "long" THEN 0 ELSE f.value.dynamic)

LEMMA PlainText ==
  ASSUME NEW s, NEW N \in Nat, DOMAIN s = 1 .. N, s = [i \in 1 .. N |-> s[i]],
         \A i \in 1 .. N : s[i].value.tail = <<>>
  PROVE  HashedText(s) = [i \in 1 .. N |-> PieceOf(s[i])]
<1> DEFINE pieces == [i \in 1 .. N |-> PieceOf(s[i])]
           A == {PieceOf(s[i]) : i \in 1 .. N}
<1>1. pieces \in Seq(A)
  <2>1. pieces \in [1 .. N -> A]
    OBVIOUS
  <2> HIDE DEF pieces, A
  <2> QED
    BY <2>1
<1>2. \A i \in 1 .. N : Written(s[i]) = <<pieces[i]>>
  <2> TAKE i \in 1 .. N
  <2>1. Written(s[i]) = <<PieceOf(s[i])>> \o <<>>
    BY DEF Written, PieceOf
  <2> DEFINE e == PieceOf(s[i])
  <2> HIDE DEF e
  <2>2. <<e>> \o <<>> = <<e>>
    <3>1. <<e>> \in Seq({e})
      OBVIOUS
    <3> QED
      BY <3>1, ConcatEmptySeq
  <2> QED
    BY <2>1, <2>2 DEF e
<1>3. DOMAIN pieces = 1 .. N
  OBVIOUS
<1> HIDE DEF pieces, A
<1>4. [i \in DOMAIN s |-> Written(s[i])] = [i \in DOMAIN pieces |-> <<pieces[i]>>]
  BY <1>2, <1>3
<1>5. FlattenSeq([i \in DOMAIN pieces |-> <<pieces[i]>>]) = pieces
  BY <1>1, OnePieceEach
<1> QED
  BY <1>4, <1>5 DEF HashedText, pieces

\* Events with one fingerprint read alike in the configured fields, if none of these has bars.
LEMMA SameIsAlike ==
  ASSUME NEW p, NEW q, NEW fields, fields \in Seq(ToSet(fields)), Found(q, fields),
         \A i \in DOMAIN fields :
           ValueOf(p, fields[i]).tail = <<>> /\ ValueOf(q, fields[i]).tail = <<>>,
         ComputeFingerprint(p, fields) = ComputeFingerprint(q, fields)
  PROVE  \A i \in DOMAIN fields : ReadsAlike(p, q, fields[i])
<1> DEFINE a == Picked(fields, Present(p, fields))
           b == Picked(fields, Present(q, fields))
           v == ProjectMatches(p, fields)
           w == ProjectMatches(q, fields)
<1>1. fields # <<>>
  BY DEF Found
<1>2. /\ a \in Seq(ToSet(fields)) /\ ToSet(a) = Present(p, fields)
      /\ v = [i \in DOMAIN a |-> Field(a[i], ValueOf(p, a[i]))]
      /\ b \in Seq(ToSet(fields)) /\ ToSet(b) = Present(q, fields)
      /\ w = [i \in DOMAIN b |-> Field(b[i], ValueOf(q, b[i]))]
      /\ w # <<>>
  BY MatchesOf
<1> HIDE DEF a, b, v, w
<1>3. /\ ComputeFingerprint(q, fields) = [text |-> HashedText(w)]
      /\ v # <<>> => ComputeFingerprint(p, fields) = [text |-> HashedText(v)]
      /\ v = <<>> => ComputeFingerprint(p, fields) = [whole |-> p]
  BY <1>1, <1>2, ProjectFingerprint DEF v, w
<1>4. HashedText(v) = HashedText(w)
  <2>1. ASSUME NEW x, NEW y PROVE [whole |-> x] # [text |-> y]
    <3>1. DOMAIN [whole |-> x] = {"whole"} /\ DOMAIN [text |-> y] = {"text"}
      OBVIOUS
    <3> QED
      BY <3>1
  <2>2. v # <<>>
    BY <1>3, <2>1
  <2>3. \A x, y : [text |-> x] = [text |-> y] => x = y
    <3>1. \A x : [text |-> x].text = x
      OBVIOUS
    <3> QED
      BY <3>1
  <2> QED
    BY <1>3, <2>2, <2>3
<1>5. \A i \in DOMAIN a : a[i] \in ToSet(fields)
  BY <1>2 DEF ToSet
<1>6. \A i \in DOMAIN b : b[i] \in ToSet(fields)
  BY <1>2 DEF ToSet
<1>7. \A name \in ToSet(fields) : ValueOf(p, name).tail = <<>> /\ ValueOf(q, name).tail = <<>>
  BY DEF ToSet
<1>8. /\ DOMAIN a = 1 .. Len(a) /\ Len(a) \in Nat /\ DOMAIN b = 1 .. Len(b) /\ Len(b) \in Nat
      /\ a = [i \in 1 .. Len(a) |-> a[i]] /\ b = [i \in 1 .. Len(b) |-> b[i]]
  BY <1>2
<1>9. /\ \A i \in 1 .. Len(a) : v[i].name = a[i] /\ v[i].value = ValueOf(p, a[i])
      /\ \A i \in 1 .. Len(b) : w[i].name = b[i] /\ w[i].value = ValueOf(q, b[i])
  BY <1>2, <1>8 DEF Field
<1>10. HashedText(v) = [i \in 1 .. Len(a) |-> PieceOf(v[i])]
  <2>1. DOMAIN v = 1 .. Len(a) /\ v = [i \in 1 .. Len(a) |-> v[i]]
    BY <1>2, <1>8
  <2>2. \A i \in 1 .. Len(a) : v[i].value.tail = <<>>
    BY <1>5, <1>7, <1>8, <1>9
  <2> QED
    BY <1>8, <2>1, <2>2, PlainText
<1>11. HashedText(w) = [i \in 1 .. Len(b) |-> PieceOf(w[i])]
  <2>1. DOMAIN w = 1 .. Len(b) /\ w = [i \in 1 .. Len(b) |-> w[i]]
    BY <1>2, <1>8
  <2>2. \A i \in 1 .. Len(b) : w[i].value.tail = <<>>
    BY <1>6, <1>7, <1>8, <1>9
  <2> QED
    BY <1>8, <2>1, <2>2, PlainText
<1>12. Len(a) = Len(b) /\ \A i \in 1 .. Len(a) : PieceOf(v[i]) = PieceOf(w[i])
  <2>1. [i \in 1 .. Len(a) |-> PieceOf(v[i])] = [i \in 1 .. Len(b) |-> PieceOf(w[i])]
    BY <1>4, <1>10, <1>11
  <2>2. 1 .. Len(a) = 1 .. Len(b)
    BY <2>1
  <2>3. Len(a) = Len(b)
    <3>1. \A m, n \in Nat : 1 .. m = 1 .. n => m = n
      <4> SUFFICES ASSUME NEW m \in Nat, NEW n \in Nat, 1 .. m = 1 .. n, m < n PROVE FALSE
        OBVIOUS
      <4>1. n \in 1 .. n /\ n \notin 1 .. m
        OBVIOUS
      <4> QED
        BY <4>1
    <3> QED
      BY <1>8, <2>2, <3>1
  <2> QED
    BY <2>1, <2>3
<1>13. \A i \in 1 .. Len(a) : a[i] = b[i]
  <2> TAKE i \in 1 .. Len(a)
  <2>1. PieceOf(v[i]).name = a[i] /\ PieceOf(w[i]).name = b[i]
    BY <1>9, <1>12 DEF PieceOf, Piece
  <2> QED
    BY <1>12, <2>1
<1>14. a = b
  BY <1>8, <1>12, <1>13
<1>15. Present(p, fields) = Present(q, fields)
  BY <1>2, <1>14
<1> TAKE i \in DOMAIN fields
<1> DEFINE name == fields[i]
<1>16. name \in ToSet(fields)
  BY DEF ToSet
<1>17. ValueOf(p, name) = Null <=> ValueOf(q, name) = Null
  BY <1>15, <1>16 DEF Present
<1> HIDE DEF name
<1>18. Written(Field(name, ValueOf(p, name))) = Written(Field(name, ValueOf(q, name)))
  <2>1. CASE name \in Present(q, fields)
    <3>1. PICK k \in 1 .. Len(a) : a[k] = name
      BY <1>2, <1>8, <1>15, <2>1 DEF ToSet
    <3>2. v[k] = Field(name, ValueOf(p, name)) /\ w[k] = Field(name, ValueOf(q, name))
      BY <1>2, <1>8, <1>14, <3>1
    <3>3. PieceOf(v[k]) = PieceOf(w[k])
      BY <1>12
    <3>4. ValueOf(p, name).tail = <<>> /\ ValueOf(q, name).tail = <<>>
      BY <1>7, <1>16
    <3>5. \A f : Written(f) = <<PieceOf(f)>> \o f.value.tail
      BY DEF Written, PieceOf
    <3>6. v[k].value.tail = <<>> /\ w[k].value.tail = <<>>
      BY <3>2, <3>4 DEF Field
    <3>7. Written(v[k]) = <<PieceOf(v[k])>> \o <<>> /\ Written(w[k]) = <<PieceOf(w[k])>> \o <<>>
      BY <3>5, <3>6
    <3> QED
      BY <3>2, <3>3, <3>7
  <2>2. CASE name \notin Present(q, fields)
    <3>1. ValueOf(p, name) = Null /\ ValueOf(q, name) = Null
      BY <1>16, <1>17, <2>2 DEF Present
    <3> QED
      BY <3>1
  <2> QED
    BY <2>1, <2>2
<1> QED
  BY <1>17, <1>18 DEF ReadsAlike, name

\* One error has one diagnosis fingerprint, in whatever order its fields are sent and whatever
\* is dynamic in its strings.  Numbers are not normalised: one that moves must be among those
\* that are not hashed, for which the project has to have configured fields that are there.
THEOREM OneErrorOneFingerprint == Spec => []RepeatsMatch
<1>1. ASSUME NEW payload, NEW origin, Resembles(payload, origin, FALSE),
             subject.payload = payload, subject.origin = origin,
             NEW fields \in ProjectFields, Moved \cap Hashable(fields) = {}
      PROVE  ComputeDiagnosisFingerprint(payload, fields)
               = ComputeDiagnosisFingerprint(origin, fields)
  <2> DEFINE p == Normalize(payload)
             q == Normalize(origin)
  <2>1. ExtractEnvironment(payload) = ExtractEnvironment(origin)
    BY <1>1, EnvironmentAlike
  <2>2. \A name \in Names(origin) :
          name \notin Moved => \/ ValueOf(origin, name).kind # "number"
                               \/ ValueOf(payload, name) = ValueOf(origin, name)
    BY <1>1 DEF Moved
  <2>3. CASE Found(origin, fields)
    <3>1. /\ payload \in Seq(PayloadFields) /\ Distinct(payload)
          /\ origin \in Seq(PayloadFields) /\ Distinct(origin)
          /\ Names(payload) = Names(origin)
      BY <1>1 DEF Resembles
    <3>2. \A name : /\ ValueOf(p, name) = Settled(ValueOf(payload, name))
                    /\ ValueOf(q, name) = Settled(ValueOf(origin, name))
      <4>1. p = Marshal(Still(payload)) /\ q = Marshal(Still(origin))
        BY DEF Normalize, Still
      <4> QED
        BY <3>1, <4>1, StillFields, MarshalValues
    <3> HIDE DEF p, q
    <3>3. ASSUME NEW i \in DOMAIN fields
          PROVE  ValueOf(p, fields[i]) = ValueOf(q, fields[i])
      <4>1. CASE fields[i] \in Names(origin)
        <5>1. fields[i] \notin Moved
          BY <1>1, <2>3 DEF Hashable, ToSet
        <5>2. Settled(ValueOf(payload, fields[i])) = Settled(ValueOf(origin, fields[i]))
          <6>1. \/ ValueOf(origin, fields[i]).kind # "number"
                \/ ValueOf(payload, fields[i]) = ValueOf(origin, fields[i])
            BY <2>2, <4>1, <5>1
          <6> QED
            BY <1>1, <6>1, NormalizedValues
        <5> QED
          BY <3>2, <5>2
      <4>2. CASE fields[i] \notin Names(origin)
        <5>1. ValueOf(payload, fields[i]) = Null /\ ValueOf(origin, fields[i]) = Null
          BY <3>1, <4>2, NoValue
        <5> QED
          BY <3>2, <5>1
      <4> QED
        BY <4>1, <4>2
    <3>4. \A i \in DOMAIN fields : ReadsAlike(p, q, fields[i])
      BY <3>3 DEF ReadsAlike
    <3>5. Found(q, fields)
      <4>1. PICK i \in DOMAIN fields : ValueOf(origin, fields[i]) # Null
        BY <2>3 DEF Found
      <4>2. fields[i] \in Names(origin)
        BY <3>1, <4>1, NoValue
      <4>3. ValueOf(origin, fields[i]) \in PayloadValues
        <5>1. PICK j \in DOMAIN origin : origin[j].name = fields[i]
          BY <4>2 DEF Names
        <5>2. ValueOf(origin, fields[i]) = origin[j].value
          BY <3>1, <5>1, ValueAt
        <5> QED
          BY <3>1, <5>2, FieldsOf
      <4>4. ValueOf(q, fields[i]) # Null
        BY <3>2, <4>1, <4>3, SettledValues
      <4> QED
        BY <4>4 DEF Found
    <3>6. fields \in Seq(ToSet(fields))
      BY AlgorithmsAssumption
    <3>7. ComputeFingerprint(p, fields) = ComputeFingerprint(q, fields)
      BY <3>4, <3>5, <3>6, AlikeIsSame
    <3> QED
      BY <2>1, <3>7 DEF ComputeDiagnosisFingerprint, p, q
  <2>4. CASE ~Found(origin, fields)
    <3>1. Hashable(fields) = Names(origin)
      BY <1>1, <2>4 DEF Hashable
    <3>2. \A name \in Names(origin) : name \notin Moved
      BY <1>1, <3>1
    <3>3. p = q
      BY <1>1, <2>2, <3>2, NormalizedAlike
    <3> QED
      BY <2>1, <3>3 DEF ComputeDiagnosisFingerprint
  <2> QED
    BY <2>3, <2>4
<1>2. ASSUME IInv, IsEvent, ~subject.other PROVE RepeatsMatch
  <2>1. PICK origin, payload, later, other :
          /\ subject = [kind |-> "event", origin |-> origin, payload |-> payload,
                        later |-> later, other |-> other]
          /\ other \in BOOLEAN /\ Resembles(payload, origin, other)
    BY <1>2, KindShapes DEF EventShape
  <2>2. /\ Resembles(payload, origin, FALSE)
        /\ subject.payload = payload /\ subject.origin = origin
    BY <1>2, <2>1
  <2> QED
    BY <1>1, <2>2 DEF RepeatsMatch
<1>3. IInv => RepeatsMatch
  BY <1>2 DEF RepeatsMatch
<1> QED
  BY <1>3, Invariance, PTL

\* Where a project has configured fields and an event has one of them, whatever reads alike in
\* these fields counts as the same event, in whatever else it differs; and where no string has
\* a bar in it, what counts as the same reads alike in every one of the fields.
THEOREM FieldsDecide == Spec => []ProjectFieldsDecide
<1>1. \A fields \in ProjectFields : fields \in Seq(ToSet(fields))
  BY AlgorithmsAssumption
<1>2. ProjectFieldsDecide
  <2> SUFFICES ASSUME NEW fields \in ProjectFields, Found(subject.origin, fields)
               PROVE  LET p == subject.payload
                          q == subject.origin
                          alike == \A i \in DOMAIN fields : ReadsAlike(p, q, fields[i])
                          plain == \A i \in DOMAIN fields, x \in {p, q} :
                                     ValueOf(x, fields[i]).tail = <<>>
                          same == ComputeFingerprint(p, fields) = ComputeFingerprint(q, fields)
                      IN  (alike => same) /\ (same /\ plain => alike)
    BY DEF ProjectFieldsDecide
  <2> DEFINE p == subject.payload
             q == subject.origin
  <2> HIDE DEF p, q
  <2>1. ASSUME \A i \in DOMAIN fields : ReadsAlike(p, q, fields[i])
        PROVE  ComputeFingerprint(p, fields) = ComputeFingerprint(q, fields)
    BY <1>1, <2>1, AlikeIsSame DEF q
  <2>2. ASSUME \A i \in DOMAIN fields, x \in {p, q} : ValueOf(x, fields[i]).tail = <<>>,
               ComputeFingerprint(p, fields) = ComputeFingerprint(q, fields)
        PROVE  \A i \in DOMAIN fields : ReadsAlike(p, q, fields[i])
    BY <1>1, <2>2, SameIsAlike DEF q
  <2> QED
    BY <2>1, <2>2 DEF p, q
<1> QED
  BY <1>2, PTL

\* An answer that was only loosened or wrapped is parsed as the object it was to be: for
\* objects of any length, whatever tokens their strings have, and every wrapping.
THEOREM WholeAnswersAreFound == Spec => []WholeIsFound
<1>1. ASSUME IInv, IsAnswer, ~subject.cut, "fence" \notin ToSet(subject.whole)
      PROVE  ParseDiagnosisJSON(subject.raw) = subject.whole
  <2>1. PICK whole \in Objects : \E s, loose, before, after, cut :
          /\ subject = [kind |-> "answer", whole |-> whole, raw |-> before \o s \o after,
                        loose |-> loose, before |-> before, after |-> after, cut |-> cut]
          /\ Envelope(before, after)
          /\ Sent(s, whole, loose, cut)
    BY <1>1, KindShapes DEF AnswerShape
  <2>2. PICK s, loose, before, after, cut :
          /\ subject = [kind |-> "answer", whole |-> whole, raw |-> before \o s \o after,
                        loose |-> loose, before |-> before, after |-> after, cut |-> cut]
          /\ Envelope(before, after)
          /\ Sent(s, whole, loose, cut)
    BY <2>1
  <2>3. subject.whole = whole /\ subject.raw = before \o s \o after /\ subject.cut = cut
    BY <2>2
  <2>4. Intact(s, whole) /\ "fence" \notin ToSet(whole)
    BY <1>1, <2>2, <2>3 DEF Sent
  <2>5. Envelope(before, after) /\ s \in Seq(Characters)
    BY <2>2 DEF Sent
  <2>6. before \in Seq(Characters) /\ after \in Seq(Characters)
    BY <2>5, EnvelopeIs
  <2> DEFINE raw == before \o s \o after
  <2>7. Parts(Characters, before, s, after, raw)
    BY <2>5, <2>6, AroundIs
  <2> HIDE DEF raw
  <2>8. ParseDiagnosisJSON(raw) = whole
    BY <2>4, <2>5, <2>7, WholeAnswer
  <2> QED
    BY <2>3, <2>8 DEF raw
<1>2. IInv => WholeIsFound
  BY <1>1 DEF WholeIsFound
<1> QED
  BY <1>2, Invariance, PTL

\* An answer that was cut off anywhere is parsed as what completes it, if the end of a string
\* and of brackets is enough for that, and refused otherwise.
THEOREM CutAnswersAreClosed == Spec => []CutIsClosed
<1>1. ASSUME IInv, IsAnswer, subject.cut, ~subject.loose, "fence" \notin ToSet(subject.whole),
             NEW t, t = TrimSpace(SubSeq(subject.raw, Len(subject.before) + 1, Len(subject.raw)))
      PROVE  IF Completions(t) = {} THEN ParseDiagnosisJSON(subject.raw) = Error
             ELSE ParseDiagnosisJSON(subject.raw) \in Completions(t)
  <2>1. PICK whole \in Objects : \E s, loose, before, after, cut :
          /\ subject = [kind |-> "answer", whole |-> whole, raw |-> before \o s \o after,
                        loose |-> loose, before |-> before, after |-> after, cut |-> cut]
          /\ Envelope(before, after)
          /\ cut => after = <<>>
          /\ Sent(s, whole, loose, cut)
    BY <1>1, KindShapes DEF AnswerShape
  <2>2. PICK s, loose, before, after, cut :
          /\ subject = [kind |-> "answer", whole |-> whole, raw |-> before \o s \o after,
                        loose |-> loose, before |-> before, after |-> after, cut |-> cut]
          /\ Envelope(before, after)
          /\ cut => after = <<>>
          /\ Sent(s, whole, loose, cut)
    BY <2>1
  <2> DEFINE raw == before \o s \o <<>>
  <2>3. /\ subject.whole = whole /\ subject.before = before /\ after = <<>>
        /\ subject.raw = raw /\ subject.cut = cut /\ subject.loose = loose
    BY <1>1, <2>2
  <2>4. /\ s \in Seq(Tokens) /\ Begins(s, whole) /\ Len(s) >= 1 /\ Len(s) < Len(whole)
        /\ s \in Seq(Characters)
    BY <1>1, <2>2, <2>3 DEF Sent
  <2>5. Envelope(before, <<>>) /\ "fence" \notin ToSet(whole)
    BY <1>1, <2>2, <2>3
  <2>6. SubSeq(raw, Len(before) + 1, Len(raw)) = s
    BY <2>4, <2>5, EnvelopeIs, AfterIs
  <2>7. Parts(Characters, before, s, <<>>, raw)
    <3>1. before \in Seq(Characters) /\ <<>> \in Seq(Characters)
      BY <2>5, EnvelopeIs
    <3> QED
      BY <2>4, <3>1, AroundIs
  <2> HIDE DEF raw
  <2>8. t = TrimSpace(s)
    BY <1>1, <2>3, <2>6
  <2>9. IF Completions(t) = {} THEN ParseDiagnosisJSON(raw) = Error
        ELSE ParseDiagnosisJSON(raw) \in Completions(t)
    BY <2>4, <2>5, <2>7, <2>8, CutAnswer
  <2> QED
    BY <2>3, <2>9
<1>2. IInv => CutIsClosed
  BY <1>1 DEF CutIsClosed
<1> QED
  BY <1>2, Invariance, PTL
=============================================================================
